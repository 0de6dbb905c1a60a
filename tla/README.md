# A TLA+ model of florence2-base-inference-server

The server accepts images and prompts over HTTP, puts them in a bounded queue, and lets a
pool of workers run the Florence-2 ONNX models on them. Jobs are recorded in memory and in
two JSONL files, announced to webhooks, and recovered after a restart. This directory holds
TLA+ modules translated from the Rust sources, TLC configurations that check them on small
instances, and TLAPS proofs. `PROJECT.json` maps every definition to the lines it stands for.

## 1. Inventory

### Components, their state and their operations

| Component | Source | State | Operations |
|---|---|---|---|
| Model worker pool | `jobs/worker.rs`, `state.rs` | per worker: where its task stands, who owns the ONNX sessions; `ready` and `failed` counters | load, receive, hand the sessions to a blocking thread, return / panic / time out, reload, end |
| Job pipeline | `api/submit.rs`, `api/submit/*`, `jobs/queue.rs`, `jobs/worker.rs`, `main.rs` | request handlers, the `async_channel`, the job of each worker, `data/images` | submit, save upload, enqueue, roll back, run, `finish_job`, start, stop |
| Job store | `jobs/store.rs`, `types/job.rs` | `AppState.jobs`, `submissions.jsonl`, `results.jsonl` | insert, update, append, `retain_recent_jobs`, `load_jobs`, `compact_metadata` |
| Job metrics | `state.rs` | relaxed atomics | `record_*`, `snapshot` |
| Webhook delivery | `jobs/webhook.rs` | attempt, event, dead-letter file | `send_webhook`, `deliver`, `send`, dead letter |
| Front door | `api.rs`, `api/security.rs`, `state.rs` | `RateLimitWindow`, requests in the layers | `require_api_key`, `rate_limit`, `RateLimiter::check`, timeout layer |
| Inference | `inference.rs`, `inference/model.rs` | task plan, generated ids, key/value cache | image encoding, generation, cascaded tasks |
| OCR post-processing | `inference/postprocess.rs` | cursor, items | `parse_ocr_regions`, `ocr_region_item` |
| Request parsing and validation | `api/submit.rs`, `api/submit/validation.rs`, `types/task.rs`, `jobs/queue.rs` | the form, the record, the saved image | read fields, check, save, build the record, parse it again |
| JSONL files, line by line | `util.rs`, `jobs/store.rs` | `submissions.jsonl`, `results.jsonl`, their `.tmp` files | append, read, recover, write aside and rename |
| Process start and configuration | `main.rs`, `config.rs`, `config/*`, `inference/model.rs` | settings, model files | merge, refuse, check the model files, `load_jobs`, bind, drain |
| Blocking thread pool | tokio, used by `worker.rs` and the file operations | FIFO queue of tasks, threads | hand over, detach, return, hang, shut down |
| Tensors, templates, read-only endpoints, Python client | `inference/tensor.rs`, `templates.rs`, `api/*`, `examples/` | none of their own | pure data, rendering |

### How they interact

* A handler checks `ready > 0`, reads the body, saves the upload, inserts the record, appends
  to `submissions.jsonl` and only then calls `try_send`. The queue is shared with all workers.
* A worker takes a request, marks the record, moves its sessions into a blocking thread and
  waits for it under a timer. `finish_job` updates the record, appends to `results.jsonl`,
  delivers the webhook, removes the upload and applies retention, one await after the other.
  Retention works on the records of *all* jobs, those of other workers included.
* `load_jobs` runs before the server answers: it reads both files, turns unfinished jobs into
  failed ones, appends them, rewrites both files and applies retention.
* The layers of the router can drop a handler at any await (408, or the client went away).
* Model loads, inferences and every file operation run on the same blocking threads. A job or
  request that times out drops the handle of its task, not the task.
* Processes meet on the data directory: `load_jobs` of one reads what another left, and nothing
  but the address keeps two from running at once.

### What is hard, and what correctness means

| Behaviour | Property |
|---|---|
| several workers and handlers on one channel, roll-back of a lost race for the last slot | `ServedByOneWorker`, `QueuedIsPending` |
| a stop between any two steps of `finish_job` or `load_jobs` | `OneVerdict` (at any one time; what it leaves open is in section 4), `AcceptedIsOnDisk`, `AcceptedGetsOutcome` |
| every way out of an inference leads through `finish_job` | `FinishedIsSettled`, `AcceptedGetsWebhook`, `FinishedRecordsBounded` |
| one worker's retention against another worker's job | `ImplementsLifecycle`, `OneVerdict` |
| a status shown too early or too late | `RunningHasWorker`, `OneVerdict` |
| sessions lost to a panic or a timeout | `OwnsSessionsToServe`, `ReadyCount`, `FailedCount` |
| threads kept by inferences that timed out | `SessionsBounded`, `SlotReturnsWhileThreadsLast`, `RequestIsAnswered`, `ShutdownEnds` |
| order of cleanup and use of the upload | `ImageOutlivesInference` |
| files cut short, rewritten, read half-way through a stop | `ReadableUnlessCut`, `DiskMovesOn`, `ImplementsStore` |
| a start that is refused after it began to write | `SoundBeforeWriting` |
| counters read one by one while others raise them | `CountersBalance`, `SnapshotGauge` |
| lost or late answers, retries, dead letters | `AppliedOnce`, `DeadLetterIsLast`, `DeliveryEnds`, `ImplementsAnnouncement` |
| a window that only moves when it is looked at, and what counts against it | `AtMostTwiceTheLimit`, `RefusedOnlyWhenSpent`, `RetryAfterCoversWindow` |
| fields under two names, names stored and parsed again, an image read twice | `QueuedIsWhatWasAsked`, `BadRequestHasCause`, `RefusedLeavesNoImage`, `DoneIsWhatWasAsked` |
| cache against generated tokens, second generation of a cascaded task | `CacheCoversPrefix`, `DoneIsWhatWasAsked` |
| a parser that must move on | `AcceptedIsInferred`, `ThreadReturns`, `RegionsAreThoseOfText` |

The full list, each at its line, is `hazards` in `PROJECT.json`; a hazard that
properties cover only in part has a note.

## 2. Modules

```
WorkerPool ---+--> JobMetrics --> MCJobMetrics
              +--> BlockingPool --> MCBlockingPool
              +--> JobServer --> MCJobServer
JobStore -----+        |
                       +--> JobServerRefinement --> MCLifecycle
                              (INSTANCE JobLifecycle)

Settings -------+--> Startup --> StartupRefinement --> MCStartup
MetadataFiles --+                (INSTANCE JobStore)

TaskSpec ----+--> Inference --> MCInference
OcrRegions --+        |
TaskSpec --> Submission +--> TaskPipeline --> MCTaskPipeline

WebhookDelivery --> MCWebhookDelivery        FrontDoor --> MCFrontDoor
(INSTANCE Announcement)

WorkerPool ---> WorkerPoolProofs
JobServerRefinement, WorkerPoolProofs ---> JobServerProofs
JobMetrics, WorkerPoolProofs ------------> JobMetricsProofs
BlockingPool, WorkerPoolProofs ----------> BlockingPoolProofs
StartupRefinement ---> StartupProofs         TaskPipeline ---> TaskPipelineProofs
WebhookDelivery -----> WebhookDeliveryProofs FrontDoor ------> FrontDoorProofs
```

An arrow is EXTENDS. `JobServer` composes the pool and the store: its workers' actions are a
conjunction of a pool action (`Receive`, `SpawnInference`, ...) and what happens to the job,
its records and files. `JobMetrics` composes the same pool actions with the counters.

**WorkerPool.** `worker_loop`, `process_worker_request`, `take_for_blocking` and
`WorkerPoolState`. `wstate` is the await a worker task stands at; `sessions` says whether the
worker, a blocking thread or nobody usable holds the models. A timed-out thread is not waited
for, so its sessions count as lost, as in the code.

**JobStore.** A record is its status. Time stamps are kept as an order, `later`: no two stamps
are equal and the clock does not step back. Recovered records are stamped in the order in
which the loop of `load_jobs` appends them. A file is kept as what it says of each job,
because lines of different jobs never influence each other; lines are written whole.

**JobServer.** The code between two awaits runs undisturbed with respect to the state it
locks, so it is one action; a handler or `finish_job` is a chain of such actions through
`handler[j]` or `finish[w]`. `Faults` selects what the environment may do: `"fs"` (a file
operation fails), `"init"` (a model does not load), `"panic"`, `"cancel"` (a handler is
dropped). `Crash` stands for every way a process ends: killed, an error out of `load_jobs`
(so that the next start tries again), or a graceful shutdown, after which the runtime drops
the worker tasks wherever they are. `SendWebhook` is one step here and a module of its own
in WebhookDelivery.

**JobLifecycle** is what a client that polls `GET /v1/jobs/{id}` may rely on, without workers,
queue or files: an id goes queued, running, final; it may vanish (retention) and, after a
restart, shows only final statuses that were already decided or are failed for good.
**JobServerRefinement** gives the mapping: the view is the record while the process serves,
and the fate of a job is what its record, the clone in `finish_job` or `results.jsonl` says.

**JobMetrics.** Relaxed atomics: the increments a worker makes between two awaits become
visible one at a time in any order (`owed`), and a snapshot loads the counters in any order.

**WebhookDelivery.** One delivery per finished job with a webhook, to a receiver that uses
the event id as idempotency key as `docs/http-api.md` asks. Requests and answers may be lost,
late or out of order. The length of a backoff, signing, redaction and jobs without a webhook
are left out (the last are in JobServer).

**FrontDoor.** The layers in the router's order, and `RateLimiter::check` under its mutex. The
key layer is the outer one, so a request that is answered 401 never reaches the limiter. The
clock counts in fractions of a second because `as_secs` drops them. There is no await between
the key layer and the limiter, so nothing can drop a request there.

**BlockingPool.** The pool actions of WorkerPool again, this time with the thread each model
load, inference or file operation needs: a FIFO of tasks, as many running as there are
threads. Dropping a `JoinHandle` detaches a task and cancels nothing. An inference may hang.
`Signal`, `Leave`, `Discard`, `Exit` are the graceful shutdown and the end of the runtime,
which waits for running threads and nothing else. `finish[w]` is the await of `finish_job` at
which a worker stands: the append, the webhook, the clean-up. The append and the clean-up need
a thread. The webhook needs none and may take as long as the receiver likes, unless
`webhook_timeout_seconds` bounds each attempt (`DeliveryTimesOut`). A file operation stands for
the several of a handler, or for a dead letter and a removed image. The threads that reqwest
may take to resolve a name are left to the network. The default runtime has 512 threads; the model has `Threads`.

**Settings, Startup, MetadataFiles.** `Config::load` as a function from what a start finds
(environment, file, model files) to a `Config` or a refusal; then `main` step by step:
directories and model files, the queue, `load_jobs` line by line, bind, drain. A file is a
sequence of records whose last line may lack its newline: `append_jsonl` is one write, so
appends do not mix, but a full disk can cut one short. Several `Processes` may share the
directory. Of serving only what reaches the files is kept.

**StartupRefinement** maps these files, line by line, to the files of JobStore, which says of
each job only what the lines say, and shows every step of the former to be a step of the
latter until a write is cut short.

**TaskSpec, Submission, TaskPipeline.** A request body becomes a form, a record and a
`JobRequest`; the record keeps names, which `enqueue_record` parses again. A string is what
`trim()` leaves of it and whether there was more; image bytes are the classes that the checks
tell apart; a webhook URL is the reason for which it is refused. Submission is the handler of
JobServer with the contents JobServer abstracts from, and TaskPipeline composes it with
Inference: the image may change in between, since a local path is read twice.

**OcrRegions, Inference.** Generation as the tokens the decoder was fed, the tokens its cache
covers, and the encoder run it attends to; the token it picks next is arbitrary. The parser
works on pieces (a word, a well-formed location, a `<loc_` that is none). A location number
stands for its pixel coordinate: `scale_loc` is monotone, which is all a bounding box needs.
The ONNX models and the tokenizer are external.

**Announcement** is what one call of `send_webhook` promises, and what `SendWebhook` of
JobServer stands for; WebhookDelivery implements it.

Comments that start with "Mutant of" introduce variants of an action with a plausible bug;
they are in no specification. `PROJECT.json` pairs each with a property that detects it.

## 3. Runs

| Run | Instance | What it shows |
|---|---|---|
| `server_safety` | 3 uploads with webhooks, 2 workers, queue 1, both retention limits 1, 2 stops; load failures, panics, dropped handlers; symmetry | a job is served once, states one outcome at a time wherever it is stated, shows no status before its inference is that far, stays on disk, keeps its image while needed |
| `server_live` | 2 jobs, 2 workers, 2 stops, compaction to 1 record, retention that reaches no unfinished job; panics, dropped handlers | every accepted job gets an outcome in `results.jsonl`; within one process it is announced and its upload removed |
| `server_lifecycle` | 2 uploads, 2 workers, every fault, 2 stops | refinement of JobLifecycle; failed is never followed by succeeded |
| `worker_metrics` | 2 workers, 2 requests per process, stops at any time | pool counters, session ownership, job counters, what `/metrics` can show |
| `blocking_pool` | 2 workers, 2 threads, 1 request, inferences that hang, webhook receivers that may never answer, a webhook timeout | models in memory are bounded; slots, requests and the shutdown come to their end |
| `webhook_delivery` | 2 jobs, 3 attempts, every fault | one effect per job, dead letters exactly for what was given up, deliveries end, refinement of Announcement |
| `front_door` | 5 requests, limit 1, window 3 s in half seconds | the rate limit's guarantees, for requests with and without a key |
| `task_pipeline` | 190 requests, OCR texts of up to 10 tokens, the sixth of which may be a malformed `<loc_`, 1 change of a local file | what is queued and done is what was asked, bad requests have a cause, cache, regions, termination unless the parser meets finding 3 |
| `startup` | 2 jobs, 1 process, 3 starts over 57 sets of settings, stops anywhere, full disk, taken port | settings are sound before files are touched, files stay readable, what they say only moves on, refinement of JobStore |
| `restart` | 1 job, 1 stop | *violation*: finding 1 |
| `second_process` | 1 job, 2 processes | *violation*: finding 2 |
| `ocr_loop` | texts of up to 2 tokens with a malformed `<loc_` | *violation*: finding 3 |

**Why the bounds are enough.** Queue size 1 with two or three jobs makes handlers race for the
last slot and lets a worker drain it in between. Two workers are needed for one worker's
retention to hit the other's job; with a retention limit of 1 it does so with two jobs. Two
stops let a stop during recovery be followed by another recovery. Three webhook attempts have
a first, a middle and a last one. Five requests cover a probe, a request without a key and
three that spend the limit in two neighbouring windows; the window is longer than two
seconds, so that what is left of it differs from what has passed; half
seconds are the coarsest clock on which `as_secs` loses something. Ten generated tokens hold
two regions of four locations with text between them, or one with an odd location; the sixth is
after a whole region, within a run, or before any region. The token
set depends on the position (`Offered`), which keeps the locations different from each other
and lets some exceed the clamp. Two blocking threads can both be held by hung inferences, with
two workers, one after the other, while a request waits; `SessionsBounded` is also proved for
every number of both. Three starts let a file that one
start left be rewritten by the next and read by a third; limits of one record and of none are
what compaction tells apart. The requests of `task_pipeline` hold every pair of a type name and
a prompt name, both names of every field in both orders, every class of image, content type
and URL, texts of words and of blanks, and every combination of place, `task` and
`task_prompt` of a local path.

**Bounds that only exist in the model:** `MaxCrashes` (JobServer), `MaxJobs` (JobMetrics),
`MaxTime` (FrontDoor), `Offered` (Inference), `MaxStarts` (Startup), `MaxReplacements`
(Submission), `Threads` (BlockingPool, 512 in the default runtime) and that each of its
handlers comes once. The specifications have no other cap.

**Symmetry** is used in `server_safety` only, where jobs are not told apart (all are uploads
with a webhook) and no liveness is checked.

**Deadlock** is not checked: a server without further clients, a closed door, a process that
exited and a finished inference are legitimate ends.

**Fairness.** Weak fairness of a handler's and a worker's own steps (tokio polls tasks that
are ready; file operations return), of loading a model, of the startup steps, and of timers
where the setting is not 0. No fairness for clients, for stops, for the network or the webhook
receiver, and none for an inference (it may hang, which is what the job timeout is for), and none
for a failure: no connection need break, no file operation need fail. In
Inference, which is the thread itself, the loop steps are fair: it waits for nothing.
TaskPipeline takes the worker that receives the request to be one that lives. In
BlockingPool, threads take tasks and return from all that are not hung; nothing makes a hung
inference return, and no request, job, signal or answer of a webhook receiver need come: what
ends the wait for a webhook is its timeout. JobServer's `SendWebhook` is fair for the same
reason, so `AcceptedGetsOutcome` and `AcceptedGetsWebhook` assume, as `DeliveryEnds` shows is
needed, that `webhook_timeout_seconds` is not 0. With 0, a receiver that never answers may keep
a worker for good; `SlotReturnsWhileThreadsLast` names that exception.

## 4. Findings

1. `restart`: jobs that `load_jobs` turns into failed ones are never announced, although
   `docs/http-api.md:61` says the server posts after a job reaches a final status; and the
   image of an upload recovered in that way stays in `data/images`, although
   `docs/metadata-and-cleanup.md:15` says images are removed after each job finishes.
2. `second_process`: `load_jobs` runs before the address is bound and takes every unfinished
   record for one of an exited process. A second process on the data directory writes `failed`
   for jobs the first one still runs, rewrites both files and then ends because the address is
   taken. `docs/metadata-and-cleanup.md:9` speaks of jobs unfinished "when the previous process
   exited".
3. `ocr_loop`: a `<loc_` that no number and `>` follow leaves the cursor of
   `parse_ocr_regions` where it is, and the blocking thread loops. In the model the loop turn
   leaves the state unchanged, so the counterexample ends in a state that stays as it is.

Observations that contradict no document:

* Retention counts every record, pending ones included, so a limit below the number of
  unfinished jobs drops the record of a job that is still queued or running. Its outcome is
  then neither stored nor announced, and its upload stays. `server_live` has limits that do
  not reach unfinished jobs; the other runs do not.
* A record stays `queued` in memory when the handler is dropped, or a file operation fails,
  between the insert and `try_send`. `QueuedIsPending` names that exception.
* `finish_job` shows a job as succeeded before it appends to `results.jsonl`, and a failed
  append is only logged: after a restart the job is failed. So a client that polls `succeeded`
  may find the job failed later. JobLifecycle allows this; `OneVerdict` compares what is stated
  at any one time, and its last part bounds the window in which the record is ahead of the
  files by the update and the append of `finish_job`, or those of `load_jobs`.
* An upload whose submission ends with 500, 503 or 408 after the image was saved leaves the
  image behind. `RefusedLeavesNoImage` says that this needs one of those.
* When hung inferences hold all blocking threads, a worker whose job timed out cannot write
  the result, and no other can either; only requests with a timeout still get their 408.
  `SlotReturnsWhileThreadsLast` and `RequestIsAnswered` draw that line.
* With all workers ended, jobs that are still queued wait for the next start, which fails them.
* The graceful shutdown waits for requests, and the runtime for running threads, but not for
  jobs or webhooks: a delivery under way is dropped.
* A line that a full disk cut short makes the next start fail (`unreadable`), until somebody
  mends the file; nothing else does (`ReadableUnlessCut`).
* A local image is not compared with `image_sha256` when it is read again.

## 5. Proofs

TLAPS checks these for every value of the constants, from the assumptions the modules name:
jobs and workers are finite sets (workers not empty), limits and timeouts are natural numbers,
the queue holds at least one request, `NoJob` is no job. Nothing bounds the crashes but
`MaxCrashes`, itself arbitrary.

**WorkerPoolProofs**: `PoolInvariance`, `PoolTypeCorrect`, `ReadyCountCorrect`,
`FailedCountCorrect`, `OwnsSessionsCorrect`. `ReadyCount` is not inductive: a worker that
goes from `finishing` back to `starting` leaves `Serving`, and `mark_stopped` must not
saturate there, which follows from the count itself being positive; and whether a worker goes
back to `idle` with its sessions depends on `RestartIffSessionsLost`. `PoolInv` is the
conjunction of the type, both counts, and the two facts on sessions. The counting lemmas
(`ServingGrows`, `ServingShrinks`, `DeadGrows`) say how the cardinalities change in a step.

**JobServerProofs**: `NextIsPoolNext` shows that a step of the composed server is a step of
the pool or leaves it alone, so `ServerPoolInvariance` reuses the pool's proof.
`ServerInvariance` proves `IInv`, that is `PoolInv`, `TypeOK` and `WorkersConsistent` (a
worker holds a job exactly from receive to the end of `finish_job`, and an outcome exactly in
`finish_job`). Without the last one a step of `finish_job` could update the record of
"no job". `ServerTypeCorrect` follows. `ServedByOneWorkerCorrect` adds the ownership
invariant: only `Enqueue` adds to the queue, and its job is then neither queued nor held since
its handler was not `accepted` before (`EnqueueOnce`); `ReceiveOnce` moves the head of a queue
without repetitions.

**WebhookDeliveryProofs**: `DeliveryTypeCorrect`, `AppliedOnceCorrect`,
`DeadLetterIsLastCorrect`, `DeliveryImplementsAnnouncement`. `AppliedOnce` says that the
receiver acts once; it holds because an event id belongs to one job and every request on the
wire carries the id of its job (`OwnEvent`), and because `applied` is 1 exactly when the id has
been seen (`ActedOnSeen`). `StepsAgree` ties the place in `deliver_once` to the id, the attempts
and the result, and is what makes a dead letter come after the last attempt. `DeliveryInv` is
their conjunction with `TypeOK` and `DeadLetterIsLast`. The refinement goes step by step: the
first attempt begins the announcement, a conclusion settles it, the receiver's first reading of
the event acts, every other step stutters.

**FrontDoorProofs**: `DoorTypeCorrect`, `AtMostTwiceTheLimitCorrect`,
`RefusedOnlyWhenSpentCorrect`, `RetryAfterCoversWindowCorrect`, for every limit, window and
resolution of the clock. That only requests with a key where one is needed are admitted is
`ClientsAsk`, an invariant of the key layer. None of the three properties speaks of the
limiter's two variables, so the invariant connects them: the counter is the number of requests
admitted since the window began (`CountIsAdmitted`), none of them after its end
(`WindowCoversAdmitted`), and the time of one window before it saw at most the limit
(`PreviousWithinLimit`). Any stretch as long as a
window that contains now lies in these two, hence twice the limit. `RefusalEnds` remembers of a
refusal when its window ends, and `WholeSeconds` bounds what `as_secs` drops.

**JobServerProofs, second part.** Everything else the runs check of the server that is not
liveness. The order is that of the file, and each invariant builds on those before it.

* `RecordInv` says where every job stands, in six parts: `Quiet` (what is there only while the
  process serves), `Loaded` (what `load_jobs` has established so far), `HandlersAgree`,
  `QueueAgrees` and `WorkAgrees` (the handler, the queue and the worker of a job agree with
  its record and its lines), `RecordsAgree` (one result line at most, and no final record
  against it). It needs `ServedByOneWorker`: a worker's step must not touch the job of another
  (`OwnJobStep`). It holds whatever file operations fail. `RunningHasWorkerCorrect` has two
  parts: that a running record is being run is an invariant of its own (`RunningIsRun`), that a
  finished one is neither queued nor run any more follows from `RecordInv` (`FinishedIsPast`).
  `QueuedIsPendingCorrect` needs only `IInv`; a record passes from its handler to the queue to a
  worker without a gap.
* `ImageOutlivesInferenceCorrect`: the image is there from the moment it was saved
  (`SavedImages`), before there is a queue entry the property could speak of.
* `OneVerdictCorrect`, from `RecordInv`, `PostedInv` and `WrittenInv`: nothing is posted that the
  files could still contradict, because `finish_job` appends before it posts; and a record is
  ahead of the files only in front of an append (`Ahead`). The theorem assumes
  `"fs" \notin Faults`: an append that fails is only logged, and the job is then announced as
  succeeded and failed by the next start. The code promises no more, and `server_lifecycle`
  has that behaviour.
* `AcceptedIsOnDiskCorrect`: `Displaced` counts the records stamped after a job, and no stamp
  but the job's own makes them fewer (`StaysDisplaced`).
* `FinishedRecordsBoundedCorrect`: `StampInv` says that the stamps of all records that are kept
  anywhere are a strict total order. Without it `recent_records` could keep any number of
  incomparable records; with it `RecentRecordsBound` counts them.
* `SettledOrForgottenCorrect` and `FinishedIsSettledCorrect`: a job that left its worker is
  settled, or as many records as the retention limit were stamped after it (`SettleInv`). So
  `FinishedIsSettled` follows where the limit is at least the number of jobs; both assume, like
`OneVerdictCorrect`, that file operations succeed. With a smaller limit
  `UpdateMissing` gives an unfinished job up, as section 4 says.
* `ImplementsLifecycleCorrect`: the refinement, step by step. The mapping asks the record, the
  clone of a worker and `results.jsonl` for the fate of a job in some order; `FateIsSaid` shows
  that the order does not matter, as they agree, and `SameFates`, `NothingSeen` and
  `RecordsHidden` sort the steps of the server by what the lifecycle sees of them.
  `FailedIsFinalCorrect` then needs the abstract actions only (`StaysDoomed`).

**JobMetricsProofs**: `MetricsTypeCorrect`, `CountersBalanceCorrect`, `SnapshotGaugeCorrect`.
`OwedAgrees` says which increments a worker can owe where it stands. `SnapshotAgrees` is the
invariant of a `/metrics` request that has read some counters: with `Low`, what it has read of a
counter or would read now, every bound can be stated whatever the order of its loads.
`VisibleGauge` bounds what a load at this moment can show.

**BlockingPoolProofs**: `BlockingTypeCorrect` and `SessionsBoundedCorrect`. What bounds the
sessions is the order of the queue: a worker loads a second set while the first is on a
thread, or still waits for one, and the load it awaits stands behind the first set
(`QueuesOne`); when the load has run, no set of that worker waits (`HoldsOrQueues`). A load
makes its set on a thread, so only inferences carry one while they wait. That a file operation
or a webhook comes between the two is not needed.
`AwaitsOne` and `FreeAwaitsNone` say which task a `JoinHandle` belongs to. So there is at most
one set for each worker, held or queued, and one for each thread (`OneSetEach`, an injection).

**TaskPipelineProofs**, for all requests, tokens and decoders, in four parts: `DecoderInv` for
`CacheCoversPrefix`; `SubmissionInv` for `RefusedLeavesNoImage`, `BadRequestHasCause` and
`QueuedIsWhatWasAsked`, where `FormAgrees` says that the form so far holds the last of each
field read so far, and `StoredNamesParse` that the names in the record parse back to the task
they were made from; `PlanInv` for `DoneIsWhatWasAsked`; `TextInv` for `RegionsAreThoseOfText`,
where `ParserAgrees` says that the items found are the runs before the cursor and that the
cursor is between two runs (`AtGap`), unless the parser hangs (`Stuck`, finding 3). The
assumptions: a request is an upload with a sequence of fields or a path, `None` is no
task, text, name or token, every token the decoder may pick is in the vocabulary, and location
numbers are natural numbers.

**StartupProofs**: `StartupTypeCorrect`, `SoundBeforeWritingCorrect`,
`ReadableUnlessCutCorrect`, for any number of processes on one directory. `StartupInv` is the
type, `ConfigAgrees` (a process past a check has passed it), `FilesAgree` (until a write is cut
short both files and both temporary files are whole and free of torn lines) and `StampsAgree`
(a time stamp belongs to one job, in memory, in files and in appends under way). The last is
what gives the file of a compaction its order: `WrittenFile` shows that sorting records with
different stamps writes each of them once, and nothing else. The settings a start finds are
assumed to be numbers, switches, unset or malformed (`SourceOK`), no more.

**StartupProofs, second part**, for one process at a time on the directory, with any number of
starts, stops and failures: `DiskMovesOnCorrect` and `ImplementsStoreCorrect`. One process is
what JobServer assumes and what the code needs: with two, TLC finds a compaction that rewrites
a file from what it read before the other process appended to it, and so takes a line back. Both
theorems rest on `DirectoryInv`, which holds until a write is cut short: a job has at most one
line in each file, and its result line bears its last stamp (`LinesAgree`); from its first
append on, `load_jobs` holds in memory what the files say, but for the failures still to be
appended (`RecoveryAgrees`); the file written aside holds what is kept, and no submission is
left when the results are rewritten (`CompactionAgrees`); a serving process still has to append
exactly what its records have beyond their lines (`ServingAgrees`). A compaction that drops a
job has kept `limit` younger ones, because among any `limit` or more records with different
stamps as many have fewer than `limit` above them (`Highest`). In the refinement, what JobStore
keeps as an order of stamps is read off the stamps (`StampSeen`, `KeptSeen`), and reading a
file line by line gives the one status JobStore holds (`StatusOfLine`). `Limits` contains
what starts may read (`LimitsAssumption`).

**Model-checked only:** everything that depends on fairness, since liveness and ENABLED are out
of the prover's reach (`AcceptedGetsOutcome`, `AcceptedGetsWebhook`,
`SlotReturnsWhileThreadsLast`, `RequestIsAnswered`, `ShutdownEnds`, `DeliveryEnds`,
`AcceptedIsInferred`, with the exceptions their comments name). Every other property of a passing run is a theorem, some under a
hypothesis: file operations that succeed (`OneVerdictCorrect`, `FinishedIsSettledCorrect`), a
retention limit of at least the number of jobs (`FinishedIsSettledCorrect`), one process
(`DiskMovesOnCorrect`, `ImplementsStoreCorrect`).

## 6. Plan

Done, in this order: WorkerPool and its proofs, JobStore, JobServer, lifecycle refinement,
JobServer's type and ownership proofs, JobMetrics, WebhookDelivery, FrontDoor, Inference;
then BlockingPool, Settings, MetadataFiles and Startup with the refinement of JobStore,
TaskSpec, Submission and TaskPipeline, and Announcement with its refinement; then the proofs
of WebhookDelivery and FrontDoor, of JobServer's records, images, announcements, stamps,
retention and refinement, of JobMetrics, BlockingPool and TaskPipeline, and of Startup's types,
settings and files and its refinement of JobStore.

Next, proofs: the safety half of what liveness rests on, such as that an accepted job whose
process stopped is recovered by the next `load_jobs` that gets through.

Next, models: the cleanup and HTTP counters, if `/metrics` grows; otherwise what section 7
leaves out has no state to model.

## 7. Not modelled

Tensor arithmetic, image preprocessing, prompt wording, session construction and execution
providers (no control state); settings of which only the value is passed on (addresses,
directories, secrets, timeouts, logging); the classification of hosts as private and of bytes
as images (data: the model takes the verdict); bytes within a JSONL line; templates, OpenAPI
text and read-only endpoints (they render state the modules hold, except `/metrics`); HTTP and
cleanup counters; the Python client, an example outside the server.

Smaller steps that the modules leave out: `WebhookClient::from_config` can fail between
`load_jobs` and the bind (`main.rs:74`), which is for the files what a `Stop` there is, so
`SoundBeforeWriting` says nothing of it; `AppendLine` takes an append as one write, while tokio
splits a line of more than 2 MiB into several (`util.rs:26`), so lines of that length could
mix; `BuryFails` leaves no line, while an error after the write could leave one that
`DeadLetterIsLast` would then count as not written.
