---------------------------- MODULE BlockingPool ----------------------------
(***************************************************************************)
(* What the model workers and the request handlers share: the blocking     *)
(* threads of the tokio runtime, and how the process ends (main.rs serve). *)
(*                                                                         *)
(* A model load (initialize_worker), an inference (spawn_inference) and    *)
(* every call of tokio::fs is a task of one FIFO queue that the blocking   *)
(* threads serve.  A task whose JoinHandle is dropped, by the job timeout  *)
(* or the request timeout, is detached: it keeps its place in the queue or *)
(* its thread, and the sessions it carries, and nobody waits for it.  A    *)
(* file operation stands for the several a handler or finish_job makes.    *)
(***************************************************************************)
EXTENDS WorkerPool, SequencesExt

CONSTANTS
    Threads,                \* the blocking threads, 512 in the default runtime
    Handlers,               \* HTTP requests that write an image and a record
    RequestTimeoutSeconds,  \* config.request_timeout_seconds; 0 disables it
    WebhookTimeoutSeconds   \* config.webhook_timeout_seconds; 0 disables it

ASSUME ThreadsAssumption == IsFiniteSet(Threads) /\ Threads # {}
ASSUME HandlersAssumption == IsFiniteSet(Handlers) /\ Handlers \cap Workers = {}
ASSUME RequestTimeoutAssumption == RequestTimeoutSeconds \in Nat
ASSUME WebhookTimeoutAssumption == WebhookTimeoutSeconds \in Nat

VARIABLES
    waiting,    \* the tasks that have no thread yet, oldest first
    thread,     \* the task each blocking thread runs, or Idle
    hung,       \* the threads whose inference never returns
    finish,     \* the step of finish_job a worker is at, "none" before the first
    handler,    \* "away", "writing" or "answered", for each request
    phase       \* "serving", "draining", "leaving" or "exited"

vars == <<poolVars, waiting, thread, hung, finish, handler, phase>>

Task == [kind : {"load", "inference", "file"}, for : Workers \cup Handlers, awaited : BOOLEAN]
Idle == [kind |-> "idle"]

NewTask(kind, c) == [kind |-> kind, for |-> c, awaited |-> TRUE]
Submit(kind, c)  == waiting' = Append(waiting, NewTask(kind, c))

Free == {t \in Threads : thread[t] = Idle}

\* The task that c waits for has a place in the queue, or a thread.
Waits(c) ==
    \/ \E t \in ToSet(waiting) : t.for = c /\ t.awaited
    \/ \E t \in Threads : thread[t] # Idle /\ thread[t].for = c /\ thread[t].awaited

\* Dropping the JoinHandles of the callers in cs cancels nothing.
Dropped(task, cs) ==
    IF task # Idle /\ task.for \in cs THEN [task EXCEPT !.awaited = FALSE] ELSE task

Detach(cs) ==
    /\ waiting' = [i \in DOMAIN waiting |-> Dropped(waiting[i], cs)]
    /\ thread' = [t \in Threads |-> Dropped(thread[t], cs)]

Init ==
    /\ PoolInit
    /\ waiting = <<>>
    /\ thread = [t \in Threads |-> Idle]
    /\ hung = {}
    /\ finish = [w \in Workers |-> "none"]
    /\ handler = [h \in Handlers |-> "away"]
    /\ phase = "serving"

\* The worker tasks live until main returns and the runtime is dropped.
Running == phase \in {"serving", "draining"}

-----------------------------------------------------------------------------

\* initialize_worker hands FlorenceWorker::new to the blocking pool.
Load(w) ==
    /\ Running /\ wstate[w] = "starting" /\ ~Waits(w)
    /\ Submit("load", w)
    /\ UNCHANGED <<poolVars, thread, hung, finish, handler, phase>>

ReceiveJob(w) ==
    /\ Running
    /\ Receive(w)
    /\ UNCHANGED <<waiting, thread, hung, finish, handler, phase>>

\* spawn_inference
Infer(w) ==
    /\ Running
    /\ SpawnInference(w)
    /\ Submit("inference", w)
    /\ UNCHANGED <<thread, hung, finish, handler, phase>>

\* Mutants of TimeOut: the job is tried again at once on a fresh set of
\* sessions; the worker waits for the thread after all.
TimeOutAndRetry(w) ==
    /\ Running /\ JobTimeoutSeconds # 0 /\ wstate[w] = "inferring"
    /\ waiting' = Append([i \in DOMAIN waiting |-> Dropped(waiting[i], {w})],
                         NewTask("inference", w))
    /\ thread' = [t \in Threads |-> Dropped(thread[t], {w})]
    /\ UNCHANGED <<poolVars, hung, finish, handler, phase>>

TimeOutAndWait(w) ==
    /\ Running /\ ~Waits(w)
    /\ InferenceTimesOut(w)
    /\ UNCHANGED <<waiting, thread, hung, finish, handler, phase>>

\* wait_for_inference gives up on the job, whether it runs or still waits for a
\* thread: the timeout covers both.
TimeOut(w) ==
    /\ Running
    /\ InferenceTimesOut(w)
    /\ Detach({w})
    /\ UNCHANGED <<hung, finish, handler, phase>>

\* w is in finish_job at this step, and awaits no thread for it.
AtStep(w, step) == Running /\ wstate[w] = "finishing" /\ finish[w] = step /\ ~Waits(w)
NextStep(w, step) == finish' = [finish EXCEPT ![w] = step]

\* finish_job appends the result.
WriteResult(w) ==
    /\ AtStep(w, "none")
    /\ NextStep(w, "append")
    /\ Submit("file", w)
    /\ UNCHANGED <<poolVars, thread, hung, handler, phase>>

\* finish_job awaits send_webhook: the last attempt was answered, or failed,
\* over the network, which takes no blocking thread.
DeliveryEnds(w) ==
    /\ AtStep(w, "webhook")
    /\ NextStep(w, "cleanup")
    /\ UNCHANGED <<poolVars, waiting, thread, hung, handler, phase>>

\* Each attempt is given up after webhook_timeout_seconds, if that is not 0;
\* then the last one is, too.
DeliveryTimesOut(w) == WebhookTimeoutSeconds # 0 /\ DeliveryEnds(w)

\* finish_job writes the dead letter of a delivery that failed, and removes the
\* image of an upload.
RemoveImage(w) ==
    /\ AtStep(w, "cleanup")
    /\ Submit("file", w)
    /\ UNCHANGED <<poolVars, thread, hung, finish, handler, phase>>

\* finish_job returns.
FinishJob(w) == FinishRequest(w) /\ NextStep(w, "none")

\* It does so without a file operation when retention dropped the record, or
\* when there is neither a dead letter nor an upload.
ReturnAtOnce(w) ==
    /\ AtStep(w, "none") \/ AtStep(w, "cleanup")
    /\ FinishJob(w)
    /\ UNCHANGED <<waiting, thread, hung, handler, phase>>

\* A request reaches a handler, which saves the image and appends the record.
\* Each handler comes once.
Accept(h) ==
    /\ phase = "serving" /\ handler[h] = "away"
    /\ handler' = [handler EXCEPT ![h] = "writing"]
    /\ Submit("file", h)
    /\ UNCHANGED <<poolVars, thread, hung, finish, phase>>

\* Mutant of AnswerTimeout: the handler is not dropped while it waits.
AnswerTimeoutAndWait(h) ==
    /\ handler[h] = "writing" /\ ~Waits(h)
    /\ handler' = [handler EXCEPT ![h] = "answered"]
    /\ UNCHANGED <<poolVars, waiting, thread, hung, finish, phase>>

\* The TimeoutLayer answers 408 and drops the handler.
AnswerTimeout(h) ==
    /\ RequestTimeoutSeconds # 0 /\ handler[h] = "writing"
    /\ Running
    /\ handler' = [handler EXCEPT ![h] = "answered"]
    /\ Detach({h})
    /\ UNCHANGED <<poolVars, hung, finish, phase>>

-----------------------------------------------------------------------------

\* A thread takes the oldest task.
Take ==
    /\ phase # "exited" /\ waiting # <<>> /\ Free # {}
    /\ thread' = [thread EXCEPT ![CHOOSE t \in Free : TRUE] = Head(waiting)]
    /\ waiting' = Tail(waiting)
    /\ UNCHANGED <<poolVars, hung, finish, handler, phase>>

\* finish_job goes on after the append, to the webhook if the record has one,
\* or is over after the clean-up.
Resume(w) ==
    \/ /\ finish[w] = "append"
       /\ NextStep(w, "webhook") \/ NextStep(w, "cleanup")
       /\ UNCHANGED poolVars
    \/ finish[w] = "cleanup" /\ FinishJob(w)

\* What the return of a task means to whoever waits for it; to nobody, when
\* its handle was dropped.
Reply(task) ==
    LET c == task.for IN
    \/ ~task.awaited /\ UNCHANGED <<poolVars, finish, handler>>
    \/ /\ task.awaited /\ task.kind = "load"
       /\ InitializeOk(c) \/ InitializeFails(c)
       /\ UNCHANGED <<finish, handler>>
    \/ /\ task.awaited /\ task.kind = "inference"
       /\ InferenceReturns(c) \/ InferencePanics(c)
       /\ UNCHANGED <<finish, handler>>
    \/ /\ task.awaited /\ task.kind = "file" /\ c \in Workers
       /\ Resume(c)
       /\ UNCHANGED handler
    \/ /\ task.awaited /\ task.kind = "file" /\ c \in Handlers
       /\ handler' = [handler EXCEPT ![c] = "answered"]
       /\ UNCHANGED <<poolVars, finish>>

\* The closure of a task returns and its thread is free.
Return(t) ==
    /\ phase # "exited" /\ thread[t] # Idle /\ t \notin hung
    /\ thread' = [thread EXCEPT ![t] = Idle]
    /\ Reply(thread[t])
    /\ UNCHANGED <<waiting, hung, phase>>

\* An inference that will never return.
Hang(t) ==
    /\ phase # "exited" /\ thread[t] # Idle /\ thread[t].kind = "inference"
    /\ hung' = hung \cup {t}
    /\ UNCHANGED <<poolVars, waiting, thread, finish, handler, phase>>

-----------------------------------------------------------------------------

\* shutdown_signal returns: the listener is closed, requests in flight go on.
Signal ==
    /\ phase = "serving"
    /\ phase' = "draining"
    /\ UNCHANGED <<poolVars, waiting, thread, hung, finish, handler>>

\* Mutant of Leave: serve also waits until every worker is back at the queue.
LeaveOnceIdle ==
    /\ phase = "draining" /\ \A h \in Handlers : handler[h] # "writing"
    /\ \A w \in Workers : wstate[w] = "idle"
    /\ phase' = "leaving"
    /\ PoolStops
    /\ UNCHANGED <<waiting, thread, hung, finish, handler>>

\* axum::serve returns once no request is in flight; main returns, and dropping
\* the runtime drops the worker tasks and their JoinHandles.
Leave ==
    /\ phase = "draining" /\ \A h \in Handlers : handler[h] # "writing"
    /\ phase' = "leaving"
    /\ PoolStops
    /\ finish' = [w \in Workers |-> "none"]
    /\ Detach(Workers)
    /\ UNCHANGED <<hung, handler>>

\* The runtime being dropped need not run what has no thread yet.
Discard ==
    /\ phase = "leaving" /\ waiting # <<>>
    /\ waiting' = Tail(waiting)
    /\ UNCHANGED <<poolVars, thread, hung, finish, handler, phase>>

\* The runtime waits, without a limit, for the threads that run.
Exit ==
    /\ phase = "leaving" /\ waiting = <<>> /\ Free = Threads
    /\ phase' = "exited"
    /\ UNCHANGED <<poolVars, waiting, thread, hung, finish, handler>>

Next ==
    \/ \E w \in Workers :
         \/ Load(w) \/ ReceiveJob(w) \/ Infer(w) \/ TimeOut(w)
         \/ WriteResult(w) \/ DeliveryEnds(w) \/ DeliveryTimesOut(w)
         \/ RemoveImage(w) \/ ReturnAtOnce(w)
    \/ \E h \in Handlers : Accept(h) \/ AnswerTimeout(h)
    \/ Take
    \/ \E t \in Threads : Return(t) \/ Hang(t)
    \/ Signal \/ Leave \/ Discard \/ Exit

\* A task that is not hung returns, free threads take tasks, timers fire, and
\* the code between two awaits runs.  Requests, signals, jobs and the answers of
\* webhook receivers need not come.
Fairness ==
    /\ WF_vars(Take) /\ WF_vars(Leave) /\ WF_vars(Discard) /\ WF_vars(Exit)
    /\ \A t \in Threads : WF_vars(Return(t))
    /\ \A w \in Workers :
         /\ WF_vars(Load(w)) /\ WF_vars(Infer(w)) /\ WF_vars(TimeOut(w))
         /\ WF_vars(WriteResult(w)) /\ WF_vars(DeliveryTimesOut(w))
         /\ WF_vars(RemoveImage(w) \/ ReturnAtOnce(w))
    /\ \A h \in Handlers : WF_vars(AnswerTimeout(h))

Spec == Init /\ [][Next]_vars /\ Fairness

-----------------------------------------------------------------------------

\* Type invariant: a hung thread runs an inference, and every worker is in a
\* state of worker_loop and finish_job.
TypeOK ==
    /\ PoolTypeOK
    /\ waiting \in Seq(Task)
    /\ thread \in [Threads -> Task \cup {Idle}]
    /\ hung \subseteq {t \in Threads : thread[t] # Idle /\ thread[t].kind = "inference"}
    /\ finish \in [Workers -> {"none", "append", "webhook", "cleanup"}]
    /\ handler \in [Handlers -> {"away", "writing", "answered"}]
    /\ phase \in {"serving", "draining", "leaving", "exited"}

\* An inference carries its sessions from the moment it is queued; a load makes
\* them on its thread.
IsInference(task)     == task.kind = "inference"
CarriesSessions(task) == task.kind \in {"load", "inference"}

\* The sets of model sessions in memory: held by workers, waiting for a thread
\* with an inference, or loading or inferring, awaited or not.
LiveSessions ==
    Cardinality({w \in Workers : sessions[w] = "worker"})
      + Cardinality({i \in DOMAIN waiting : IsInference(waiting[i])})
      + Cardinality({t \in Threads : CarriesSessions(thread[t])})

\* However often jobs time out, a worker that reloads after a timeout cannot
\* pile up models without bound: its load waits behind the detached inference,
\* so the sets of sessions alive never exceed one for each worker and one for
\* each blocking thread.
SessionsBounded == LiveSessions <= Cardinality(Workers) + Cardinality(Threads)

\* With a job timeout, a worker whose inference hangs is back at the queue, or
\* ended because its model no longer loads, as long as one blocking thread is
\* not hung: writing the failed job and loading the model again both need one.
\* Between the two finish_job awaits the webhook receiver, and only
\* webhook_timeout_seconds bounds that: where it is 0, a receiver that never
\* answers may keep the worker for good.
SlotReturnsWhileThreadsLast ==
    JobTimeoutSeconds # 0 =>
        \A w \in Workers :
            wstate[w] = "inferring" ~>
                \/ wstate[w] \in {"idle", "dead"}
                \/ hung = Threads
                \/ ~Running
                \/ finish[w] = "webhook" /\ WebhookTimeoutSeconds = 0

\* With a request timeout, a request is answered even when every blocking
\* thread is hung.
RequestIsAnswered ==
    \A h \in Handlers : handler[h] = "writing" ~> handler[h] = "answered"

\* After the shutdown signal the process exits, unless an inference hangs: the
\* graceful shutdown waits neither for jobs nor for workers, only for requests
\* and for the blocking threads.
ShutdownEnds == phase = "draining" ~> phase = "exited" \/ hung # {}

=============================================================================
