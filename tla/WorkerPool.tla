----------------------------- MODULE WorkerPool -----------------------------
(***************************************************************************)
(* The model workers of jobs/worker.rs and the pool counters of state.rs.  *)
(*                                                                         *)
(* A worker task loads its model, then serves requests one at a time.  The *)
(* ONNX sessions leave the task with the blocking thread that runs the     *)
(* inference (take_for_blocking) and come back only when that thread       *)
(* returns; a panic or a timeout loses them and the worker loads the model *)
(* again.  A worker whose model does not load ends for good.               *)
(***************************************************************************)
EXTENDS Naturals, FiniteSets

CONSTANTS
    Workers,            \* the worker tasks spawned by start_workers
    JobTimeoutSeconds   \* config.job_timeout_seconds; 0 disables the timeout

ASSUME WorkersAssumption == IsFiniteSet(Workers) /\ Workers # {}
ASSUME JobTimeoutAssumption == JobTimeoutSeconds \in Nat

VARIABLES
    wstate,     \* where the worker task stands
    sessions,   \* who holds the model sessions of a worker
    restart,    \* the Boolean process_worker_request is about to return
    ready,      \* WorkerPoolState.ready
    failed      \* WorkerPoolState.failed

poolVars == <<wstate, sessions, restart, ready, failed>>

\* "starting"  in initialize_worker        "assigned"  a request was received
\* "idle"      in queue_rx.recv            "inferring" in wait_for_inference
\* "finishing" in finish_job               "dead"      worker_loop returned
WorkerState == {"starting", "idle", "assigned", "inferring", "finishing", "dead"}

Serving == {w \in Workers : wstate[w] \in {"idle", "assigned", "inferring", "finishing"}}
Dead    == {w \in Workers : wstate[w] = "dead"}

IsReady == ready > 0

PoolInit ==
    /\ wstate = [w \in Workers |-> "starting"]
    /\ sessions = [w \in Workers |-> "none"]
    /\ restart = [w \in Workers |-> FALSE]
    /\ ready = 0
    /\ failed = 0

Goto(w, s) == wstate' = [wstate EXCEPT ![w] = s]

\* mark_stopped: checked_sub(1), so a zero counter is left as it is.
MarkStopped == ready' = IF ready = 0 THEN 0 ELSE ready - 1

-----------------------------------------------------------------------------

\* FlorenceWorker::new returned a worker: mark_ready.
InitializeOk(w) ==
    /\ wstate[w] = "starting"
    /\ Goto(w, "idle")
    /\ sessions' = [sessions EXCEPT ![w] = "worker"]
    /\ ready' = ready + 1
    /\ UNCHANGED <<restart, failed>>

\* Mutant of InitializeFails: worker_loop tries again and again.
InitializeFailsAndRetries(w) ==
    /\ wstate[w] = "starting"
    /\ failed' = failed + 1 /\ failed < 3
    /\ UNCHANGED <<wstate, sessions, restart, ready>>

\* The model did not load, or loading it panicked: mark_failed, and
\* worker_loop returns.
InitializeFails(w) ==
    /\ wstate[w] = "starting"
    /\ Goto(w, "dead")
    /\ failed' = failed + 1
    /\ UNCHANGED <<sessions, restart, ready>>

\* queue_rx.recv() yields a request.
Receive(w) ==
    /\ wstate[w] = "idle"
    /\ Goto(w, "assigned")
    /\ UNCHANGED <<sessions, restart, ready, failed>>

\* spawn_inference: the sessions move into the blocking closure.
SpawnInference(w) ==
    /\ wstate[w] = "assigned"
    /\ Goto(w, "inferring")
    /\ sessions' = [sessions EXCEPT ![w] = "thread"]
    /\ UNCHANGED <<restart, ready, failed>>

\* The thread returned, with a result or an error: *worker = returned_worker.
InferenceReturns(w) ==
    /\ wstate[w] = "inferring"
    /\ Goto(w, "finishing")
    /\ sessions' = [sessions EXCEPT ![w] = "worker"]
    /\ restart' = [restart EXCEPT ![w] = FALSE]
    /\ UNCHANGED <<ready, failed>>

\* The JoinHandle yields a JoinError: the sessions died with the thread.
InferencePanics(w) ==
    /\ wstate[w] = "inferring"
    /\ Goto(w, "finishing")
    /\ sessions' = [sessions EXCEPT ![w] = "none"]
    /\ restart' = [restart EXCEPT ![w] = TRUE]
    /\ UNCHANGED <<ready, failed>>

\* Mutant of InferenceTimesOut: the worker goes on with the sessions it moved out.
InferenceTimesOutKeepsWorker(w) ==
    /\ JobTimeoutSeconds # 0 /\ wstate[w] = "inferring"
    /\ Goto(w, "finishing")
    /\ sessions' = [sessions EXCEPT ![w] = "none"]
    /\ UNCHANGED <<restart, ready, failed>>

\* tokio::time::timeout fires.  The thread keeps the sessions and nobody
\* waits for it any more.
InferenceTimesOut(w) ==
    /\ JobTimeoutSeconds # 0
    /\ wstate[w] = "inferring"
    /\ Goto(w, "finishing")
    /\ sessions' = [sessions EXCEPT ![w] = "none"]
    /\ restart' = [restart EXCEPT ![w] = TRUE]
    /\ UNCHANGED <<ready, failed>>

\* Mutant of FinishRequest: the restart path does not call mark_stopped.
FinishRequestStaysReady(w) ==
    /\ wstate[w] = "finishing"
    /\ Goto(w, IF restart[w] THEN "starting" ELSE "idle")
    /\ restart' = [restart EXCEPT ![w] = FALSE]
    /\ UNCHANGED <<sessions, ready, failed>>

\* finish_job is done and process_worker_request returns `restart`: back to
\* recv, or mark_stopped and a new initialize_worker.
FinishRequest(w) ==
    /\ wstate[w] = "finishing"
    /\ IF restart[w]
         THEN Goto(w, "starting") /\ MarkStopped
         ELSE Goto(w, "idle") /\ UNCHANGED ready
    /\ restart' = [restart EXCEPT ![w] = FALSE]
    /\ UNCHANGED <<sessions, failed>>

\* The whole process stops and its tasks are gone.
PoolStops ==
    /\ wstate' = [w \in Workers |-> "starting"]
    /\ sessions' = [w \in Workers |-> "none"]
    /\ restart' = [w \in Workers |-> FALSE]
    /\ ready' = 0
    /\ failed' = 0

PoolNext ==
    \/ \E w \in Workers :
         \/ InitializeOk(w)
         \/ InitializeFails(w)
         \/ Receive(w)
         \/ SpawnInference(w)
         \/ InferenceReturns(w)
         \/ InferencePanics(w)
         \/ InferenceTimesOut(w)
         \/ FinishRequest(w)
    \/ PoolStops

PoolSpec == PoolInit /\ [][PoolNext]_poolVars

-----------------------------------------------------------------------------

\* Type invariant of the pool (state.rs WorkerPoolState, worker.rs worker_loop).
PoolTypeOK ==
    /\ wstate \in [Workers -> WorkerState]
    /\ sessions \in [Workers -> {"worker", "thread", "none"}]
    /\ restart \in [Workers -> BOOLEAN]
    /\ ready \in Nat
    /\ failed \in Nat

\* The ready counter that /ready and ensure_workers_ready read is exactly the
\* number of workers that went through mark_ready and not yet through
\* mark_stopped, whatever panics, timeouts and reloads happened: the
\* checked_sub of mark_stopped never has to saturate.
ReadyCount == ready = Cardinality(Serving)

\* The failed counter is the number of workers that ended; no worker is both
\* counted ready and failed.
FailedCount ==
    /\ failed = Cardinality(Dead)
    /\ ready + failed <= Cardinality(Workers)

\* A worker that can take a request, or has just taken one, holds its own
\* sessions: take_for_blocking never moves out sessions that a timed-out
\* thread still owns or that a panic destroyed.
OwnsSessionsToServe ==
    \A w \in Workers : wstate[w] \in {"idle", "assigned"} => sessions[w] = "worker"

\* What process_worker_request is about to return matches where the sessions
\* are: it asks for a reload exactly when they did not come back.
RestartIffSessionsLost ==
    \A w \in Workers :
        wstate[w] = "finishing" => sessions[w] = IF restart[w] THEN "none" ELSE "worker"

=============================================================================
