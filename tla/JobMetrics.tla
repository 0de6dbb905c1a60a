----------------------------- MODULE JobMetrics -----------------------------
(***************************************************************************)
(* The job counters of state.rs AppMetrics, as the workers of              *)
(* jobs/worker.rs raise them and a GET /metrics request reads them.        *)
(*                                                                         *)
(* Every counter is an atomic of its own, used with Ordering::Relaxed: the *)
(* increments a worker makes between two awaits become visible one by one, *)
(* in any order, and a request reads the counters one by one, in any       *)
(* order.  `owed` holds the increments of a worker that are not visible    *)
(* yet.  Readers do not interact, so one request at a time is enough.      *)
(***************************************************************************)
EXTENDS WorkerPool

CONSTANTS
    MaxJobs,    \* bound on the requests received by one process
    Unread      \* a counter the request has not read

ASSUME MetricsAssumption == MaxJobs \in Nat /\ Unread \notin Nat

\* jobs_started, jobs_succeeded, jobs_failed, jobs_timed_out, worker_restarts
Counter == {"started", "succeeded", "failed", "timed_out", "restarts"}

VARIABLES
    counters,       \* what a load of the atomic returns
    owed,           \* the increments of a worker still to come
    snapshot,       \* what the request has read so far
    startedBefore   \* history: counters.started when the request began

metricsVars == <<counters, owed, snapshot, startedBefore>>
vars == <<poolVars, metricsVars>>

\* The counters a dashboard compares.  The request reads the others as well,
\* but nothing is derived from them together.
Gauge == {"started", "succeeded", "failed"}

Zero    == [c \in Counter |-> 0]
Nothing == [c \in Gauge |-> Unread]

Init ==
    /\ PoolInit
    /\ counters = Zero
    /\ owed = [w \in Workers |-> {}]
    /\ snapshot = Nothing
    /\ startedBefore = 0

-----------------------------------------------------------------------------

\* A worker goes on only after the increments it owes.
Owes(w, S) ==
    /\ owed[w] = {}
    /\ owed' = [owed EXCEPT ![w] = S]
    /\ UNCHANGED <<counters, snapshot, startedBefore>>

\* Bound: one process receives at most MaxJobs requests.
MayReceive ==
    counters["started"] + Cardinality({w \in Workers : "started" \in owed[w]}) < MaxJobs

\* Mutant of ReceiveRequest: record_job_started is not called.
ReceiveRequestUncounted(w) == MayReceive /\ Receive(w) /\ Owes(w, {})

\* record_job_started comes before mark_running.
ReceiveRequest(w) == MayReceive /\ Receive(w) /\ Owes(w, {"started"})

\* record_job_succeeded or record_job_failed.
CompleteRequest(w) ==
    /\ InferenceReturns(w)
    /\ Owes(w, {"succeeded"}) \/ Owes(w, {"failed"})

\* record_job_failed and record_worker_restart.
CrashRequest(w) == InferencePanics(w) /\ Owes(w, {"failed", "restarts"})

\* Mutant of ExpireRequest: record_job_timed_out does not call record_job_failed.
ExpireRequestOnce(w) == InferenceTimesOut(w) /\ Owes(w, {"timed_out", "restarts"})

\* record_job_timed_out, which calls record_job_failed, and record_worker_restart.
ExpireRequest(w) ==
    InferenceTimesOut(w) /\ Owes(w, {"timed_out", "failed", "restarts"})

\* A step of the worker that touches no job counter.
Uncounted(w) ==
    /\ InitializeOk(w) \/ InitializeFails(w) \/ SpawnInference(w) \/ FinishRequest(w)
    /\ Owes(w, {})

\* fetch_add of one counter.
Increment(w, c) ==
    /\ c \in owed[w]
    /\ owed' = [owed EXCEPT ![w] = @ \ {c}]
    /\ counters' = [counters EXCEPT ![c] = @ + 1]
    /\ UNCHANGED <<poolVars, snapshot, startedBefore>>

\* AppMetrics::snapshot: the load of one counter.
ReadCounter(c) ==
    /\ snapshot[c] = Unread
    /\ snapshot' = [snapshot EXCEPT ![c] = counters[c]]
    /\ startedBefore' = IF snapshot = Nothing THEN counters["started"] ELSE startedBefore
    /\ UNCHANGED <<poolVars, counters, owed>>

\* The response is on its way; the next request starts over.
AnswerMetrics ==
    /\ \A c \in Gauge : snapshot[c] # Unread
    /\ snapshot' = Nothing
    /\ startedBefore' = 0
    /\ UNCHANGED <<poolVars, counters, owed>>

\* AppMetrics lives in memory only.
MetricsStop ==
    /\ PoolStops
    /\ counters' = Zero
    /\ owed' = [w \in Workers |-> {}]
    /\ snapshot' = Nothing
    /\ startedBefore' = 0

Next ==
    \/ \E w \in Workers :
         \/ ReceiveRequest(w) \/ CompleteRequest(w) \/ CrashRequest(w)
         \/ ExpireRequest(w) \/ Uncounted(w)
         \/ \E c \in Counter : Increment(w, c)
    \/ \E c \in Gauge : ReadCounter(c)
    \/ AnswerMetrics
    \/ MetricsStop

Spec == Init /\ [][Next]_vars

-----------------------------------------------------------------------------

\* Type invariant of the counters (state.rs AppMetrics).
MetricsTypeOK ==
    /\ PoolTypeOK
    /\ counters \in [Counter -> Nat]
    /\ owed \in [Workers -> SUBSET Counter]
    /\ snapshot \in [Gauge -> Nat \cup {Unread}]
    /\ startedBefore \in Nat

Counted(c) == counters[c] + Cardinality({w \in Workers : c \in owed[w]})
InFlight   == {w \in Workers : wstate[w] \in {"assigned", "inferring"}}

\* No request is counted twice or lost, whichever way its inference ends: what
\* was started succeeded, failed or is still with a worker, and every timeout
\* is a restart and every restart a failure.
CountersBalance ==
    /\ Counted("started")
         = Counted("succeeded") + Counted("failed") + Cardinality(InFlight)
    /\ Counted("timed_out") <= Counted("restarts")
    /\ Counted("restarts") <= Counted("failed")

\* The number of running jobs a dashboard derives from one /metrics response,
\* started - succeeded - failed, is off by no more than the jobs that started
\* while the response was put together: it exceeds the number of workers, or
\* falls below zero, by at most that many.
SnapshotGauge ==
    LET gained == counters["started"] - startedBefore IN
    (\A c \in Gauge : snapshot[c] # Unread) =>
        /\ snapshot["started"] <=
             snapshot["succeeded"] + snapshot["failed"] + Cardinality(Workers) + gained
        /\ snapshot["succeeded"] + snapshot["failed"] <= snapshot["started"] + gained

=============================================================================
