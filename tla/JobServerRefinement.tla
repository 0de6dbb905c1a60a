------------------------ MODULE JobServerRefinement ------------------------
(***************************************************************************)
(* JobServer implements JobLifecycle: the refinement mapping, and what a   *)
(* client may rely on.                                                     *)
(***************************************************************************)
EXTENDS JobServer

\* The final status of j that is known somewhere: in its record, in the clone
\* finish_job works with, or in results.jsonl.
Past(w) == finish[w] \in {"append", "webhook", "cleanup", "retain"}

KnownFate(j) ==
    IF jobs[j] \in Terminal THEN jobs[j]
    ELSE IF \E w \in Workers : task[w] = j /\ Past(w)
      THEN outcome[CHOOSE w \in Workers : task[w] = j /\ Past(w)]
    ELSE IF results[j] # <<>> THEN results[j][Len(results[j])]
    ELSE "open"

Unposted == {"new", "admitted", "built", "stored", "checked"}

Lifecycle == INSTANCE JobLifecycle WITH
    up   <- phase = "serving",
    view <- [j \in Jobs |-> IF phase = "serving" THEN jobs[j] ELSE "absent"],
    used <- {j \in Jobs : handler[j] \notin Unposted},
    fate <- [j \in Jobs |-> KnownFate(j)]

\* Every step of the server is a step of the lifecycle or leaves what a client
\* can see unchanged: an id goes from queued to running to a final status, is
\* never shown again in an earlier one, and after a restart shows only final
\* statuses that were known before or were failed for good.
ImplementsLifecycle == Lifecycle!LifecycleSpec

\* A job once shown as failed is never shown as succeeded, in this run of the
\* process or a later one, whatever file operations fail.
FailedIsFinal ==
    \A j \in Jobs :
        [](phase = "serving" /\ jobs[j] = "failed"
             => [](phase = "serving" => jobs[j] # "succeeded"))

=============================================================================
