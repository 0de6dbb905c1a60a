---------------------------- MODULE JobLifecycle ----------------------------
(***************************************************************************)
(* What the server promises a client that polls GET /v1/jobs/{id}, with no *)
(* handlers, queue, workers or files: which statuses an id may show one    *)
(* after the other, across retention and restarts.  JobServerRefinement    *)
(* shows that JobServer implements this specification.                     *)
(***************************************************************************)

CONSTANT Jobs

VARIABLES
    up,      \* the server answers
    view,    \* the status GET /v1/jobs/{id} shows, "absent" for 404
    used,    \* ids whose record was shown once, or never will be
    fate     \* the final status the server knows for an id, or "open"

lifecycleVars == <<up, view, used, fate>>

Final == {"succeeded", "failed"}

LifecycleInit ==
    /\ up = FALSE
    /\ view = [j \in Jobs |-> "absent"]
    /\ used = {}
    /\ fate = [j \in Jobs |-> "open"]

\* Knowledge of final statuses may be lost (a line never written, retention,
\* compaction), but is never replaced by another one.
MayForgetFates ==
    /\ DOMAIN fate' = Jobs
    /\ \A j \in Jobs : fate'[j] \in {fate[j], "open"}

\* The record of a new submission becomes visible.
Post(j) ==
    /\ up
    /\ j \notin used
    /\ view' = [view EXCEPT ![j] = "queued"]
    /\ used' = used \cup {j}
    /\ UNCHANGED <<up, fate>>

\* A submission is given up before its record was ever visible.
Waste(j) ==
    /\ up
    /\ used' = used \cup {j}
    /\ UNCHANGED <<up, view, fate>>

Begin(j) ==
    /\ up
    /\ view[j] = "queued"
    /\ view' = [view EXCEPT ![j] = "running"]
    /\ UNCHANGED <<up, used, fate>>

\* The only way to a success: a job that is running.
Decide(j, s) ==
    /\ up
    /\ view[j] = "running"
    /\ view' = [view EXCEPT ![j] = s]
    /\ fate' = [fate EXCEPT ![j] = s]
    /\ UNCHANGED <<up, used>>

\* Jobs nobody sees and that are not decided become failures: withdrawn
\* submissions, and what a restart finds unfinished.
Condemn(S) ==
    /\ \A j \in S : j \in used /\ view[j] = "absent" /\ fate[j] = "open"
    /\ fate' = [j \in Jobs |-> IF j \in S THEN "failed" ELSE fate[j]]
    /\ UNCHANGED <<up, view, used>>

\* Records stop being visible, for as long as the server is up.
Hide(S) ==
    /\ up
    /\ view' = [j \in Jobs |-> IF j \in S THEN "absent" ELSE view[j]]
    /\ MayForgetFates
    /\ UNCHANGED <<up, used>>

Stop ==
    /\ up' = FALSE
    /\ view' = [j \in Jobs |-> "absent"]
    /\ used' \in SUBSET Jobs /\ used \subseteq used'
    /\ MayForgetFates

\* Whatever is visible after a restart is finished, with its known fate.
Restart ==
    /\ ~up
    /\ up' = TRUE
    /\ MayForgetFates
    /\ DOMAIN view' = Jobs
    /\ \A j \in Jobs : view'[j] \in {"absent"} \cup ({fate[j]} \cap Final)
    /\ UNCHANGED used

LifecycleNext ==
    \/ \E j \in Jobs : Post(j) \/ Waste(j) \/ Begin(j) \/ \E s \in Final : Decide(j, s)
    \/ \E S \in SUBSET Jobs : Condemn(S) \/ Hide(S)
    \/ Stop
    \/ Restart

LifecycleSpec == LifecycleInit /\ [][LifecycleNext]_lifecycleVars

=============================================================================
