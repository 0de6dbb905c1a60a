------------------------- MODULE StartupRefinement -------------------------
(***************************************************************************)
(* The files of Startup, line by line, implement the files of JobStore,     *)
(* which keeps of each only what it says of a job.  For a data directory    *)
(* with one process at a time, as JobServer assumes.                        *)
(***************************************************************************)
EXTENDS Startup

CONSTANT Limits     \* the limits a start may read from its settings

ASSUME LimitsAssumption ==
    \A src \in Sources :
        ConfigRefused(src) \/ Effective(src).numbers.metadata_retention_limit \in Limits

TheProcess == CHOOSE p \in Processes : TRUE

InLoadJobs == phase[TheProcess] \in Writing \cup {"loaded"}

\* The variables of JobStore, in terms of those of Startup.
StoreJobs ==
    [j \in Jobs |-> IF InLoadJobs THEN memory[TheProcess][j].status ELSE "absent"]
StoreLater       == {e \in Jobs \X Jobs : stamp[e[1]] > stamp[e[2]]}
StoreSubmissions == {j \in Jobs : LinesOf(submissions, j) # {}}
StoreResults ==
    [j \in Jobs |->
        LET at(n) == CHOOSE i \in LinesOf(results, j) :
                       Cardinality({k \in LinesOf(results, j) : k < i}) = n - 1
        IN  [n \in 1..Cardinality(LinesOf(results, j)) |-> results.lines[at(n)].status]]
StoreRecovering == recovering[TheProcess]

storeView == <<StoreJobs, StoreLater, StoreSubmissions, StoreResults, StoreRecovering>>

Store(limit) == INSTANCE JobStore WITH
    JobRetentionLimit <- Cardinality(Jobs),
    MetadataRetentionLimit <- limit,
    jobs <- StoreJobs, later <- StoreLater, submissions <- StoreSubmissions,
    results <- StoreResults, recovering <- StoreRecovering

\* Handlers and workers, as JobServer lets them use the store.
AppendsSubmission(j) ==
    /\ StoreSubmissions' = StoreSubmissions \cup {j}
    /\ UNCHANGED <<StoreJobs, StoreLater, StoreResults, StoreRecovering>>

AppendsResult(j, s) ==
    /\ Store(0)!AppendResultLine(j, s)
    /\ UNCHANGED <<StoreJobs, StoreLater, StoreSubmissions, StoreRecovering>>

Stamps(j) ==
    /\ Store(0)!Touch(j)
    /\ UNCHANGED <<StoreJobs, StoreSubmissions, StoreResults, StoreRecovering>>

StoreStep ==
    \/ Store(0)!LoadRecords
    \/ \E j \in Jobs : Store(0)!AppendRecovered(j)
    \/ InLoadJobs /\ \E n \in Limits :
         /\ n = config[TheProcess].numbers.metadata_retention_limit
         /\ Store(n)!CompactSubmissions \/ Store(n)!CompactResults
    \/ Store(0)!StoreStops
    \/ \E j \in Jobs :
         AppendsSubmission(j) \/ Stamps(j) \/ \E s \in Terminal : AppendsResult(j, s)

\* Until a write is cut short, every step of a process is a step of JobStore or
\* leaves what JobStore sees alone: reading two files one after the other,
\* writing a file of its own and renaming it, and appending by line come to
\* what JobStore says they do.
ImplementsStore == Store(0)!StoreInit /\ [][cut' \/ StoreStep]_storeView
=============================================================================
