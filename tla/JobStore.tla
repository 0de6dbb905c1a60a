------------------------------ MODULE JobStore ------------------------------
(***************************************************************************)
(* The job records: the in-memory map behind GET /v1/jobs/{id}, the two    *)
(* JSONL files, retention, and the recovery that load_jobs performs before *)
(* the server accepts requests (jobs/store.rs, and the record updates of   *)
(* jobs/worker.rs and jobs/queue.rs).                                      *)
(*                                                                         *)
(* A record is abstracted to its status.  updated_at is kept only as the   *)
(* order between records: `later` holds <<j, k>> when j was stamped after  *)
(* k.  Lines of one file that belong to different jobs never interact, so  *)
(* a file is kept as what it says of each job, in file order.              *)
(***************************************************************************)
EXTENDS Naturals, FiniteSets, Sequences

CONSTANTS
    Jobs,                    \* the job ids (Uuid::new_v4: never reused)
    JobRetentionLimit,       \* config.job_retention_limit
    MetadataRetentionLimit   \* config.metadata_retention_limit; 0 = unlimited

ASSUME JobsAssumption == IsFiniteSet(Jobs)
ASSUME RetentionAssumption ==
    JobRetentionLimit \in Nat /\ MetadataRetentionLimit \in Nat

Pending  == {"queued", "running"}
Terminal == {"succeeded", "failed"}

VARIABLES
    jobs,         \* AppState.jobs: the status of a record, or "absent"
    later,        \* order of the updated_at stamps
    submissions,  \* the ids that have a line in submissions.jsonl
    results,      \* the statuses results.jsonl holds for a job, in file order
    recovering    \* load_jobs: recovered records not yet appended

storeVars == <<jobs, later, submissions, results, recovering>>

Present == {j \in Jobs : jobs[j] # "absent"}

StoreInit ==
    /\ jobs = [j \in Jobs |-> "absent"]
    /\ later = {}
    /\ submissions = {}
    /\ results = [j \in Jobs |-> <<>>]
    /\ recovering = {}

SetStatus(j, s) == jobs' = [jobs EXCEPT ![j] = s]

\* updated_at = now_utc(): j is now the most recently stamped record.
Touch(j) == later' = (later \ (Jobs \X {j})) \cup ({j} \X (Jobs \ {j}))

\* Mutant of RecentRecords: one record too many survives truncate.
RecentRecordsOffByOne(S, n) ==
    {j \in S : Cardinality({k \in S : <<k, j>> \in later}) <= n}

\* recent_records: the n records of S with the latest updated_at.
RecentRecords(S, n) ==
    {j \in S : Cardinality({k \in S : <<k, j>> \in later}) < n}

\* append_jsonl to results.jsonl of a record whose status is s.
AppendResultLine(j, s) == results' = [results EXCEPT ![j] = Append(@, s)]

\* retain_recent_jobs: whatever their status, only the most recent records
\* stay queryable.
RetainRecentJobs ==
    jobs' = [j \in Jobs |->
                IF j \in RecentRecords(Present, JobRetentionLimit)
                  THEN jobs[j] ELSE "absent"]

-----------------------------------------------------------------------------
(* load_jobs.                                                              *)

\* Mutant of StatusOnDisk: results.jsonl is read first.
StatusOnDiskSubmissionsLast(j) ==
    IF j \in submissions THEN "queued"
    ELSE IF results[j] # <<>> THEN results[j][Len(results[j])] ELSE "absent"

\* What the two files say of j: a line of results.jsonl is read after, and
\* so replaces, the line of submissions.jsonl.
StatusOnDisk(j) ==
    IF results[j] # <<>> THEN results[j][Len(results[j])]
    ELSE IF j \in submissions THEN "queued" ELSE "absent"

\* Mutant of LoadRecords: only "running" counts as interrupted.
LoadRecordsOnlyRunning ==
    /\ recovering' = {j \in Jobs : StatusOnDisk(j) = "running"}
    /\ jobs' = [j \in Jobs |-> IF StatusOnDisk(j) = "running" THEN "failed" ELSE StatusOnDisk(j)]
    /\ UNCHANGED <<later, submissions, results>>

\* Read both files and turn every job that was not finished into a failed one.
LoadRecords ==
    /\ recovering' = {j \in Jobs : StatusOnDisk(j) \in Pending}
    /\ jobs' = [j \in Jobs |->
                  IF StatusOnDisk(j) \in Pending THEN "failed" ELSE StatusOnDisk(j)]
    /\ UNCHANGED <<later, submissions, results>>

\* Mutant of AppendRecovered: the failure is noted in memory only.
AppendRecoveredInMemory(j) ==
    /\ j \in recovering
    /\ Touch(j)
    /\ recovering' = recovering \ {j}
    /\ UNCHANGED <<jobs, submissions, results>>

\* Append one recovered record.  The loop stamps the records in the order in
\* which it appends them, so the stamp is placed here.
AppendRecovered(j) ==
    /\ j \in recovering
    /\ Touch(j)
    /\ AppendResultLine(j, "failed")
    /\ recovering' = recovering \ {j}
    /\ UNCHANGED <<jobs, submissions>>

CompactedRecords == RecentRecords(Present, MetadataRetentionLimit)

\* compact_metadata, first write: the unfinished records that are kept.
CompactSubmissions ==
    /\ submissions' = IF MetadataRetentionLimit = 0 THEN submissions
                      ELSE {j \in CompactedRecords : jobs[j] \in Pending}
    /\ UNCHANGED <<jobs, later, results, recovering>>

\* compact_metadata, second write: the finished records that are kept.
CompactResults ==
    /\ results' = IF MetadataRetentionLimit = 0 THEN results
                  ELSE [j \in Jobs |->
                          IF j \in CompactedRecords /\ jobs[j] \in Terminal
                            THEN <<jobs[j]>> ELSE <<>>]
    /\ UNCHANGED <<jobs, later, submissions, recovering>>

\* The process is gone: what was in memory is lost, the files are not.
StoreStops ==
    /\ jobs' = [j \in Jobs |-> "absent"]
    /\ recovering' = {}
    /\ UNCHANGED <<later, submissions, results>>

-----------------------------------------------------------------------------

\* Type invariant of the records and the files (types/job.rs JobStatus).
StoreTypeOK ==
    /\ jobs \in [Jobs -> Pending \cup Terminal \cup {"absent"}]
    /\ later \subseteq Jobs \X Jobs
    /\ submissions \subseteq Jobs
    /\ results \in [Jobs -> Seq(Terminal)]
    /\ recovering \subseteq Jobs

=============================================================================
