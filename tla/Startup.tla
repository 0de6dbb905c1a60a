------------------------------- MODULE Startup -------------------------------
(***************************************************************************)
(* Processes that start on one data directory (main.rs, jobs/store.rs): the *)
(* settings are read and checked, load_jobs reads, completes and rewrites    *)
(* the metadata files line by line, the address is bound, and the process    *)
(* serves, drains and ends.  A start can fail at each of these steps and a   *)
(* process can stop between any two of them.                                 *)
(*                                                                           *)
(* Of serving, only what is written to the metadata files is kept: a record  *)
(* is made or finished, and its line follows.  Queue, workers and the         *)
(* retention of records in memory are JobServer's.                           *)
(***************************************************************************)
EXTENDS Settings, MetadataFiles, Functions

CONSTANTS
    Jobs,           \* the job ids
    Processes,      \* processes that may run at a time
    Sources,        \* what a start may find (Settings)
    NoConfig,       \* the settings of a process that has none
    Faults,         \* "stop": a process ends anywhere; "full": the disk is
                    \* full; "port": another program has the address
    MaxStarts       \* bound on the number of starts

Pending  == {"queued", "running"}
Terminal == {"succeeded", "failed"}

ASSUME StartupAssumption ==
    /\ IsFiniteSet(Jobs) /\ IsFiniteSet(Processes)
    /\ Faults \subseteq {"stop", "full", "port"}
    /\ MaxStarts \in Nat
    /\ \A src \in Sources : SourceOK(src) /\ Effective(src) # NoConfig
    /\ Torn \notin [job : Jobs, status : Pending \cup Terminal, updated_at : Nat]

VARIABLES
    phase,          \* where a process stands, or how it ended
    config,         \* its Config
    memory,         \* its job records
    recovering,     \* load_jobs: the records recovered but not yet appended
    unsaved,        \* its appends under way: <<file, record>>
    submissions,    \* submissions.jsonl
    results,        \* results.jsonl
    temp,           \* the *.jsonl.tmp of each
    clock,          \* the last time stamp given
    stamp,          \* and the last one given to each job
    enqueued,       \* the jobs whose submission line was written
    cut,            \* some append was cut short
    starts          \* starts so far, at most MaxStarts

files    == <<submissions, results, temp>>
recorded == <<clock, stamp, enqueued>>
vars == <<phase, config, memory, recovering, unsaved, files, recorded, cut, starts>>

Ended == {"stopped", "bad_settings", "unreadable", "io_error", "no_address"}

\* The steps from main to load_jobs, those of load_jobs from its first write
\* on, and those after it.
Checking == {"configured", "prepared"}
Reading  == {"read_submissions", "read_results"}
Writing  == {"recovering", "write_submissions", "replace_submissions",
             "write_results", "replace_results"}
Running  == {"loaded", "serving", "draining"}

Record(j, s, t) == [job |-> j, status |-> s, updated_at |-> t]
NoRecords       == [j \in Jobs |-> Record(j, "absent", 0)]

Init ==
    /\ phase = [p \in Processes |-> "stopped"]
    /\ config = [p \in Processes |-> NoConfig]
    /\ memory = [p \in Processes |-> NoRecords]
    /\ recovering = [p \in Processes |-> {}]
    /\ unsaved = [p \in Processes |-> {}]
    /\ submissions = EmptyFile
    /\ results = EmptyFile
    /\ temp = [f \in {"submissions", "results"} |-> EmptyFile]
    /\ clock = 0
    /\ stamp = [j \in Jobs |-> 0]
    /\ enqueued = {}
    /\ cut = FALSE
    /\ starts = 0

-----------------------------------------------------------------------------

Move(p, from, to) == phase[p] = from /\ phase' = [phase EXCEPT ![p] = to]

\* The process is gone, and with it everything it held in memory.
End(p, how) ==
    /\ phase' = [phase EXCEPT ![p] = how]
    /\ config' = [config EXCEPT ![p] = NoConfig]
    /\ memory' = [memory EXCEPT ![p] = NoRecords]
    /\ recovering' = [recovering EXCEPT ![p] = {}]
    /\ unsaved' = [unsaved EXCEPT ![p] = {}]

Remember(p, j, s) ==
    /\ clock' = clock + 1
    /\ stamp' = [stamp EXCEPT ![j] = clock + 1]
    /\ memory' = [memory EXCEPT ![p][j] = Record(j, s, clock + 1)]

-----------------------------------------------------------------------------
(* main, up to load_jobs.                                                    *)

\* Config::load.
LoadConfig(p) ==
    /\ phase[p] \in Ended /\ starts < MaxStarts
    /\ starts' = starts + 1
    /\ \E src \in Sources :
         IF ConfigRefused(src)
           THEN End(p, "bad_settings")
           ELSE /\ phase' = [phase EXCEPT ![p] = "configured"]
                /\ config' = [config EXCEPT ![p] = Effective(src)]
                /\ UNCHANGED <<memory, recovering, unsaved>>
    /\ UNCHANGED <<files, recorded, cut>>

\* prepare_config.
PrepareConfig(p) ==
    /\ phase[p] = "configured"
    /\ IF ModelFilesExist(config[p])
         THEN Move(p, "configured", "prepared") /\ UNCHANGED <<config, memory, recovering, unsaved>>
         ELSE End(p, "bad_settings")
    /\ UNCHANGED <<files, recorded, cut, starts>>

\* Mutant of OpenQueue: a queue without room is opened as well.
OpenQueueOfAnySize(p) ==
    /\ Move(p, "prepared", "read_submissions")
    /\ UNCHANGED <<config, memory, recovering, unsaved, files, recorded, cut, starts>>

\* async_channel::bounded panics when it is asked for no room.
OpenQueue(p) ==
    /\ phase[p] = "prepared"
    /\ IF config[p].numbers.queue_size > 0
         THEN Move(p, "prepared", "read_submissions")
              /\ UNCHANGED <<config, memory, recovering, unsaved>>
         ELSE End(p, "bad_settings")
    /\ UNCHANGED <<files, recorded, cut, starts>>

-----------------------------------------------------------------------------
(* load_jobs.                                                                *)

ReadSubmissions(p) ==
    /\ phase[p] = "read_submissions"
    /\ IF Readable(submissions)
         THEN /\ Move(p, "read_submissions", "read_results")
              /\ memory' = [memory EXCEPT ![p] = ReadInto(submissions, @)]
              /\ UNCHANGED <<config, recovering, unsaved>>
         ELSE End(p, "unreadable")
    /\ UNCHANGED <<files, recorded, cut, starts>>

\* The second file, and then every record that is not finished becomes failed.
ReadResults(p) ==
    LET read        == ReadInto(results, memory[p])
        interrupted == {j \in Jobs : read[j].status \in Pending}
    IN  /\ phase[p] = "read_results"
        /\ IF Readable(results)
             THEN /\ Move(p, "read_results", "recovering")
                  /\ memory' = [memory EXCEPT ![p] =
                       [j \in Jobs |-> IF j \in interrupted THEN [read[j] EXCEPT !.status = "failed"]
                                       ELSE read[j]]]
                  /\ recovering' = [recovering EXCEPT ![p] = interrupted]
                  /\ UNCHANGED <<config, unsaved>>
             ELSE End(p, "unreadable")
        /\ UNCHANGED <<files, recorded, cut, starts>>

\* Mutant of Recover: the record is stamped and not written.
RecoverInMemory(p, j) ==
    /\ phase[p] = "recovering" /\ j \in recovering[p]
    /\ Remember(p, j, "failed")
    /\ recovering' = [recovering EXCEPT ![p] = @ \ {j}]
    /\ UNCHANGED <<phase, config, unsaved, files, enqueued, cut, starts>>

\* One recovered record is appended; it got its stamp in the same order.
Recover(p, j) ==
    /\ phase[p] = "recovering" /\ j \in recovering[p]
    /\ Remember(p, j, "failed")
    /\ results' = AppendLine(results, Record(j, "failed", clock + 1))
    /\ recovering' = [recovering EXCEPT ![p] = @ \ {j}]
    /\ UNCHANGED <<phase, config, unsaved, submissions, temp, enqueued, cut, starts>>

\* The disk is full: load_jobs returns the error.
RecoverFails(p, j) ==
    /\ "full" \in Faults
    /\ phase[p] = "recovering" /\ j \in recovering[p]
    /\ results' \in CutShort(results, Record(j, "failed", clock + 1))
    /\ cut' = TRUE
    /\ clock' = clock + 1
    /\ stamp' = [stamp EXCEPT ![j] = clock + 1]
    /\ End(p, "io_error")
    /\ UNCHANGED <<submissions, temp, enqueued, starts>>

\* compact_metadata: not at all when there is no limit.
BeginCompaction(p) ==
    /\ recovering[p] = {}
    /\ Move(p, "recovering",
            IF config[p].numbers.metadata_retention_limit = 0 THEN "loaded" ELSE "write_submissions")
    /\ UNCHANGED <<config, memory, recovering, unsaved, files, recorded, cut, starts>>

\* recent_records
RecentRecords(known, limit) ==
    LET present == {j \in Jobs : known[j].status # "absent"}
        newer(j) == {k \in present : known[k].updated_at > known[j].updated_at}
    IN  {known[j] : j \in {k \in present : Cardinality(newer(k)) < limit}}

\* The records that compaction writes to one of the files.
Kept(p, file) ==
    {r \in RecentRecords(memory[p], config[p].numbers.metadata_retention_limit) :
        r.status \in IF file = "submissions" THEN Pending ELSE Terminal}

\* Mutant of WriteTemp: the file itself is opened, and so emptied, first.
WriteTempInPlace(p, file, from, to) ==
    /\ Move(p, from, to)
    /\ temp' = [temp EXCEPT ![file] = FileOf(Kept(p, file))]
    /\ submissions' = IF file = "submissions" THEN EmptyFile ELSE submissions
    /\ results' = IF file = "results" THEN EmptyFile ELSE results
    /\ UNCHANGED <<config, memory, recovering, unsaved, recorded, cut, starts>>

\* write_jsonl_records: the new contents go to a file of their own ...
WriteTemp(p, file, from, to) ==
    /\ Move(p, from, to)
    /\ temp' = [temp EXCEPT ![file] = FileOf(Kept(p, file))]
    /\ UNCHANGED <<config, memory, recovering, unsaved, submissions, results, recorded, cut, starts>>

\* ... which takes the place of the old one.
Replace(p, file, from, to) ==
    /\ Move(p, from, to)
    /\ submissions' = IF file = "submissions" THEN temp[file] ELSE submissions
    /\ results' = IF file = "results" THEN temp[file] ELSE results
    /\ temp' = [temp EXCEPT ![file] = EmptyFile]
    /\ UNCHANGED <<config, memory, recovering, unsaved, recorded, cut, starts>>

\* Writing the file of its own fails and leaves some of it.
WriteTempFails(p, file, from) ==
    /\ "full" \in Faults
    /\ phase[p] = from
    /\ temp' = [temp EXCEPT ![file] = EmptyFile]
    /\ End(p, "io_error")
    /\ UNCHANGED <<submissions, results, recorded, cut, starts>>

Compact(p) ==
    \/ WriteTemp(p, "submissions", "write_submissions", "replace_submissions")
    \/ Replace(p, "submissions", "replace_submissions", "write_results")
    \/ WriteTemp(p, "results", "write_results", "replace_results")
    \/ Replace(p, "results", "replace_results", "loaded")
    \/ WriteTempFails(p, "submissions", "write_submissions")
    \/ WriteTempFails(p, "results", "write_results")

-----------------------------------------------------------------------------
(* serve.                                                                    *)

AddressTaken(p) == \E q \in Processes \ {p} : phase[q] = "serving"

\* TcpListener::bind.  What load_jobs returned is the AppState's from now on.
Bind(p) ==
    /\ phase[p] = "loaded"
    /\ ~AddressTaken(p)
    /\ Move(p, "loaded", "serving")
    /\ memory' = [memory EXCEPT ![p] = NoRecords]
    /\ UNCHANGED <<config, recovering, unsaved, files, recorded, cut, starts>>

BindFails(p) ==
    /\ phase[p] = "loaded"
    /\ AddressTaken(p) \/ "port" \in Faults
    /\ End(p, "no_address")
    /\ UNCHANGED <<files, recorded, cut, starts>>

\* A submission makes a record, and goes on to append it.
Submit(p, j) ==
    /\ phase[p] = "serving"
    /\ stamp[j] = 0
    /\ Remember(p, j, "queued")
    /\ unsaved' = [unsaved EXCEPT ![p] = @ \cup {<<"submissions", Record(j, "queued", clock + 1)>>}]
    /\ UNCHANGED <<phase, config, recovering, files, enqueued, cut, starts>>

\* finish_job, or the roll-back of enqueue_record, does the same at the end.
Finish(p, j, s) ==
    /\ phase[p] \in {"serving", "draining"}
    /\ j \in enqueued /\ memory[p][j].status \in Pending
    /\ Remember(p, j, s)
    /\ unsaved' = [unsaved EXCEPT ![p] = @ \cup {<<"results", Record(j, s, clock + 1)>>}]
    /\ UNCHANGED <<phase, config, recovering, files, enqueued, cut, starts>>

Saving(p, u) ==
    /\ u \in unsaved[p]
    /\ unsaved' = [unsaved EXCEPT ![p] = @ \ {u}]
    /\ UNCHANGED <<phase, config, memory, recovering, temp, clock, stamp, starts>>

\* The append of a handler or a worker returns.
Save(p, u) ==
    /\ Saving(p, u)
    /\ IF u[1] = "submissions"
         THEN /\ submissions' = AppendLine(submissions, u[2])
              /\ enqueued' = enqueued \cup {u[2].job}
              /\ UNCHANGED results
         ELSE results' = AppendLine(results, u[2]) /\ UNCHANGED <<submissions, enqueued>>
    /\ UNCHANGED cut

\* It is cut short: the handler gives up, the worker only logs it.
SaveFails(p, u) ==
    /\ "full" \in Faults
    /\ Saving(p, u)
    /\ submissions' \in IF u[1] = "submissions" THEN CutShort(submissions, u[2]) ELSE {submissions}
    /\ results' \in IF u[1] = "results" THEN CutShort(results, u[2]) ELSE {results}
    /\ cut' = TRUE
    /\ UNCHANGED enqueued

\* Ctrl-C: the listener is closed, open connections are served to their end,
\* and the workers go on meanwhile.
Drain(p) ==
    /\ Move(p, "serving", "draining")
    /\ UNCHANGED <<config, memory, recovering, unsaved, files, recorded, cut, starts>>

\* serve returns, and the runtime drops what is left; or the process is
\* killed at any moment.
Stop(p) ==
    /\ \/ phase[p] = "draining"
       \/ "stop" \in Faults /\ phase[p] \notin Ended
    /\ End(p, "stopped")
    /\ UNCHANGED <<files, recorded, cut, starts>>

Next ==
    \E p \in Processes :
        \/ LoadConfig(p) \/ PrepareConfig(p) \/ OpenQueue(p)
        \/ ReadSubmissions(p) \/ ReadResults(p)
        \/ \E j \in Jobs : Recover(p, j) \/ RecoverFails(p, j)
        \/ BeginCompaction(p) \/ Compact(p)
        \/ Bind(p) \/ BindFails(p)
        \/ \E j \in Jobs : Submit(p, j) \/ \E s \in Terminal : Finish(p, j, s)
        \/ \E u \in unsaved[p] : Save(p, u) \/ SaveFails(p, u)
        \/ Drain(p) \/ Stop(p)

Spec == Init /\ [][Next]_vars

-----------------------------------------------------------------------------
(* Properties.                                                               *)

Lines == [job : Jobs, status : Pending \cup Terminal, updated_at : 1..clock]
Files == [lines : Seq(Lines \cup {Torn}), ended : BOOLEAN]

\* Type invariant of the processes and their files (types/job.rs JobRecord).
ProcessesOK ==
    /\ phase \in [Processes -> Ended \cup Checking \cup Reading \cup Writing \cup Running]
    /\ config \in [Processes -> {Effective(src) : src \in Sources} \cup {NoConfig}]
    /\ memory \in [Processes -> [Jobs -> Lines \cup Range(NoRecords)]]
    /\ recovering \in [Processes -> SUBSET Jobs]
    /\ unsaved \in [Processes -> SUBSET ({"submissions", "results"} \X Lines)]
    /\ \A p \in Processes : /\ config[p] = NoConfig <=> phase[p] \in Ended
                           /\ \A j \in Jobs : memory[p][j].job = j

FilesOK ==
    /\ submissions \in Files /\ results \in Files
    /\ temp \in [{"submissions", "results"} -> Files]
    /\ clock \in Nat /\ stamp \in [Jobs -> 0..clock]
    /\ enqueued \subseteq Jobs
    /\ cut \in BOOLEAN /\ starts \in 0..MaxStarts

TypeOK == ProcessesOK /\ FilesOK

\* A process that has begun to change the metadata files runs with settings
\* under which it can go on and serve: everything a start can be refused for,
\* but the address, is found out before load_jobs (main.rs prepare_config,
\* build_runtime_parts), and no clamp is forgotten.
SoundBeforeWriting ==
    \A p \in Processes : phase[p] \in Writing \cup Running => Sound(config[p])

\* Stops at any point of an append, of a recovery or of a compaction leave
\* files the next start can read; only a write cut short by the file system
\* does not (append_jsonl's one write, write_jsonl_records' rename).
ReadableUnlessCut ==
    /\ \A p \in Processes : phase[p] = "unreadable" => cut
    /\ cut \/ (Readable(submissions) /\ Readable(results))

\* What the files say of a job.
OnDisk(j) == ReadInto(results, ReadInto(submissions, NoRecords))[j]

\* What the files say of a job only moves on: nothing, queued, its one final
\* status.  It is forgotten only by a compaction that keeps enough younger
\* records instead, however often the process stopped before (without writes
\* that were cut short).
DiskMovesOn ==
    [][\A j \in Jobs :
         \/ cut'
         \/ OnDisk(j)' = OnDisk(j)
         \/ OnDisk(j).status = "absent" /\ OnDisk(j)'.status = "queued"
         \/ OnDisk(j).status = "queued" /\ OnDisk(j)'.status \in Terminal
         \/ /\ OnDisk(j)'.status = "absent"
            /\ \E p \in Processes :
                 /\ phase[p] \in Writing
                 /\ LET younger == {k \in Jobs : OnDisk(k)'.updated_at > OnDisk(j).updated_at}
                    IN  Cardinality(younger) >= config[p].numbers.metadata_retention_limit]_files

\* Only a job that no living process still works on is recovered as failed.
RecoversTheDead ==
    \A p, q \in Processes : \A j \in recovering[p] :
        p # q => memory[q][j].status \notin Pending \/ phase[q] \in Reading \cup Writing

=============================================================================
