--------------------------- MODULE MetadataFiles ---------------------------
(***************************************************************************)
(* A JSONL file as append_jsonl (util.rs), load_job_records and             *)
(* write_jsonl_records (jobs/store.rs) see it: lines, each one record, and  *)
(* a last line that may lack its newline.                                   *)
(*                                                                          *)
(* append_jsonl opens the file for appending and hands over line and        *)
(* newline in one write, so appends of different tasks and processes do not *)
(* mix; but a write can be cut short by a full disk, and what is appended   *)
(* next then continues the line that was left.                              *)
(***************************************************************************)
EXTENDS Naturals, Sequences, FiniteSetsExt

CONSTANT Torn     \* a line that is no JSON record

EmptyFile == [lines |-> <<>>, ended |-> TRUE]

\* The file after text is written at its end: a line of its own, or more of a
\* line that has no newline yet, which then holds no record any more.
Extend(f, text) ==
    IF f.ended THEN Append(f.lines, text) ELSE [f.lines EXCEPT ![Len(f.lines)] = Torn]

\* Mutant of AppendLine: the newline is left to the next append.
AppendLineUnended(f, r) == [lines |-> Extend(f, r), ended |-> FALSE]

\* append_jsonl.
AppendLine(f, r) == [lines |-> Extend(f, r), ended |-> TRUE]

\* What append_jsonl may leave when its write is cut short: nothing, a part of
\* the line, or the whole line without its newline.
CutShort(f, r) == {f} \cup {[lines |-> Extend(f, x), ended |-> FALSE] : x \in {r, Torn}}

\* load_job_records gets through the file; blank lines are never written.
Readable(f) == \A i \in DOMAIN f.lines : f.lines[i] # Torn

\* The lines of the file that are records of job j.
LinesOf(f, j) == {i \in DOMAIN f.lines : f.lines[i] # Torn /\ f.lines[i].job = j}

\* load_job_records: a line replaces what was known of its job.
ReadInto(f, known) ==
    [j \in DOMAIN known |->
        IF LinesOf(f, j) = {} THEN known[j] ELSE f.lines[Max(LinesOf(f, j))]]

\* The bytes of write_jsonl_records, in the order of recent_records.
FileOf(records) ==
    LET older(r) == {x \in records : x.updated_at < r.updated_at}
    IN  [lines |-> [i \in 1..Cardinality(records) |->
                      CHOOSE r \in records : Cardinality(older(r)) = i - 1],
         ended |-> TRUE]
=============================================================================
