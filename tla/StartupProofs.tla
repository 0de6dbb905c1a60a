--------------------------- MODULE StartupProofs ---------------------------
(***************************************************************************)
(* Proofs about Startup, for every set of jobs, processes and sources of   *)
(* settings, any number of starts, and every choice of faults; and, for a  *)
(* directory with one process at a time, that what its files say only moves *)
(* on and that they implement JobStore.                                    *)
(***************************************************************************)
EXTENDS StartupRefinement, FiniteSetTheorems, FunctionTheorems, SequenceTheorems,
        WellFoundedInduction, TLAPS

(* Settings (config.rs).                                                   *)

\* Settings that are not refused are numbers of the right size, and paths for
\* a server that is to read local ones.
LEMMA EffectiveSettings ==
    ASSUME NEW src \in Sources, ~ConfigRefused(src)
    PROVE  /\ \A name \in DOMAIN NumberDefault : Effective(src).numbers[name] \in Nat
           /\ \A name \in AtLeastOne : Effective(src).numbers[name] >= 1
           /\ Effective(src).allow_local_paths => Effective(src).local_path_roots # {}
<1>1. \A name \in DOMAIN NumberDefault : Number(src, name) \in Nat
  <2>. SUFFICES ASSUME NEW name \in DOMAIN NumberDefault PROVE Number(src, name) \in Nat
    OBVIOUS
  <2>1. NumberDefault[name] \in Nat
    BY DEF NumberDefault
  <2>2. Number(src, name) # Malformed
    BY DEF ConfigRefused
  <2>. QED
    BY <2>1, <2>2, StartupAssumption, SettingsAssumption DEF Number, Setting, InFile, SourceOK
<1>2. AtLeastOne \subseteq DOMAIN NumberDefault
  BY DEF AtLeastOne, NumberDefault
<1>3. Setting(src, "allow_local_paths", FALSE) \in BOOLEAN
  <2>. DEFINE allow == Setting(src, "allow_local_paths", FALSE)
  <2>1. allow # Malformed
    BY DEF ConfigRefused
  <2>2. allow \in BOOLEAN \cup {Malformed}
    BY StartupAssumption, SettingsAssumption DEF Setting, InFile, SourceOK
  <2>. QED
    BY <2>1, <2>2
<1>4. \A name \in DOMAIN NumberDefault :
        Effective(src).numbers[name] = IF name \in AtLeastOne /\ Number(src, name) = 0 THEN 1
                                       ELSE Number(src, name)
  BY DEF Effective, Clamped
<1>5. /\ Effective(src).allow_local_paths = Setting(src, "allow_local_paths", FALSE)
      /\ Effective(src).local_path_roots = PathList(src, "local_path_roots")
  BY DEF Effective
<1>6. Effective(src).allow_local_paths => Effective(src).local_path_roots # {}
  BY <1>3, <1>5 DEF ConfigRefused
<1>7. \A name \in DOMAIN NumberDefault : Effective(src).numbers[name] \in Nat
  BY <1>1, <1>4
<1>8. \A name \in AtLeastOne : Effective(src).numbers[name] >= 1
  BY <1>1, <1>2, <1>4
<1>. QED
  BY <1>6, <1>7, <1>8

-----------------------------------------------------------------------------
(* Files (util.rs, jobs/store.rs).                                         *)

FileOver(S) == [lines : Seq(S \cup {Torn}), ended : BOOLEAN]

\* What appending to a file makes of it.
LEMMA AppendedFile ==
    ASSUME NEW S, NEW f \in FileOver(S), NEW r \in S
    PROVE  /\ AppendLine(f, r) \in FileOver(S)
           /\ CutShort(f, r) \subseteq FileOver(S)
           /\ f.ended /\ Readable(f) /\ r # Torn =>
                AppendLine(f, r).ended /\ Readable(AppendLine(f, r))
<1>. DEFINE L == f.lines
<1>1. L \in Seq(S \cup {Torn}) /\ f.ended \in BOOLEAN
  BY DEF FileOver
<1>2. \A x \in S \cup {Torn} : Extend(f, x) \in Seq(S \cup {Torn})
  <2>. TAKE x \in S \cup {Torn}
  <2>1. Append(L, x) \in Seq(S \cup {Torn})
    BY <1>1
  <2>2. [L EXCEPT ![Len(L)] = Torn] \in Seq(S \cup {Torn})
    <3>1. L \in [1..Len(L) -> S \cup {Torn}] /\ Len(L) \in Nat
      BY <1>1
    <3>. HIDE DEF L
    <3>2. [L EXCEPT ![Len(L)] = Torn] \in [1..Len(L) -> S \cup {Torn}]
      BY <3>1
    <3>. QED
      BY <3>1, <3>2, IsASeq
  <2>. QED
    BY <2>1, <2>2 DEF Extend
<1>3. AppendLine(f, r) \in FileOver(S) /\ CutShort(f, r) \subseteq FileOver(S)
  <2>1. \A x \in S \cup {Torn}, b \in BOOLEAN : [lines |-> Extend(f, x), ended |-> b] \in FileOver(S)
    BY <1>2 DEF FileOver
  <2>. QED
    BY <2>1 DEF AppendLine, CutShort
<1>4. ASSUME f.ended, Readable(f), r # Torn PROVE Readable(AppendLine(f, r))
  <2>1. AppendLine(f, r).lines = Append(L, r)
    BY <1>4 DEF AppendLine, Extend
  <2>2. \A i \in DOMAIN L : L[i] # Torn
    BY <1>4 DEF Readable
  <2>. HIDE DEF L
  <2>3. \A i \in DOMAIN Append(L, r) : Append(L, r)[i] # Torn
    BY <1>1, <1>4, <2>2
  <2>. QED
    BY <2>1, <2>3 DEF Readable
<1>. QED
  BY <1>3, <1>4 DEF AppendLine

\* A file over a set of lines is one over every larger set.
LEMMA LargerFiles ==
    ASSUME NEW S, NEW T, S \subseteq T
    PROVE  FileOver(S) \subseteq FileOver(T)
<1>1. Seq(S \cup {Torn}) \subseteq Seq(T \cup {Torn})
  OBVIOUS
<1>. QED
  BY <1>1 DEF FileOver

\* How many of S are below r.
Rank(S, v, r) == Cardinality({x \in S : v[x] < v[r]})

\* Different values of a finite set have different ranks, and every rank is taken.
LEMMA Ranks ==
    ASSUME NEW S, IsFiniteSet(S), NEW v \in [S -> Nat], \A a, b \in S : v[a] = v[b] => a = b
    PROVE  /\ \A r \in S : Rank(S, v, r) \in 0..(Cardinality(S) - 1)
           /\ \A a, b \in S : Rank(S, v, a) = Rank(S, v, b) => a = b
           /\ \A n \in 0..(Cardinality(S) - 1) : \E r \in S : Rank(S, v, r) = n
<1>. DEFINE below(r) == {x \in S : v[x] < v[r]}
            rank(r)  == Cardinality(below(r))
            f        == [r \in S |-> rank(r)]
            top      == Cardinality(S) - 1
<1>1. Cardinality(S) \in Nat
  BY FS_CardinalityType
<1>2. \A r \in S : /\ IsFiniteSet(below(r)) /\ rank(r) \in Nat
                  /\ rank(r) <= top
  <2>. TAKE r \in S
  <2>1. below(r) \in SUBSET (S \ {r})
    OBVIOUS
  <2>. HIDE DEF below
  <2>2. IsFiniteSet(S \ {r}) /\ Cardinality(S \ {r}) = top
    BY FS_RemoveElement
  <2>3. IsFiniteSet(below(r)) /\ rank(r) <= top
    BY <2>1, <2>2, FS_Subset
  <2>. QED
    BY <2>3, FS_CardinalityType
<1>3. \A a, b \in S : v[a] < v[b] => rank(a) < rank(b)
  <2>. SUFFICES ASSUME NEW a \in S, NEW b \in S, v[a] < v[b] PROVE rank(a) < rank(b)
    OBVIOUS
  <2>1. below(a) \cup {a} \in SUBSET below(b) /\ a \notin below(a)
    OBVIOUS
  <2>. HIDE DEF below
  <2>2. Cardinality(below(a) \cup {a}) = rank(a) + 1
    BY <1>2, <2>1, FS_AddElement
  <2>3. Cardinality(below(a) \cup {a}) <= rank(b)
    BY <1>2, <2>1, FS_Subset
  <2>. QED
    BY <1>2, <2>2, <2>3
<1>. HIDE DEF below
<1>4. \A a, b \in S : rank(a) = rank(b) => a = b
  <2>. SUFFICES ASSUME NEW a \in S, NEW b \in S, rank(a) = rank(b), a # b PROVE FALSE
    OBVIOUS
  <2>1. v[a] < v[b] \/ v[b] < v[a]
    OBVIOUS
  <2>. QED
    BY <1>2, <1>3, <2>1
<1>5. \A n \in 0..top : \E r \in S : rank(r) = n
  <2>. HIDE DEF top, rank
  <2>1. f \in Injection(S, 0..top)
    <3>1. f \in [S -> 0..top]
      BY <1>1, <1>2 DEF top
    <3>. QED
      BY <1>4, <3>1 DEF Injection, IsInjective
  <2>2. IsFiniteSet(0..top) /\ Cardinality(0..top) = Cardinality(S)
    BY <1>1, FS_Interval DEF top
  <2>3. f \in Surjection(S, 0..top)
    BY <2>1, <2>2, FS_Injection
  <2>. QED
    BY <2>3 DEF Surjection
<1>6. \A r \in S : Rank(S, v, r) = rank(r)
  BY DEF Rank, below
<1>. HIDE DEF rank
<1>7. \A r \in S : rank(r) \in 0..top
  BY <1>1, <1>2
<1>. QED
  BY <1>4, <1>5, <1>6, <1>7

\* write_jsonl_records writes each record once, if no two have the same stamp.
LEMMA WrittenFile ==
    ASSUME NEW S, NEW T \in SUBSET S, IsFiniteSet(T), \A r \in T : r.updated_at \in Nat,
           \A a, b \in T : a.updated_at = b.updated_at => a = b
    PROVE  /\ FileOf(T) \in FileOver(S) /\ FileOf(T).ended
           /\ \A i \in DOMAIN FileOf(T).lines : FileOf(T).lines[i] \in T
           /\ \A r \in T : \E i \in DOMAIN FileOf(T).lines : FileOf(T).lines[i] = r
           /\ \A i, k \in DOMAIN FileOf(T).lines : FileOf(T).lines[i] = FileOf(T).lines[k] => i = k
<1>. DEFINE v       == [r \in T |-> r.updated_at]
            rank(r) == Cardinality({x \in T : x.updated_at < r.updated_at})
            n       == Cardinality(T)
            L       == [i \in 1..n |-> CHOOSE r \in T : rank(r) = i - 1]
<1>1. n \in Nat
  BY FS_CardinalityType
<1>2. FileOf(T) = [lines |-> L, ended |-> TRUE]
  BY DEF FileOf
<1>3. /\ \A r \in T : rank(r) \in 0..(n - 1)
      /\ \A a, b \in T : rank(a) = rank(b) => a = b
      /\ \A m \in 0..(n - 1) : \E r \in T : rank(r) = m
  <2>1. v \in [T -> Nat] /\ \A a, b \in T : v[a] = v[b] => a = b
    OBVIOUS
  <2>2. \A r \in T : Rank(T, v, r) = rank(r)
    <3>1. \A r \in T : {x \in T : v[x] < v[r]} = {x \in T : x.updated_at < r.updated_at}
      OBVIOUS
    <3>. QED
      BY <3>1 DEF Rank
  <2>. HIDE DEF v, rank
  <2>. QED
    BY <2>1, <2>2, Ranks
<1>. HIDE DEF rank, n
<1>4. \A i \in 1..n : L[i] \in T /\ rank(L[i]) = i - 1
  <2>. TAKE i \in 1..n
  <2>1. \E r \in T : rank(r) = i - 1
    BY <1>1, <1>3
  <2>2. L[i] = CHOOSE r \in T : rank(r) = i - 1
    OBVIOUS
  <2>. QED
    BY <2>1, <2>2
<1>5. DOMAIN L = 1..n
  OBVIOUS
<1>6. L \in Seq(S \cup {Torn})
  BY <1>1, <1>4
<1>. HIDE DEF L
<1>7. \A r \in T : \E i \in 1..n : L[i] = r
  <2>. TAKE r \in T
  <2>1. rank(r) + 1 \in 1..n /\ rank(r) + 1 - 1 = rank(r)
    BY <1>1, <1>3
  <2>. QED
    BY <1>3, <1>4, <2>1
<1>8. \A i, k \in 1..n : L[i] = L[k] => i = k
  BY <1>1, <1>4
<1>. QED
  BY <1>2, <1>4, <1>5, <1>6, <1>7, <1>8 DEF FileOver
\* A set of line numbers has a greatest one.
LEMMA LastOf ==
    ASSUME NEW n \in Nat, NEW S \in SUBSET (1..n), S # {}
    PROVE  Max(S) \in S /\ \A y \in S : y <= Max(S)
<1>. DEFINE D == {n - x : x \in S}
<1>1. D \subseteq Nat /\ D # {}
  <2>1. \A x \in S : n - x \in Nat
    OBVIOUS
  <2>. QED
    BY <2>1
<1>. HIDE DEF D
<1>2. PICK d \in D : \A e \in D : <<e, d>> \notin OpToRel(<, Nat)
  BY <1>1, WFMin, NatLessThanWellFounded
<1>3. PICK x \in S : d = n - x
  BY DEF D
<1>4. \A y \in S : n - x <= n - y
  <2>. TAKE y \in S
  <2>1. n - y \in D
    BY DEF D
  <2>2. ~ (n - y < n - x)
    BY <1>1, <1>2, <1>3, <2>1 DEF OpToRel
  <2>. QED
    BY <2>2
<1>5. \E m \in S : \A y \in S : m >= y
  BY <1>4
<1>6. Max(S) \in S /\ \A y \in S : Max(S) >= y
  BY <1>5 DEF Max
<1>. QED
  BY <1>6

\* What load_job_records finds of a job is its last line, if there is one.
LEMMA ReadRecord ==
    ASSUME NEW S, NEW f \in FileOver(S), NEW known, NEW j \in DOMAIN known
    PROVE  /\ LinesOf(f, j) = {} => ReadInto(f, known)[j] = known[j]
           /\ LinesOf(f, j) # {} =>
                \E i \in LinesOf(f, j) : ReadInto(f, known)[j] = f.lines[i]
<1>1. Len(f.lines) \in Nat /\ LinesOf(f, j) \in SUBSET (1..Len(f.lines))
  BY DEF FileOver, LinesOf
<1>2. LinesOf(f, j) # {} => Max(LinesOf(f, j)) \in LinesOf(f, j)
  BY <1>1, LastOf
<1>. QED
  BY <1>2 DEF ReadInto
-----------------------------------------------------------------------------
(* The invariant of the processes and their files.                         *)

\* t is the stamp of a record of job j, wherever that record is.
Written(f, j, t) == \E i \in LinesOf(f, j) : f.lines[i].updated_at = t

Stamped(j, t) ==
    \/ \E p \in Processes : memory[p][j].status # "absent" /\ memory[p][j].updated_at = t
    \/ \E p \in Processes : \E u \in unsaved[p] : u[2].job = j /\ u[2].updated_at = t
    \/ Written(submissions, j, t) \/ Written(results, j, t)
    \/ \E n \in DOMAIN temp : Written(temp[n], j, t)

\* No two jobs have a stamp in common, in memory or in any file.
StampsAgree == \A j, k \in Jobs : \A t \in 1..clock : Stamped(j, t) /\ Stamped(k, t) => j = k

\* What a process has checked of its settings by the time it is at a step.
ConfigAgrees ==
    \A p \in Processes :
        /\ phase[p] \notin Ended =>
             \E src \in Sources : ~ConfigRefused(src) /\ config[p] = Effective(src)
        /\ phase[p] \notin Ended \cup {"configured"} => ModelFilesExist(config[p])
        /\ phase[p] \in Reading \cup Writing \cup Running => config[p].numbers.queue_size > 0

\* The files, those being written aside too, are whole until a write is cut
\* short, and only then can a start fail to read them.
Whole(f) == f.ended /\ Readable(f)

FilesAgree ==
    /\ \A p \in Processes : phase[p] = "unreadable" => cut
    /\ cut \/ (Whole(submissions) /\ Whole(results) /\ \A n \in DOMAIN temp : Whole(temp[n]))

\* The inductive invariant.
StartupInv == TypeOK /\ StampsAgree /\ ConfigAgrees /\ FilesAgree

-----------------------------------------------------------------------------
(* Types.                                                                  *)

\* Where the clock goes on, what had a type keeps it.
LEMMA ClockGrows ==
    ASSUME clock \in Nat, clock' \in {clock, clock + 1}
    PROVE  /\ clock' \in Nat /\ Lines \subseteq Lines' /\ Files \subseteq Files'
           /\ 0..clock \subseteq 0..clock'
           /\ clock' = clock + 1 => clock + 1 \in 0..clock' /\
                \A j \in Jobs, s \in Pending \cup Terminal : Record(j, s, clock + 1) \in Lines'
<1>1. 0..clock \subseteq 0..clock' /\ 1..clock \subseteq 1..clock' /\ clock' \in Nat
  OBVIOUS
<1>2. Lines \subseteq Lines'
  BY <1>1 DEF Lines
<1>3. Files \subseteq Files'
  <2>. DEFINE A == Lines
              B == Lines'
  <2>1. Files = FileOver(A) /\ Files' = FileOver(B) /\ A \subseteq B
    BY <1>2 DEF Files, FileOver
  <2>. HIDE DEF A, B
  <2>. QED
    BY <2>1, LargerFiles
<1>. QED
  BY <1>1, <1>2, <1>3 DEF Record, Lines

\* A process that ends forgets everything, and one that moves on nothing.
LEMMA EndsWell ==
    ASSUME ProcessesOK, NEW p \in Processes, NEW how \in Ended, End(p, how), Lines \subseteq Lines'
    PROVE  ProcessesOK'
<1>1. NoRecords \in [Jobs -> Lines' \cup Range(NoRecords)] /\ \A j \in Jobs : NoRecords[j].job = j
  BY DEF NoRecords, Record, Range
<1>. QED
  BY <1>1 DEF ProcessesOK, End

\* A process that goes on keeps its type.
LEMMA MovesWell ==
    ASSUME ProcessesOK, NEW p \in Processes, NEW from, NEW to, Move(p, from, to),
           from \notin Ended, to \in Checking \cup Reading \cup Writing \cup Running,
           UNCHANGED <<config, memory, recovering, unsaved, clock>>
    PROVE  ProcessesOK'
<1>1. Lines' = Lines
  BY DEF Lines
<1>2. to \notin Ended
  BY DEF Ended, Checking, Reading, Writing, Running
<1>. QED
  BY <1>1, <1>2 DEF ProcessesOK, Move
\* A record in memory is a line, with the stamp of its job.
LEMMA RecordInMemory ==
    ASSUME TypeOK, NEW p \in Processes, NEW j \in Jobs, memory[p][j].status # "absent"
    PROVE  memory[p][j] \in Lines /\ memory[p][j].job = j /\ Stamped(j, memory[p][j].updated_at)
<1>1. memory[p][j] \in Lines \cup Range(NoRecords) /\ memory[p][j].job = j
  BY DEF TypeOK, ProcessesOK
<1>2. memory[p][j] \notin Range(NoRecords)
  BY DEF NoRecords, Record, Range
<1>. QED
  BY <1>1, <1>2 DEF Stamped

\* What compaction keeps is a finite set of records of its process, with a
\* stamp each, so it can be written in order.
LEMMA KeptRecords ==
    ASSUME TypeOK, StampsAgree, NEW p \in Processes, NEW file
    PROVE  /\ \A r \in Kept(p, file) : \E j \in Jobs : r = memory[p][j] /\ r.status # "absent"
           /\ Kept(p, file) \subseteq Lines /\ IsFiniteSet(Kept(p, file))
           /\ \A r \in Kept(p, file) : r.updated_at \in Nat
           /\ \A a, b \in Kept(p, file) : a.updated_at = b.updated_at => a = b
<1>. DEFINE T == Kept(p, file)
            J == {j \in Jobs : memory[p][j] \in T}
            f == [j \in J |-> memory[p][j]]
<1>1. \A r \in T : \E j \in Jobs : r = memory[p][j] /\ r.status # "absent"
  BY DEF Kept, RecentRecords
<1>. HIDE DEF T
<1>2. T \subseteq Lines
  BY <1>1, RecordInMemory
<1>3. \A r \in T : r.updated_at \in 1..clock /\ r.updated_at \in Nat
  BY <1>2 DEF Lines, TypeOK, FilesOK
<1>4. IsFiniteSet(T)
  <2>1. f \in Surjection(J, T)
    BY <1>1 DEF Surjection
  <2>2. IsFiniteSet(J)
    BY StartupAssumption, FS_Subset
  <2>. HIDE DEF f, J
  <2>. QED
    BY <2>1, <2>2, FS_Surjection
<1>5. ASSUME NEW a \in T, NEW b \in T, a.updated_at = b.updated_at PROVE a = b
  <2>1. PICK j \in Jobs : a = memory[p][j] /\ a.status # "absent"
    BY <1>1
  <2>2. PICK k \in Jobs : b = memory[p][k] /\ b.status # "absent"
    BY <1>1
  <2>3. Stamped(j, a.updated_at) /\ Stamped(k, a.updated_at)
    BY <1>5, <2>1, <2>2, RecordInMemory
  <2>. QED
    BY <1>3, <2>1, <2>2, <2>3 DEF StampsAgree
<1>. QED
  BY <1>1, <1>2, <1>3, <1>4, <1>5 DEF T

\* What is read of a file is a record of the job.
LEMMA ReadsWell ==
    ASSUME TypeOK, NEW f \in Files, NEW p \in Processes
    PROVE  /\ ReadInto(f, memory[p]) \in [Jobs -> Lines \cup Range(NoRecords)]
           /\ \A j \in Jobs : ReadInto(f, memory[p])[j].job = j
<1>. DEFINE known == memory[p]
            A     == Lines
<1>1. /\ known \in [Jobs -> A \cup Range(NoRecords)]
      /\ \A j \in Jobs : known[j].job = j
      /\ f \in FileOver(A)
  BY DEF TypeOK, ProcessesOK, Files, FileOver
<1>. HIDE DEF A, known
<1>2. \A j \in Jobs : /\ ReadInto(f, known)[j] \in A \cup Range(NoRecords)
                     /\ ReadInto(f, known)[j].job = j
  <2>. TAKE j \in Jobs
  <2>0. j \in DOMAIN known
    BY <1>1
  <2>1. CASE LinesOf(f, j) = {}
    BY <1>1, <2>0, <2>1, ReadRecord
  <2>2. CASE LinesOf(f, j) # {}
    <3>1. PICK i \in LinesOf(f, j) : ReadInto(f, known)[j] = f.lines[i]
      BY <1>1, <2>0, <2>2, ReadRecord
    <3>2. f.lines[i] \in A \cup {Torn} /\ f.lines[i] # Torn /\ f.lines[i].job = j
      BY <1>1 DEF LinesOf, FileOver
    <3>. QED
      BY <3>1, <3>2
  <2>. QED
    BY <2>1, <2>2
<1>3. DOMAIN ReadInto(f, known) = Jobs
  BY <1>1 DEF ReadInto
<1>4. ReadInto(f, known) = [j \in Jobs |-> ReadInto(f, known)[j]]
  BY <1>1 DEF ReadInto
<1>. QED
  BY <1>2, <1>4 DEF A, known
\* The states in which a process may be, as ends or places in its run.
LEMMA Phases == \A x \in Checking \cup Reading \cup Writing \cup Running : x \notin Ended
BY DEF Ended, Checking, Reading, Writing, Running

\* main up to load_jobs, and the steps that end in the same way.
LEMMA CheckingTypes ==
    ASSUME TypeOK, NEW p \in Processes,
           LoadConfig(p) \/ PrepareConfig(p) \/ OpenQueue(p) \/ BeginCompaction(p)
             \/ BindFails(p) \/ Drain(p) \/ Stop(p)
    PROVE  TypeOK'
<1>. USE DEF TypeOK
<1>1. UNCHANGED <<files, recorded, cut>> /\ Lines' = Lines /\ Files' = Files
  BY DEF LoadConfig, PrepareConfig, OpenQueue, BeginCompaction, BindFails, Drain, Stop, recorded,
     Lines, Files
<1>2. starts' \in 0..MaxStarts
  BY StartupAssumption DEF FilesOK, LoadConfig, PrepareConfig, OpenQueue, BeginCompaction, BindFails,
     Drain, Stop
<1>3. FilesOK'
  BY <1>1, <1>2 DEF FilesOK, files, recorded
<1>4. CASE \E how \in Ended : End(p, how)
  <2>1. PICK how \in Ended : End(p, how)
    BY <1>4
  <2>. QED
    BY <1>1, <1>3, <2>1, EndsWell
<1>5. CASE UNCHANGED <<config, memory, recovering, unsaved>> /\
             \E from \in Checking \cup Reading \cup Writing \cup Running,
                to \in Checking \cup Reading \cup Writing \cup Running : Move(p, from, to)
  <2>1. PICK from \in Checking \cup Reading \cup Writing \cup Running,
             to \in Checking \cup Reading \cup Writing \cup Running : Move(p, from, to)
    BY <1>5
  <2>2. from \notin Ended
    BY Phases
  <2>. QED
    BY <1>1, <1>3, <1>5, <2>1, <2>2, MovesWell DEF recorded
<1>6. CASE \E src \in Sources : /\ phase' = [phase EXCEPT ![p] = "configured"]
                               /\ config' = [config EXCEPT ![p] = Effective(src)]
                               /\ UNCHANGED <<memory, recovering, unsaved>>
  <2>1. PICK src \in Sources : /\ phase' = [phase EXCEPT ![p] = "configured"]
                               /\ config' = [config EXCEPT ![p] = Effective(src)]
                               /\ UNCHANGED <<memory, recovering, unsaved>>
    BY <1>6
  <2>2. Effective(src) # NoConfig
    BY StartupAssumption
  <2>3. "configured" \in Checking /\ "configured" \notin Ended
    BY DEF Checking, Ended
  <2>4. ProcessesOK'
    BY <1>1, <2>1, <2>2, <2>3 DEF ProcessesOK
  <2>. QED
    BY <1>3, <2>4
<1>7. (\E how \in Ended : End(p, how))
      \/ (/\ UNCHANGED <<config, memory, recovering, unsaved>>
          /\ \E from \in Checking \cup Reading \cup Writing \cup Running,
                to \in Checking \cup Reading \cup Writing \cup Running : Move(p, from, to))
      \/ (\E src \in Sources : /\ phase' = [phase EXCEPT ![p] = "configured"]
                               /\ config' = [config EXCEPT ![p] = Effective(src)]
                               /\ UNCHANGED <<memory, recovering, unsaved>>)
  BY DEF LoadConfig, PrepareConfig, OpenQueue, BeginCompaction, BindFails, Drain, Stop,
     Ended, Checking, Reading, Writing, Running
<1>. QED
  BY <1>4, <1>5, <1>6, <1>7

\* load_jobs.
LEMMA LoadingTypes ==
    ASSUME TypeOK, StampsAgree, NEW p \in Processes,
           ReadSubmissions(p) \/ ReadResults(p) \/ Compact(p) \/ Bind(p)
    PROVE  TypeOK'
<1>. USE DEF TypeOK
<1>1. UNCHANGED <<recorded, cut, starts>> /\ Lines' = Lines /\ Files' = Files
  BY DEF ReadSubmissions, ReadResults, Compact, WriteTemp, Replace, WriteTempFails, Bind, recorded,
     Lines, Files
<1>2. EmptyFile \in Files
  BY DEF EmptyFile, Files
<1>3. ASSUME NEW file PROVE FileOf(Kept(p, file)) \in Files
  BY KeptRecords, WrittenFile DEF Files, FileOver
<1>4. FilesOK'
  <2>1. /\ submissions' \in {submissions} \cup {temp[f] : f \in {"submissions", "results"}}
        /\ results' \in {results} \cup {temp[f] : f \in {"submissions", "results"}}
    BY DEF ReadSubmissions, ReadResults, Compact, WriteTemp, Replace, WriteTempFails, Bind, files
  <2>2. \/ temp' = temp
        \/ \E f \in {"submissions", "results"} : \E g \in {EmptyFile, FileOf(Kept(p, f))} :
             temp' = [temp EXCEPT ![f] = g]
    BY DEF ReadSubmissions, ReadResults, Compact, WriteTemp, Replace, WriteTempFails, Bind, files
  <2>3. temp' \in [{"submissions", "results"} -> Files]
    BY <1>2, <1>3, <2>2 DEF FilesOK
  <2>. QED
    BY <1>1, <2>1, <2>3 DEF FilesOK, recorded
<1>5. CASE \E how \in Ended : End(p, how)
  <2>1. PICK how \in Ended : End(p, how)
    BY <1>5
  <2>. QED
    BY <1>1, <1>4, <2>1, EndsWell
<1>6. CASE ReadSubmissions(p) /\ ~ \E how \in Ended : End(p, how)
  <2>1. /\ phase' = [phase EXCEPT ![p] = "read_results"] /\ phase[p] = "read_submissions"
        /\ memory' = [memory EXCEPT ![p] = ReadInto(submissions, memory[p])]
        /\ UNCHANGED <<config, recovering, unsaved>>
    BY <1>6 DEF ReadSubmissions, Move, ProcessesOK, Ended
  <2>2. /\ ReadInto(submissions, memory[p]) \in [Jobs -> Lines \cup Range(NoRecords)]
        /\ \A j \in Jobs : ReadInto(submissions, memory[p])[j].job = j
    BY ReadsWell DEF FilesOK
  <2>3. "read_results" \in Reading /\ "read_results" \notin Ended /\ "read_submissions" \notin Ended
    BY DEF Reading, Ended
  <2>4. ProcessesOK'
    BY <1>1, <2>1, <2>2, <2>3 DEF ProcessesOK
  <2>. QED
    BY <1>4, <2>4
<1>7. CASE ReadResults(p) /\ ~ \E how \in Ended : End(p, how)
  <2>. DEFINE read == ReadInto(results, memory[p])
              lost == {j \in Jobs : read[j].status \in Pending}
              new  == [j \in Jobs |-> IF j \in lost THEN [read[j] EXCEPT !.status = "failed"]
                                      ELSE read[j]]
  <2>1. /\ phase' = [phase EXCEPT ![p] = "recovering"] /\ phase[p] = "read_results"
        /\ memory' = [memory EXCEPT ![p] = new]
        /\ recovering' = [recovering EXCEPT ![p] = lost]
        /\ UNCHANGED <<config, unsaved>>
    BY <1>7 DEF ReadResults, Move, ProcessesOK, Ended
  <2>2. read \in [Jobs -> Lines \cup Range(NoRecords)] /\ \A j \in Jobs : read[j].job = j
    BY ReadsWell DEF FilesOK
  <2>. HIDE DEF read
  <2>3. \A j \in Jobs : new[j] \in Lines \cup Range(NoRecords) /\ new[j].job = j
    <3>. TAKE j \in Jobs
    <3>1. CASE j \in lost
      <4>1. read[j] \in Lines
        BY <2>2, <3>1 DEF NoRecords, Range, Record, Pending
      <4>. QED
        BY <2>2, <3>1, <4>1 DEF Lines, Terminal
    <3>. QED
      BY <2>2, <3>1
  <2>4. "recovering" \in Writing /\ "recovering" \notin Ended /\ "read_results" \notin Ended
    BY DEF Writing, Ended
  <2>5. new \in [Jobs -> Lines \cup Range(NoRecords)] /\ lost \subseteq Jobs
    BY <2>3
  <2>. HIDE DEF new, lost
  <2>6. ProcessesOK'
    BY <1>1, <2>1, <2>3, <2>4, <2>5 DEF ProcessesOK
  <2>. QED
    BY <1>4, <2>6
<1>8. CASE Bind(p)
  <2>1. NoRecords \in [Jobs -> Lines \cup Range(NoRecords)] /\ \A j \in Jobs : NoRecords[j].job = j
    BY DEF NoRecords, Record, Range
  <2>2. "serving" \in Running /\ "serving" \notin Ended /\ "loaded" \notin Ended
    BY DEF Running, Ended
  <2>3. ProcessesOK'
    BY <1>1, <1>8, <2>1, <2>2 DEF ProcessesOK, Bind, Move
  <2>. QED
    BY <1>4, <2>3
<1>9. CASE Compact(p) /\ ~ \E how \in Ended : End(p, how)
  <2>1. UNCHANGED <<config, memory, recovering, unsaved>>
        /\ \E from \in Writing, to \in Writing \cup Running : Move(p, from, to)
    BY <1>9 DEF Compact, WriteTemp, Replace, WriteTempFails, Writing, Running, Ended
  <2>2. PICK from \in Writing, to \in Writing \cup Running : Move(p, from, to)
    BY <2>1
  <2>3. from \notin Ended
    BY Phases
  <2>. QED
    BY <1>1, <1>4, <2>1, <2>2, <2>3, MovesWell DEF recorded
<1>. QED
  BY <1>5, <1>6, <1>7, <1>8, <1>9
\* The steps that stamp a record.
LEMMA StampingTypes ==
    ASSUME TypeOK, NEW p \in Processes, NEW j \in Jobs,
           Recover(p, j) \/ RecoverFails(p, j) \/ Submit(p, j)
             \/ \E s \in Terminal : Finish(p, j, s)
    PROVE  TypeOK'
<1>. USE DEF TypeOK
<1>1. /\ clock' = clock + 1 /\ stamp' = [stamp EXCEPT ![j] = clock + 1]
      /\ UNCHANGED <<submissions, temp, enqueued, starts>> /\ cut' \in {cut, TRUE}
  BY DEF Recover, RecoverFails, Submit, Finish, Remember, files
<1>2. /\ clock' \in Nat /\ Lines \subseteq Lines' /\ Files \subseteq Files' /\ 0..clock \subseteq 0..clock'
      /\ clock + 1 \in 0..clock'
      /\ \A s \in Pending \cup Terminal : Record(j, s, clock + 1) \in Lines'
  BY <1>1, ClockGrows DEF FilesOK
<1>. DEFINE r == Record(j, "failed", clock + 1)
            A == Lines'
<1>3. r \in A /\ Files' = FileOver(A)
  BY <1>2 DEF Terminal, Files, FileOver
<1>4. results' \in {results, AppendLine(results, r)} \cup CutShort(results, r)
  BY DEF Recover, RecoverFails, Submit, Finish, files
<1>5. results' \in Files'
  <2>1. results \in FileOver(A)
    BY <1>2, <1>3 DEF FilesOK
  <2>. HIDE DEF A, r
  <2>2. AppendLine(results, r) \in FileOver(A) /\ CutShort(results, r) \subseteq FileOver(A)
    BY <1>3, <2>1, AppendedFile
  <2>. QED
    BY <1>3, <1>4, <2>1, <2>2
<1>6. FilesOK'
  <2>1. stamp' \in [Jobs -> 0..clock']
    BY <1>1, <1>2 DEF FilesOK
  <2>2. submissions' \in Files' /\ temp' \in [{"submissions", "results"} -> Files']
    BY <1>1, <1>2 DEF FilesOK
  <2>. QED
    BY <1>1, <1>2, <1>5, <2>1, <2>2 DEF FilesOK
<1>7. CASE RecoverFails(p, j)
  <2>1. End(p, "io_error") /\ "io_error" \in Ended
    BY <1>7 DEF RecoverFails, Ended
  <2>. QED
    BY <1>2, <1>6, <2>1, EndsWell
<1>8. CASE Recover(p, j) \/ Submit(p, j) \/ \E s \in Terminal : Finish(p, j, s)
  <2>1. PICK s \in Pending \cup Terminal :
          /\ UNCHANGED <<phase, config>>
          /\ memory' = [memory EXCEPT ![p][j] = Record(j, s, clock + 1)]
          /\ recovering' \in {recovering, [recovering EXCEPT ![p] = @ \ {j}]}
          /\ unsaved' \in {unsaved} \cup
               {[unsaved EXCEPT ![p] = @ \cup {<<f, Record(j, s, clock + 1)>>}] :
                   f \in {"submissions", "results"}}
    BY <1>8 DEF Recover, Submit, Finish, Remember, Pending, Terminal
  <2>. DEFINE q == Record(j, s, clock + 1)
  <2>2. q \in A /\ q.job = j
    BY <1>2 DEF Record
  <2>. HIDE DEF q, A
  <2>3. /\ memory' \in [Processes -> [Jobs -> A \cup Range(NoRecords)]]
        /\ \A o \in Processes, k \in Jobs : memory'[o][k].job = k
    BY <1>2, <2>1, <2>2 DEF ProcessesOK, q, A
  <2>4. recovering' \in [Processes -> SUBSET Jobs]
    <3>1. recovering \in [Processes -> SUBSET Jobs]
      BY DEF ProcessesOK
    <3>2. [recovering EXCEPT ![p] = @ \ {j}] \in [Processes -> SUBSET Jobs]
      BY <3>1
    <3>. QED
      BY <2>1, <3>1, <3>2
  <2>5. unsaved' \in [Processes -> SUBSET ({"submissions", "results"} \X A)]
    <3>1. unsaved \in [Processes -> SUBSET ({"submissions", "results"} \X A)]
      BY <1>2 DEF ProcessesOK, A
    <3>2. \A f \in {"submissions", "results"} : <<f, q>> \in {"submissions", "results"} \X A
      BY <2>2
    <3>. QED
      BY <2>1, <3>1, <3>2 DEF q
  <2>6. ProcessesOK'
    BY <2>1, <2>3, <2>4, <2>5 DEF ProcessesOK, A
  <2>. QED
    BY <1>6, <2>6
<1>. QED
  BY <1>7, <1>8

\* An append returns, with or without the whole line.
LEMMA SavingTypes ==
    ASSUME TypeOK, NEW p \in Processes, NEW u \in unsaved[p], Save(p, u) \/ SaveFails(p, u)
    PROVE  TypeOK'
<1>. USE DEF TypeOK
<1>1. /\ UNCHANGED <<phase, config, memory, recovering, temp, clock, stamp, starts>>
      /\ unsaved' = [unsaved EXCEPT ![p] = @ \ {u}]
      /\ cut' \in {cut, TRUE}
      /\ enqueued' \in {enqueued, enqueued \cup {u[2].job}}
  BY DEF Save, SaveFails, Saving
<1>2. Lines' = Lines /\ Files' = Files
  BY <1>1 DEF Lines, Files
<1>3. u[2] \in Lines /\ u[2].job \in Jobs
  BY DEF ProcessesOK, Lines
<1>. DEFINE r == u[2]
            A == Lines
<1>4. /\ submissions' \in {submissions, AppendLine(submissions, r)} \cup CutShort(submissions, r)
      /\ results' \in {results, AppendLine(results, r)} \cup CutShort(results, r)
  BY DEF Save, SaveFails
<1>5. submissions' \in Files /\ results' \in Files
  <2>1. Files = FileOver(A) /\ r \in A
    BY <1>3 DEF Files, FileOver
  <2>2. submissions \in FileOver(A) /\ results \in FileOver(A)
    BY <2>1 DEF FilesOK
  <2>. HIDE DEF A, r
  <2>. QED
    BY <1>4, <2>1, <2>2, AppendedFile
<1>6. FilesOK'
  BY <1>1, <1>2, <1>3, <1>5 DEF FilesOK
<1>7. ProcessesOK'
  BY <1>1, <1>2 DEF ProcessesOK
<1>. QED
  BY <1>6, <1>7

\* Every step keeps the types.
LEMMA TypeStep == TypeOK /\ StampsAgree /\ [Next]_vars => TypeOK'
<1>1. CASE UNCHANGED vars
  BY <1>1 DEF TypeOK, ProcessesOK, FilesOK, Files, Lines, vars, files, recorded
<1>. QED
  BY <1>1, CheckingTypes, LoadingTypes, StampingTypes, SavingTypes DEF Next
-----------------------------------------------------------------------------
(* Stamps.                                                                 *)

\* What is stamped was stamped by now.
LEMMA StampedByNow ==
    ASSUME TypeOK, NEW j, NEW t, Stamped(j, t), j \in Jobs
    PROVE  t \in 1..clock
<1>1. \A f \in Files : Written(f, j, t) => t \in 1..clock
  BY DEF Files, Lines, Written, LinesOf
<1>2. ASSUME NEW p \in Processes, memory[p][j].status # "absent", memory[p][j].updated_at = t
      PROVE  t \in 1..clock
  BY <1>2, RecordInMemory DEF Lines
<1>3. ASSUME NEW p \in Processes, NEW u \in unsaved[p], u[2].updated_at = t PROVE t \in 1..clock
  BY <1>3 DEF TypeOK, ProcessesOK, Lines
<1>. QED
  BY <1>1, <1>2, <1>3 DEF Stamped, TypeOK, FilesOK

\* What appending a record to a file leaves of it.
LEMMA AppendedLines ==
    ASSUME NEW S, NEW f \in FileOver(S), NEW r, NEW g \in {AppendLine(f, r)} \cup CutShort(f, r),
           NEW j, NEW t, Written(g, j, t)
    PROVE  Written(f, j, t) \/ (r.job = j /\ r.updated_at = t)
<1>. DEFINE L == f.lines
<1>1. L \in Seq(S \cup {Torn})
  BY DEF FileOver
<1>2. g = f \/ \E x \in {r, Torn} : g.lines = Extend(f, x)
  BY DEF AppendLine, CutShort
<1>3. PICK i \in LinesOf(g, j) : g.lines[i].updated_at = t
  BY DEF Written
<1>4. CASE g = f
  BY <1>4
<1>5. ASSUME NEW x \in {r, Torn}, g.lines = Extend(f, x) PROVE Written(f, j, t) \/ (r.job = j /\ r.updated_at = t)
  <2>1. i \in DOMAIN Extend(f, x) /\ Extend(f, x)[i] # Torn /\ Extend(f, x)[i].job = j
    BY <1>3, <1>5 DEF LinesOf
  <2>2. (i \in DOMAIN L /\ Extend(f, x)[i] = L[i]) \/ Extend(f, x)[i] \in {x, Torn}
    <3>1. CASE f.ended
      <4>1. Extend(f, x) = Append(L, x)
        BY <3>1 DEF Extend
      <4>. HIDE DEF L
      <4>. QED
        BY <1>1, <2>1, <4>1
    <3>2. CASE ~f.ended
      <4>1. Extend(f, x) = [L EXCEPT ![Len(L)] = Torn]
        BY <3>2 DEF Extend
      <4>. HIDE DEF L
      <4>. QED
        BY <1>1, <2>1, <4>1
    <3>. QED
      BY <3>1, <3>2
  <2>3. CASE i \in DOMAIN L /\ Extend(f, x)[i] = L[i]
    BY <1>3, <1>5, <2>1, <2>3 DEF Written, LinesOf
  <2>4. CASE Extend(f, x)[i] \in {x, Torn}
    BY <1>3, <1>5, <2>1, <2>4
  <2>. QED
    BY <2>2, <2>3, <2>4
<1>. QED
  BY <1>2, <1>4, <1>5

\* Compaction and an empty file bring no stamps.
LEMMA CompactedLines ==
    ASSUME TypeOK, StampsAgree, NEW p \in Processes, NEW file, NEW j \in Jobs, NEW t,
           Written(FileOf(Kept(p, file)), j, t) \/ Written(EmptyFile, j, t)
    PROVE  Stamped(j, t)
<1>1. ~Written(EmptyFile, j, t)
  BY DEF Written, LinesOf, EmptyFile
<1>. DEFINE F == FileOf(Kept(p, file))
<1>2. PICK i \in LinesOf(F, j) : F.lines[i].updated_at = t
  BY <1>1 DEF Written
<1>3. F.lines[i] \in Kept(p, file)
  BY <1>2, KeptRecords, WrittenFile DEF LinesOf
<1>4. PICK k \in Jobs : F.lines[i] = memory[p][k] /\ memory[p][k].status # "absent"
  BY <1>3, KeptRecords
<1>5. k = j
  BY <1>2, <1>4, RecordInMemory DEF LinesOf
<1>. QED
  BY <1>2, <1>4, <1>5, RecordInMemory
\* What load_jobs reads is stamped as it was.
LEMMA ReadStamps ==
    ASSUME TypeOK, NEW p \in Processes, NEW j \in Jobs, NEW f \in {submissions, results},
           ReadInto(f, memory[p])[j].status # "absent"
    PROVE  Stamped(j, ReadInto(f, memory[p])[j].updated_at)
<1>1. f \in FileOver(Lines) /\ j \in DOMAIN memory[p]
  BY DEF TypeOK, ProcessesOK, FilesOK, Files, FileOver
<1>2. CASE LinesOf(f, j) = {}
  BY <1>1, <1>2, ReadRecord DEF Stamped
<1>3. CASE LinesOf(f, j) # {}
  <2>1. PICK i \in LinesOf(f, j) : ReadInto(f, memory[p])[j] = f.lines[i]
    BY <1>1, <1>3, ReadRecord
  <2>. QED
    BY <2>1 DEF Stamped, Written
<1>. QED
  BY <1>2, <1>3

\* Steps that do not stamp.
LEMMA SameStamps ==
    ASSUME TypeOK, StampsAgree, NEW p \in Processes, NEW j \in Jobs, NEW t,
           \/ LoadConfig(p) \/ PrepareConfig(p) \/ OpenQueue(p) \/ BeginCompaction(p)
           \/ BindFails(p) \/ Drain(p) \/ Stop(p)
           \/ ReadSubmissions(p) \/ ReadResults(p) \/ Compact(p) \/ Bind(p)
           \/ \E u \in unsaved[p] : Save(p, u) \/ SaveFails(p, u),
           Stamped(j, t)'
    PROVE  Stamped(j, t)
<1>1. \A q \in Processes : unsaved'[q] \subseteq unsaved[q]
  <2>1. unsaved \in [Processes -> SUBSET ({"submissions", "results"} \X Lines)]
    BY DEF TypeOK, ProcessesOK
  <2>2. \/ unsaved' = unsaved
        \/ unsaved' = [unsaved EXCEPT ![p] = {}]
        \/ \E u \in unsaved[p] : unsaved' = [unsaved EXCEPT ![p] = @ \ {u}]
    BY DEF LoadConfig, PrepareConfig, OpenQueue, BeginCompaction, BindFails, Drain, Stop,
       ReadSubmissions, ReadResults, Compact, WriteTemp, Replace, WriteTempFails, Bind, Save, SaveFails,
       Saving, End
  <2>. QED
    BY <2>1, <2>2
<1>2. ASSUME NEW q \in Processes, memory'[q][j].status # "absent"
      PROVE  Stamped(j, memory'[q][j].updated_at)
  <2>1. NoRecords[j].status = "absent"
    BY DEF NoRecords, Record
  <2>2. \/ memory'[q][j] \in {memory[q][j], NoRecords[j]}
        \/ q = p /\ memory'[q][j] = ReadInto(submissions, memory[p])[j]
        \/ q = p /\ memory'[q][j] = ReadInto(results, memory[p])[j]
        \/ q = p /\ memory'[q][j] = [ReadInto(results, memory[p])[j] EXCEPT !.status = "failed"]
              /\ ReadInto(results, memory[p])[j].status \in Pending
    <3>1. CASE memory' = memory \/ memory' = [memory EXCEPT ![p] = NoRecords]
      BY <3>1 DEF TypeOK, ProcessesOK
    <3>2. CASE ReadSubmissions(p) /\ memory' = [memory EXCEPT ![p] = ReadInto(submissions, @)]
      BY <3>2 DEF TypeOK, ProcessesOK
    <3>3. CASE ReadResults(p) /\ memory' # memory /\ memory' # [memory EXCEPT ![p] = NoRecords]
      <4>. DEFINE read == ReadInto(results, memory[p])
                  new  == [k \in Jobs |-> IF k \in {k2 \in Jobs : read[k2].status \in Pending}
                                            THEN [read[k] EXCEPT !.status = "failed"] ELSE read[k]]
      <4>1. memory' = [memory EXCEPT ![p] = new]
        BY <3>3 DEF ReadResults, End
      <4>2. new[j] = read[j] \/ (read[j].status \in Pending /\ new[j] = [read[j] EXCEPT !.status = "failed"])
        OBVIOUS
      <4>. HIDE DEF new
      <4>. QED
        BY <4>1, <4>2 DEF TypeOK, ProcessesOK
    <3>. QED
      BY <3>1, <3>2, <3>3 DEF LoadConfig, PrepareConfig, OpenQueue, BeginCompaction, BindFails, Drain, Stop,
         ReadSubmissions, ReadResults, Compact, WriteTemp, Replace, WriteTempFails, Bind, Save, SaveFails,
         Saving, End
  <2>3. CASE memory'[q][j] \in {memory[q][j], NoRecords[j]}
    BY <1>2, <2>1, <2>3, RecordInMemory
  <2>4. CASE memory'[q][j] \in {ReadInto(submissions, memory[p])[j], ReadInto(results, memory[p])[j]}
    BY <1>2, <2>4, ReadStamps
  <2>5. CASE /\ memory'[q][j] = [ReadInto(results, memory[p])[j] EXCEPT !.status = "failed"]
             /\ ReadInto(results, memory[p])[j].status \in Pending
    <3>1. memory'[q][j].updated_at = ReadInto(results, memory[p])[j].updated_at
      <4>. DEFINE x == ReadInto(results, memory[p])[j]
      <4>1. x \in Lines \cup Range(NoRecords) /\ x.status \in Pending
        BY <2>5, ReadsWell DEF TypeOK, FilesOK
      <4>2. memory'[q][j] = [x EXCEPT !.status = "failed"]
        BY <2>5
      <4>. HIDE DEF x
      <4>3. x \in Lines
        BY <4>1 DEF NoRecords, Range, Record, Pending
      <4>4. memory'[q][j].updated_at = x.updated_at
        BY <4>2, <4>3 DEF Lines
      <4>. QED
        BY <4>4 DEF x
    <3>. QED
      BY <2>5, <3>1, ReadStamps DEF Pending
  <2>. QED
    BY <2>2, <2>3, <2>4, <2>5
<1>3. CASE Compact(p)
  <2>1. \A f \in {submissions', results'} : f \in {submissions, results} \cup {temp[n] : n \in {"submissions", "results"}}
    BY <1>3 DEF Compact, WriteTemp, Replace, WriteTempFails
  <2>2. \A n \in DOMAIN temp' : \/ temp'[n] \in {temp[n], EmptyFile}
                              \/ \E file \in {"submissions", "results"} : temp'[n] = FileOf(Kept(p, file))
    BY <1>3 DEF Compact, WriteTemp, Replace, WriteTempFails, TypeOK, FilesOK
  <2>3. DOMAIN temp = {"submissions", "results"} /\ DOMAIN temp' = DOMAIN temp
    BY <1>3 DEF Compact, WriteTemp, Replace, WriteTempFails, TypeOK, FilesOK
  <2>4. Written(submissions, j, t)' \/ Written(results, j, t)' => Stamped(j, t)
    BY <2>1, <2>3 DEF Stamped
  <2>5. ASSUME NEW n \in DOMAIN temp', Written(temp'[n], j, t) PROVE Stamped(j, t)
    BY <2>2, <2>3, <2>5, CompactedLines DEF Stamped
  <2>. QED
    BY <1>1, <1>2, <2>4, <2>5 DEF Stamped
<1>4. CASE UNCHANGED files
  BY <1>1, <1>2, <1>4 DEF Stamped, files
<1>5. ASSUME NEW u \in unsaved[p], Save(p, u) \/ SaveFails(p, u) PROVE Stamped(j, t)
  <2>1. /\ submissions' \in {submissions, AppendLine(submissions, u[2])} \cup CutShort(submissions, u[2])
        /\ results' \in {results, AppendLine(results, u[2])} \cup CutShort(results, u[2])
        /\ temp' = temp
    BY <1>5 DEF Save, SaveFails, Saving
  <2>2. submissions \in FileOver(Lines) /\ results \in FileOver(Lines)
    BY DEF TypeOK, FilesOK, Files, FileOver
  <2>3. u[2].job = j /\ u[2].updated_at = t => Stamped(j, t)
    BY DEF Stamped
  <2>4. Written(submissions', j, t) \/ Written(results', j, t) => Stamped(j, t)
    <3>1. Written(submissions', j, t) => Written(submissions, j, t) \/ (u[2].job = j /\ u[2].updated_at = t)
      BY <2>1, <2>2, AppendedLines
    <3>2. Written(results', j, t) => Written(results, j, t) \/ (u[2].job = j /\ u[2].updated_at = t)
      BY <2>1, <2>2, AppendedLines
    <3>. QED
      BY <2>3, <3>1, <3>2 DEF Stamped
  <2>. QED
    BY <1>1, <1>2, <2>1, <2>4 DEF Stamped
<1>. QED
  BY <1>3, <1>4, <1>5 DEF LoadConfig, PrepareConfig, OpenQueue, BeginCompaction, BindFails, Drain, Stop,
     ReadSubmissions, ReadResults, Bind
\* The steps that stamp a record stamp that of one job.
LEMMA NewStamp ==
    ASSUME TypeOK, NEW p \in Processes, NEW k \in Jobs, NEW j \in Jobs, NEW t,
           Recover(p, k) \/ RecoverFails(p, k) \/ Submit(p, k)
             \/ \E s \in Terminal : Finish(p, k, s),
           Stamped(j, t)'
    PROVE  Stamped(j, t) \/ (j = k /\ t = clock + 1)
<1>1. PICK s \in Pending \cup Terminal :
        /\ \/ memory' = [memory EXCEPT ![p][k] = Record(k, s, clock + 1)]
           \/ memory' = [memory EXCEPT ![p] = NoRecords]
        /\ \/ unsaved' = unsaved
           \/ unsaved' = [unsaved EXCEPT ![p] = {}]
           \/ \E f \in {"submissions", "results"} :
                unsaved' = [unsaved EXCEPT ![p] = @ \cup {<<f, Record(k, s, clock + 1)>>}]
        /\ results' \in {results, AppendLine(results, Record(k, s, clock + 1))}
                         \cup CutShort(results, Record(k, s, clock + 1))
        /\ UNCHANGED <<submissions, temp>>
  <2>1. "failed" \in Terminal /\ "queued" \in Pending
    BY DEF Terminal, Pending
  <2>2. CASE Recover(p, k) \/ RecoverFails(p, k)
    BY <2>1, <2>2 DEF Recover, RecoverFails, Remember, End
  <2>3. CASE Submit(p, k)
    BY <2>1, <2>3 DEF Submit, Remember, files
  <2>4. CASE \E s \in Terminal : Finish(p, k, s)
    <3>1. PICK s \in Terminal : Finish(p, k, s)
      BY <2>4
    <3>. QED
      BY <3>1 DEF Finish, Remember, files
  <2>. QED
    BY <2>2, <2>3, <2>4
<1>. DEFINE r == Record(k, s, clock + 1)
<1>2. r.job = k /\ r.updated_at = clock + 1 /\ r.status \in Pending \cup Terminal
  BY DEF Record
<1>. HIDE DEF r
<1>3. ASSUME NEW q \in Processes, memory'[q][j].status # "absent", memory'[q][j].updated_at = t
      PROVE  Stamped(j, t) \/ (j = k /\ t = clock + 1)
  <2>1. NoRecords[j].status = "absent"
    BY DEF NoRecords, Record
  <2>2. memory'[q][j] \in {memory[q][j], NoRecords[j]} \/ (j = k /\ memory'[q][j] = r)
    <3>1. memory \in [Processes -> [Jobs -> Lines \cup Range(NoRecords)]]
      BY DEF TypeOK, ProcessesOK
    <3>2. memory' \in {memory, [memory EXCEPT ![p][k] = r], [memory EXCEPT ![p] = NoRecords]}
      BY <1>1 DEF r
    <3>. QED
      BY <3>1, <3>2
  <2>. QED
    BY <1>2, <1>3, <2>1, <2>2 DEF Stamped
<1>4. ASSUME NEW q \in Processes, NEW u \in unsaved'[q], u[2].job = j, u[2].updated_at = t
      PROVE  Stamped(j, t) \/ (j = k /\ t = clock + 1)
  <2>1. u \in unsaved[q] \/ u[2] = r
    <3>1. \/ unsaved'[q] \subseteq unsaved[q]
          \/ \E f \in {"submissions", "results"} : unsaved'[q] = unsaved[q] \cup {<<f, r>>}
      BY <1>1 DEF TypeOK, ProcessesOK, r
    <3>. QED
      BY <3>1
  <2>. QED
    BY <1>2, <1>4, <2>1 DEF Stamped
<1>5. Written(results', j, t) => Written(results, j, t) \/ (j = k /\ t = clock + 1)
  <2>1. results \in FileOver(Lines)
    BY DEF TypeOK, FilesOK, Files, FileOver
  <2>. QED
    BY <1>1, <1>2, <2>1, AppendedLines DEF r
<1>. QED
  BY <1>1, <1>3, <1>4, <1>5 DEF Stamped

\* Every step keeps the stamps of different jobs apart.
LEMMA StampStep == TypeOK /\ StampsAgree /\ [Next]_vars => StampsAgree'
<1>. SUFFICES ASSUME TypeOK, StampsAgree, [Next]_vars PROVE StampsAgree'
  OBVIOUS
<1>1. TypeOK'
  BY TypeStep
<1>2. \A j \in Jobs : \A t : Stamped(j, t) => t \in 1..clock
  BY StampedByNow
<1>3. CASE \A j \in Jobs : \A t \in 1..clock' : Stamped(j, t)' => Stamped(j, t)
  BY <1>2, <1>3 DEF StampsAgree
<1>4. CASE \E k \in Jobs : \A j \in Jobs : \A t \in 1..clock' :
             Stamped(j, t)' => Stamped(j, t) \/ (j = k /\ t = clock + 1)
  <2>1. clock \in Nat
    BY DEF TypeOK, FilesOK
  <2>. QED
    BY <1>2, <1>4, <2>1 DEF StampsAgree
<1>5. CASE UNCHANGED vars
  <2>1. \A j \in Jobs : \A t \in 1..clock' : Stamped(j, t)' => Stamped(j, t)
    BY <1>5 DEF Stamped, vars, files
  <2>. QED
    BY <1>3, <2>1
<1>6. CASE Next
  <2>1. PICK p \in Processes :
          \/ \/ LoadConfig(p) \/ PrepareConfig(p) \/ OpenQueue(p) \/ BeginCompaction(p)
             \/ BindFails(p) \/ Drain(p) \/ Stop(p)
             \/ ReadSubmissions(p) \/ ReadResults(p) \/ Compact(p) \/ Bind(p)
             \/ \E u \in unsaved[p] : Save(p, u) \/ SaveFails(p, u)
          \/ \E k \in Jobs : \/ Recover(p, k) \/ RecoverFails(p, k) \/ Submit(p, k)
                             \/ \E s \in Terminal : Finish(p, k, s)
    BY <1>6 DEF Next
  <2>. QED
    BY <1>3, <1>4, <2>1, SameStamps, NewStamp
<1>. QED
  BY <1>5, <1>6
-----------------------------------------------------------------------------
(* Settings and files along a run.                                         *)

\* A process checks its settings before it goes on, and keeps them.
LEMMA ConfigStep == TypeOK /\ ConfigAgrees /\ [Next]_vars => ConfigAgrees'
<1>. SUFFICES ASSUME TypeOK, ConfigAgrees, [Next]_vars, NEW q \in Processes
              PROVE  /\ phase'[q] \notin Ended =>
                          \E src \in Sources : ~ConfigRefused(src) /\ config'[q] = Effective(src)
                     /\ phase'[q] \notin Ended \cup {"configured"} => ModelFilesExist(config'[q])
                     /\ phase'[q] \in Reading \cup Writing \cup Running =>
                          config'[q].numbers.queue_size > 0
  BY DEF ConfigAgrees
<1>. USE DEF TypeOK, ProcessesOK, ConfigAgrees
<1>1. CASE phase'[q] = phase[q] /\ config'[q] = config[q]
  BY <1>1
<1>2. CASE phase'[q] \in Ended
  BY <1>2, Phases
<1>3. CASE /\ config'[q] = config[q]
           /\ phase[q] \in Reading \cup Writing \cup Running
           /\ phase'[q] \in Reading \cup Writing \cup Running
  BY <1>3, Phases DEF Reading, Writing, Running
<1>4. ASSUME LoadConfig(q) PROVE \/ phase'[q] \in Ended
                                \/ /\ phase'[q] = "configured"
                                   /\ \E src \in Sources : ~ConfigRefused(src) /\ config'[q] = Effective(src)
  BY <1>4 DEF LoadConfig, End, Ended
<1>5. ASSUME PrepareConfig(q) PROVE \/ phase'[q] \in Ended
                                   \/ /\ phase'[q] = "prepared" /\ config'[q] = config[q]
                                      /\ phase[q] = "configured" /\ ModelFilesExist(config[q])
  BY <1>5 DEF PrepareConfig, Move, End, Ended
<1>6. ASSUME OpenQueue(q) PROVE \/ phase'[q] \in Ended
                               \/ /\ phase'[q] = "read_submissions" /\ config'[q] = config[q]
                                  /\ phase[q] = "prepared" /\ config[q].numbers.queue_size > 0
  BY <1>6 DEF OpenQueue, Move, End, Ended
<1>7. CASE LoadConfig(q)
  BY <1>2, <1>4, <1>7 DEF Reading, Writing, Running
<1>8. CASE PrepareConfig(q)
  BY <1>2, <1>5, <1>8 DEF Ended, Reading, Writing, Running
<1>9. CASE OpenQueue(q)
  BY <1>2, <1>6, <1>9 DEF Ended
<1>10. CASE \/ ReadSubmissions(q) \/ ReadResults(q) \/ BeginCompaction(q) \/ Compact(q) \/ Bind(q)
            \/ BindFails(q) \/ Drain(q) \/ Stop(q)
            \/ \E j \in Jobs : RecoverFails(q, j)
  <2>1. \/ phase'[q] \in Ended
        \/ /\ config'[q] = config[q]
           /\ phase[q] \in Reading \cup Writing \cup Running
           /\ phase'[q] \in Reading \cup Writing \cup Running
    BY <1>10 DEF ReadSubmissions, ReadResults, BeginCompaction, Compact, WriteTemp, Replace, WriteTempFails,
       Bind, BindFails, Drain, Stop, RecoverFails, Move, End, Ended, Reading, Writing, Running
  <2>. QED
    BY <1>2, <1>3, <2>1
<1>11. CASE \E p \in Processes \ {q} :
             \/ LoadConfig(p) \/ PrepareConfig(p) \/ OpenQueue(p)
             \/ ReadSubmissions(p) \/ ReadResults(p) \/ BeginCompaction(p) \/ Compact(p) \/ Bind(p)
             \/ BindFails(p) \/ Drain(p) \/ Stop(p)
             \/ \E j \in Jobs : RecoverFails(p, j)
  <2>1. PICK p \in Processes \ {q} :
             \/ LoadConfig(p) \/ PrepareConfig(p) \/ OpenQueue(p)
             \/ ReadSubmissions(p) \/ ReadResults(p) \/ BeginCompaction(p) \/ Compact(p) \/ Bind(p)
             \/ BindFails(p) \/ Drain(p) \/ Stop(p)
             \/ \E j \in Jobs : RecoverFails(p, j)
    BY <1>11
  <2>2. phase'[q] = phase[q] /\ config'[q] = config[q]
    BY <2>1 DEF LoadConfig, PrepareConfig, OpenQueue,
       ReadSubmissions, ReadResults, BeginCompaction, Compact, WriteTemp, Replace, WriteTempFails,
       Bind, BindFails, Drain, Stop, RecoverFails, Move, End
  <2>. QED
    BY <1>1, <2>2
<1>12. CASE \E p \in Processes :
             \/ \E j \in Jobs : Recover(p, j) \/ Submit(p, j) \/ \E s \in Terminal : Finish(p, j, s)
             \/ \E u \in unsaved[p] : Save(p, u) \/ SaveFails(p, u)
  <2>1. UNCHANGED <<phase, config>>
    BY <1>12 DEF Recover, Submit, Finish, Save, SaveFails, Saving
  <2>. QED
    BY <1>1, <2>1
<1>13. CASE UNCHANGED vars
  BY <1>1, <1>13 DEF vars
<1>. QED
  BY <1>7, <1>8, <1>9, <1>10, <1>11, <1>12, <1>13 DEF Next

\* Whole files stay whole unless a write is cut short: an append adds one line,
\* and what compaction writes are records.
LEMMA FilesStep == TypeOK /\ StampsAgree /\ FilesAgree /\ [Next]_vars => FilesAgree'
<1>. SUFFICES ASSUME TypeOK, StampsAgree, FilesAgree, [Next]_vars PROVE FilesAgree'
  OBVIOUS
<1>. USE DEF TypeOK, ProcessesOK, FilesOK
<1>1. cut => cut'
  BY DEF Next, LoadConfig, PrepareConfig, OpenQueue, ReadSubmissions, ReadResults, BeginCompaction,
     Compact, WriteTemp, Replace, WriteTempFails, Bind, BindFails, Drain, Stop, RecoverFails, Recover,
     Submit, Finish, Save, SaveFails, vars
<1>2. CASE cut
  BY <1>1, <1>2 DEF FilesAgree
<1>3. CASE ~cut
  <2>1. /\ Whole(submissions) /\ Whole(results) /\ \A n \in {"submissions", "results"} : Whole(temp[n])
        /\ \A p \in Processes : phase[p] # "unreadable"
    BY <1>3 DEF FilesAgree
  <2>2. \A p \in Processes : phase'[p] # "unreadable"
    BY <2>1 DEF Whole, Next, LoadConfig, PrepareConfig, OpenQueue, ReadSubmissions, ReadResults,
       BeginCompaction, Compact, WriteTemp, Replace, WriteTempFails, Bind, BindFails, Drain, Stop,
       RecoverFails, Recover, Submit, Finish, Save, SaveFails, Saving, Move, End, vars
  <2>3. Whole(EmptyFile)
    BY DEF Whole, EmptyFile, Readable
  <2>4. ASSUME NEW p \in Processes, NEW file PROVE Whole(FileOf(Kept(p, file)))
    <3>1. \A i \in DOMAIN FileOf(Kept(p, file)).lines :
            FileOf(Kept(p, file)).lines[i] \in [job : Jobs, status : Pending \cup Terminal, updated_at : Nat]
      <4>1. \A i \in DOMAIN FileOf(Kept(p, file)).lines :
              FileOf(Kept(p, file)).lines[i] \in Kept(p, file)
        BY KeptRecords, WrittenFile
      <4>2. Kept(p, file) \subseteq Lines
        BY KeptRecords
      <4>3. Lines \subseteq [job : Jobs, status : Pending \cup Terminal, updated_at : Nat]
        BY DEF Lines, FilesOK
      <4>. QED
        BY <4>1, <4>2, <4>3
    <3>2. FileOf(Kept(p, file)).ended
      BY KeptRecords, WrittenFile
    <3>. QED
      BY <3>1, <3>2, StartupAssumption DEF Whole, Readable
  <2>5. ASSUME NEW f \in Files, Whole(f), NEW r, r \in [job : Jobs, status : Pending \cup Terminal, updated_at : Nat]
        PROVE  Whole(AppendLine(f, r))
    <3>. DEFINE A == Lines \cup {r}
    <3>1. f \in FileOver(A) /\ r \in A
      BY DEF Files, FileOver
    <3>. HIDE DEF A
    <3>. QED
      BY <2>5, <3>1, AppendedFile, StartupAssumption DEF Whole
  <2>6. CASE \E p \in Processes : Compact(p)
    <3>1. PICK p \in Processes : Compact(p)
      BY <2>6
    <3>2. \A f \in {submissions', results'} : f \in {submissions, results} \cup {temp[n] : n \in {"submissions", "results"}}
      BY <3>1 DEF Compact, WriteTemp, Replace, WriteTempFails
    <3>3. \A n \in DOMAIN temp' : \/ temp'[n] \in {temp[n], EmptyFile}
                                \/ \E file \in {"submissions", "results"} : temp'[n] = FileOf(Kept(p, file))
      BY <3>1 DEF Compact, WriteTemp, Replace, WriteTempFails
    <3>4. DOMAIN temp' = {"submissions", "results"}
      BY <3>1 DEF Compact, WriteTemp, Replace, WriteTempFails
    <3>5. \A n \in DOMAIN temp' : Whole(temp'[n])
      BY <2>1, <2>3, <2>4, <3>3, <3>4
    <3>6. Whole(submissions') /\ Whole(results')
      BY <2>1, <3>2
    <3>. QED
      BY <2>2, <3>5, <3>6 DEF FilesAgree
  <2>7. CASE UNCHANGED files
    BY <2>1, <2>2, <2>7 DEF FilesAgree, files
  <2>8. CASE cut'
    BY <2>8 DEF FilesAgree
  <2>9. CASE \E p \in Processes : \E j \in Jobs : Recover(p, j)
    <3>1. PICK p \in Processes, j \in Jobs : Recover(p, j)
      BY <2>9
    <3>2. Record(j, "failed", clock + 1) \in [job : Jobs, status : Pending \cup Terminal, updated_at : Nat]
      BY DEF Record, Terminal
    <3>3. Whole(results') /\ UNCHANGED <<submissions, temp>>
      BY <2>1, <2>5, <3>1, <3>2 DEF Recover
    <3>. QED
      BY <2>1, <2>2, <3>3 DEF FilesAgree
  <2>10. CASE \E p \in Processes : \E u \in unsaved[p] : Save(p, u)
    <3>0. PICK p \in Processes : \E u \in unsaved[p] : Save(p, u)
      BY <2>10
    <3>1. PICK u \in unsaved[p] : Save(p, u)
      BY <3>0
    <3>2. u[2] \in [job : Jobs, status : Pending \cup Terminal, updated_at : Nat]
      BY DEF Lines
    <3>3. Whole(submissions') /\ Whole(results') /\ temp' = temp
      BY <2>1, <2>5, <3>1, <3>2 DEF Save, Saving
    <3>. QED
      BY <2>1, <2>2, <3>3 DEF FilesAgree
  <2>. QED
    BY <2>6, <2>7, <2>8, <2>9, <2>10 DEF Next, LoadConfig, PrepareConfig, OpenQueue, ReadSubmissions,
       ReadResults, BeginCompaction, Bind, BindFails, Drain, Stop, RecoverFails, Submit, Finish,
       SaveFails, vars
<1>. QED
  BY <1>2, <1>3
-----------------------------------------------------------------------------

\* The invariant holds before the first start.
LEMMA StartupBegins == Init => StartupInv
<1>. SUFFICES ASSUME Init PROVE StartupInv
  OBVIOUS
<1>1. /\ phase = [p \in Processes |-> "stopped"] /\ "stopped" \in Ended
      /\ config = [p \in Processes |-> NoConfig]
      /\ memory = [p \in Processes |-> NoRecords]
      /\ recovering = [p \in Processes |-> {}] /\ unsaved = [p \in Processes |-> {}]
      /\ submissions = EmptyFile /\ results = EmptyFile
      /\ temp = [f \in {"submissions", "results"} |-> EmptyFile]
      /\ clock = 0 /\ stamp = [j \in Jobs |-> 0] /\ enqueued = {} /\ cut = FALSE /\ starts = 0
  BY DEF Init, Ended
<1>2. /\ EmptyFile \in Files /\ Whole(EmptyFile)
  BY DEF EmptyFile, Files, Whole, Readable
<1>3. NoRecords \in [Jobs -> Lines \cup Range(NoRecords)] /\ \A j \in Jobs : NoRecords[j].job = j
  BY DEF NoRecords, Record, Range
<1>4. ProcessesOK
  BY <1>1, <1>3 DEF ProcessesOK
<1>5. FilesOK
  <2>1. submissions \in Files /\ results \in Files
    BY <1>1, <1>2
  <2>2. temp \in [{"submissions", "results"} -> Files]
    BY <1>1, <1>2
  <2>3. clock \in Nat /\ stamp \in [Jobs -> 0..clock] /\ starts \in 0..MaxStarts
    BY <1>1, StartupAssumption
  <2>4. enqueued \subseteq Jobs /\ cut \in BOOLEAN
    BY <1>1
  <2>. QED
    BY <2>1, <2>2, <2>3, <2>4 DEF FilesOK
<1>6. StampsAgree
  BY <1>1 DEF StampsAgree
<1>7. ConfigAgrees
  BY <1>1 DEF ConfigAgrees, Reading, Writing, Running, Ended
<1>8. FilesAgree
  BY <1>1, <1>2 DEF FilesAgree
<1>. QED
  BY <1>4, <1>5, <1>6, <1>7, <1>8 DEF StartupInv, TypeOK

\* Reachable states satisfy StartupInv, whatever is found, stopped or cut short.
THEOREM StartupInvariance == Spec => []StartupInv
<1>1. StartupInv /\ [Next]_vars => StartupInv'
  BY TypeStep, StampStep, ConfigStep, FilesStep DEF StartupInv
<1>. QED
  BY <1>1, StartupBegins, PTL DEF Spec

\* Type correctness of processes, records and files (types/job.rs JobRecord).
THEOREM StartupTypeCorrect == Spec => []TypeOK
<1>1. StartupInv => TypeOK
  BY DEF StartupInv
<1>. QED
  BY <1>1, StartupInvariance, PTL

\* No process writes to the metadata files, or serves, with settings under
\* which the rest of the server cannot work (main.rs prepare_config,
\* build_runtime_parts, config.rs).
THEOREM SoundBeforeWritingCorrect == Spec => []SoundBeforeWriting
<1>1. StartupInv => SoundBeforeWriting
  <2>. SUFFICES ASSUME StartupInv, NEW p \in Processes, phase[p] \in Writing \cup Running
                PROVE  Sound(config[p])
    BY DEF SoundBeforeWriting
  <2>1. phase[p] \notin Ended \cup {"configured"}
    BY DEF Ended, Writing, Running
  <2>2. PICK src \in Sources : ~ConfigRefused(src) /\ config[p] = Effective(src)
    BY <2>1 DEF StartupInv, ConfigAgrees
  <2>3. ModelFilesExist(config[p]) /\ config[p].numbers.queue_size > 0
    BY <2>1 DEF StartupInv, ConfigAgrees
  <2>4. "queue_size" \in DOMAIN NumberDefault
    BY DEF NumberDefault
  <2>5. config[p].numbers["queue_size"] >= 1
    BY <2>2, <2>3, <2>4, EffectiveSettings
  <2>. QED
    BY <2>2, <2>3, <2>5, EffectiveSettings DEF Sound
<1>. QED
  BY <1>1, StartupInvariance, PTL

\* Stops leave files the next start can read, wherever they come; only a write
\* that was cut short does not (util.rs append_jsonl, jobs/store.rs
\* write_jsonl_records).
THEOREM ReadableUnlessCutCorrect == Spec => []ReadableUnlessCut
<1>1. StartupInv => ReadableUnlessCut
  BY DEF StartupInv, FilesAgree, ReadableUnlessCut, Whole
<1>. QED
  BY <1>1, StartupInvariance, PTL

-----------------------------------------------------------------------------
(* One process at a time on the data directory.                            *)

Alone == Processes = {TheProcess}

At(steps) == phase[TheProcess] \in steps
Known(j)  == memory[TheProcess][j]

Has(f, j)  == LinesOf(f, j) # {}
Line(f, j) == f.lines[Max(LinesOf(f, j))]

\* A job has at most one line in each file: one that says queued, and one with
\* its final status and its last stamp.
LinesAgree(j) ==
    /\ \A f \in {submissions, results} : \A i, k \in LinesOf(f, j) : i = k
    /\ Has(submissions, j) => Line(submissions, j).status = "queued"
    /\ Has(results, j) => /\ Line(results, j).status \in Terminal
                          /\ Line(results, j).updated_at = stamp[j]
    /\ Has(submissions, j) \/ Has(results, j) => j \in enqueued
    /\ j \in enqueued => stamp[j] # 0

\* What a process holds before it serves, and which of it only at some steps.
MemoryAgrees ==
    /\ ~At({"serving", "draining"}) => unsaved[TheProcess] = {}
    /\ ~At({"recovering"}) => recovering[TheProcess] = {}
    /\ At(Ended \cup Checking \cup {"read_submissions"}) => memory[TheProcess] = NoRecords
    /\ At({"read_results"}) => memory[TheProcess] = ReadInto(submissions, NoRecords)

\* From the first append of load_jobs on, memory is what the files say, but for
\* the jobs whose failure is still to be appended.
RecoveryAgrees(j) ==
    At(Writing) =>
        IF j \in recovering[TheProcess]
          THEN Has(submissions, j) /\ ~Has(results, j) /\ Known(j).status = "failed"
          ELSE Known(j) = OnDisk(j) /\ Known(j).status \in Terminal \cup {"absent"}

\* compact_metadata leaves no submissions, as all is finished by then, and
\* writes the results aside before they replace those there are.
CompactionAgrees ==
    /\ At(Writing \ {"recovering"}) =>
         config[TheProcess].numbers.metadata_retention_limit # 0
    /\ At({"replace_submissions"}) => \A j \in Jobs : ~Has(temp["submissions"], j)
    /\ At({"write_results", "replace_results"}) => \A j \in Jobs : ~Has(submissions, j)
    /\ At({"replace_results"}) => temp["results"] = FileOf(Kept(TheProcess, "results"))

\* While the process serves, a record it made is in memory as it was last
\* stamped, and its lines are those that were not still to be appended.
ServingAgrees(j) ==
    At({"serving", "draining"}) =>
        /\ Known(j).status \in {"absent", "queued"} \cup Terminal
        /\ Known(j).status # "absent" => Known(j).updated_at = stamp[j]
        /\ Known(j).status = "queued" =>
             ~Has(results, j) /\ (j \in enqueued => Has(submissions, j))
        /\ \A u \in unsaved[TheProcess] :
             u[2].job = j =>
               /\ u[2] = Known(j) /\ ~Has(results, j)
               /\ u[1] = "submissions" => u[2].status = "queued" /\ j \notin enqueued
               /\ u[1] = "results" => u[2].status \in Terminal /\ Has(submissions, j)

DirectoryAgrees ==
    /\ MemoryAgrees /\ CompactionAgrees
    /\ \A j \in Jobs : LinesAgree(j) /\ RecoveryAgrees(j) /\ ServingAgrees(j)

\* The inductive invariant of the directory, until a write is cut short.
DirectoryInv == cut \/ DirectoryAgrees

\* The line of a job is one of its lines.
LEMMA LineOfJob ==
    ASSUME NEW S, NEW f \in FileOver(S), NEW j, Has(f, j)
    PROVE  Max(LinesOf(f, j)) \in LinesOf(f, j) /\ Line(f, j) \in S /\ Line(f, j).job = j
<1>1. Len(f.lines) \in Nat /\ LinesOf(f, j) \in SUBSET (1..Len(f.lines))
  BY DEF FileOver, LinesOf
<1>2. Max(LinesOf(f, j)) \in LinesOf(f, j)
  BY <1>1, LastOf DEF Has
<1>3. \A i \in DOMAIN f.lines : f.lines[i] \in S \cup {Torn}
  BY DEF FileOver
<1>. QED
  BY <1>2, <1>3 DEF Line, LinesOf

\* What both files say, in terms of lines.
LEMMA DiskSays ==
    ASSUME NEW j \in Jobs
    PROVE  OnDisk(j) = IF Has(results, j) THEN Line(results, j)
                       ELSE IF Has(submissions, j) THEN Line(submissions, j) ELSE NoRecords[j]
BY DEF OnDisk, ReadInto, Has, Line, NoRecords

\* append_jsonl gives a job its first line and leaves the others theirs.
LEMMA FirstLine ==
    ASSUME NEW S, NEW f \in FileOver(S), f.ended, NEW r \in S, r # Torn, ~Has(f, r.job)
    PROVE  /\ Has(AppendLine(f, r), r.job) /\ Line(AppendLine(f, r), r.job) = r
           /\ \A i, k \in LinesOf(AppendLine(f, r), r.job) : i = k
           /\ \A j : j # r.job => /\ LinesOf(AppendLine(f, r), j) = LinesOf(f, j)
                                  /\ Has(AppendLine(f, r), j) <=> Has(f, j)
                                  /\ Has(f, j) => Line(AppendLine(f, r), j) = Line(f, j)
<1>. DEFINE g == AppendLine(f, r)
            L == f.lines
            n == Len(L) + 1
<1>1. L \in Seq(S \cup {Torn}) /\ Len(L) \in Nat
  BY DEF FileOver
<1>2. g.lines = Append(L, r)
  BY DEF AppendLine, Extend
<1>3. /\ DOMAIN Append(L, r) = 1..n /\ DOMAIN L = 1..Len(L)
      /\ Append(L, r)[n] = r /\ \A i \in DOMAIN L : Append(L, r)[i] = L[i]
  <2>. HIDE DEF L
  <2>. QED
    BY <1>1
<1>4. LinesOf(g, r.job) = {n}
  <2>1. \A i \in DOMAIN L : ~(L[i] # Torn /\ L[i].job = r.job)
    BY DEF Has, LinesOf
  <2>. HIDE DEF g, L
  <2>. QED
    BY <1>1, <1>2, <1>3, <2>1 DEF LinesOf
<1>5. \A j : j # r.job => LinesOf(g, j) = LinesOf(f, j)
  <2>. HIDE DEF g
  <2>. QED
    BY <1>1, <1>2, <1>3 DEF LinesOf
<1>6. g \in FileOver(S)
  BY AppendedFile
<1>7. Has(g, r.job) /\ Line(g, r.job) = r
  <2>1. Has(g, r.job)
    BY <1>4 DEF Has
  <2>2. Max(LinesOf(g, r.job)) = n
    BY <1>4, <1>6, <2>1, LineOfJob
  <2>. QED
    BY <1>2, <1>3, <2>1, <2>2 DEF Line
<1>8. ASSUME NEW j, j # r.job, Has(f, j) PROVE Line(g, j) = Line(f, j)
  <2>1. Max(LinesOf(f, j)) \in DOMAIN L
    BY <1>8, LineOfJob DEF LinesOf
  <2>. QED
    BY <1>2, <1>3, <1>5, <1>8, <2>1 DEF Line
<1>. QED
  BY <1>4, <1>5, <1>7, <1>8 DEF Has

\* write_jsonl_records gives every job one line, that of its record.
LEMMA LinesWritten ==
    ASSUME NEW S, Torn \notin S, NEW T \in SUBSET S, IsFiniteSet(T),
           \A r \in T : r.updated_at \in Nat,
           \A a, b \in T : a.updated_at = b.updated_at => a = b,
           \A a, b \in T : a.job = b.job => a = b
    PROVE  \A j : /\ Has(FileOf(T), j) <=> \E r \in T : r.job = j
                  /\ Has(FileOf(T), j) => Line(FileOf(T), j) \in T /\ Line(FileOf(T), j).job = j
                  /\ \A i, k \in LinesOf(FileOf(T), j) : i = k
<1>. DEFINE f == FileOf(T)
<1>1. /\ f \in FileOver(S)
      /\ \A i \in DOMAIN f.lines : f.lines[i] \in T
      /\ \A r \in T : \E i \in DOMAIN f.lines : f.lines[i] = r
      /\ \A i, k \in DOMAIN f.lines : f.lines[i] = f.lines[k] => i = k
  BY WrittenFile
<1>. HIDE DEF f
<1>2. \A j : LinesOf(f, j) = {i \in DOMAIN f.lines : f.lines[i].job = j}
  BY <1>1 DEF LinesOf
<1>. SUFFICES ASSUME NEW j
              PROVE  /\ Has(f, j) <=> \E r \in T : r.job = j
                     /\ Has(f, j) => Line(f, j) \in T /\ Line(f, j).job = j
                     /\ \A i, k \in LinesOf(f, j) : i = k
  BY DEF f
<1>3. Has(f, j) <=> \E r \in T : r.job = j
  BY <1>1, <1>2 DEF Has
<1>4. \A i, k \in LinesOf(f, j) : i = k
  BY <1>1, <1>2
<1>5. Has(f, j) => Line(f, j) \in T /\ Line(f, j).job = j
  BY <1>1, <1>2, LineOfJob DEF Line
<1>. QED
  BY <1>3, <1>4, <1>5

\* Two records that compaction keeps are of different jobs.
LEMMA KeptOnce ==
    ASSUME TypeOK, StampsAgree, NEW p \in Processes, NEW file
    PROVE  /\ \A r \in Kept(p, file) : r.job \in Jobs /\ r = memory[p][r.job]
           /\ \A j : /\ Has(FileOf(Kept(p, file)), j) <=> \E r \in Kept(p, file) : r.job = j
                     /\ Has(FileOf(Kept(p, file)), j) => Line(FileOf(Kept(p, file)), j) = memory[p][j]
                     /\ \A i, k \in LinesOf(FileOf(Kept(p, file)), j) : i = k
<1>. DEFINE T == Kept(p, file)
            A == Lines
<1>1. \A r \in T : r.job \in Jobs /\ r = memory[p][r.job]
  BY KeptRecords, RecordInMemory
<1>2. Torn \notin A
  BY StartupAssumption DEF TypeOK, FilesOK, Lines
<1>3. /\ T \in SUBSET A /\ IsFiniteSet(T) /\ \A r \in T : r.updated_at \in Nat
      /\ \A a, b \in T : a.updated_at = b.updated_at => a = b
  BY KeptRecords
<1>4. \A a, b \in T : a.job = b.job => a = b
  BY <1>1
<1>. HIDE DEF T, A
<1>5. \A j : /\ Has(FileOf(T), j) <=> \E r \in T : r.job = j
             /\ Has(FileOf(T), j) => Line(FileOf(T), j) \in T /\ Line(FileOf(T), j).job = j
             /\ \A i, k \in LinesOf(FileOf(T), j) : i = k
  BY <1>2, <1>3, <1>4, LinesWritten
<1>6. \A j : Has(FileOf(T), j) => Line(FileOf(T), j) = memory[p][j]
  BY <1>1, <1>5
<1>. QED
  BY <1>1, <1>5, <1>6 DEF T

-----------------------------------------------------------------------------

\* The files of a directory without torn lines.
LEMMA DirectoryFiles ==
    ASSUME TypeOK, FilesAgree, ~cut
    PROVE  /\ \A f \in {submissions, results} : f \in FileOver(Lines) /\ f.ended /\ Readable(f)
           /\ Torn \notin Lines
<1>1. submissions \in FileOver(Lines) /\ results \in FileOver(Lines)
  BY DEF TypeOK, FilesOK, Files, FileOver
<1>2. Torn \notin Lines
  BY StartupAssumption DEF TypeOK, FilesOK, Lines
<1>. QED
  BY <1>1, <1>2 DEF FilesAgree, Whole

\* The steps of a start, of load_jobs and of serving are different.
LEMMA StepsDiffer ==
    /\ \A x \in Ended \cup Checking \cup Reading :
         x \notin Writing \cup {"loaded", "serving", "draining"}
    /\ \A x \in Ended \cup Checking \cup {"read_submissions"} : x # "read_results"
    /\ \A x \in Writing \cup {"loaded", "serving", "draining"} : x \notin Ended \cup Checking \cup Reading
BY DEF Ended, Checking, Reading, Writing

\* What is said of lines stays where they, stamps and answers do.
LEMMA LinesStay ==
    ASSUME UNCHANGED <<submissions, results, stamp, enqueued>>, NEW j \in Jobs
    PROVE  /\ LinesAgree(j) => LinesAgree(j)'
           /\ OnDisk(j)' = OnDisk(j)
           /\ Has(submissions, j)' = Has(submissions, j) /\ Has(results, j)' = Has(results, j)
BY DEF LinesAgree, Has, Line, OnDisk, NoRecords

\* A process that ends leaves the files as they are, and nothing else.
LEMMA EndsAlone ==
    ASSUME Alone, TypeOK, DirectoryAgrees, NEW how \in Ended, End(TheProcess, how),
           UNCHANGED <<submissions, results, stamp, enqueued>>
    PROVE  DirectoryAgrees'
<1>1. /\ phase'[TheProcess] = how /\ memory'[TheProcess] = NoRecords
      /\ recovering'[TheProcess] = {} /\ unsaved'[TheProcess] = {}
  BY DEF Alone, End, TypeOK, ProcessesOK
<1>2. /\ how \notin Writing \cup {"serving", "draining", "read_results"}
      /\ how \notin {"replace_submissions", "write_results", "replace_results"}
  BY DEF Ended, Writing
<1>3. MemoryAgrees' /\ CompactionAgrees'
  BY <1>1, <1>2 DEF MemoryAgrees, CompactionAgrees, At
<1>4. \A j \in Jobs : LinesAgree(j)' /\ RecoveryAgrees(j)' /\ ServingAgrees(j)'
  BY <1>1, <1>2, LinesStay DEF DirectoryAgrees, RecoveryAgrees, ServingAgrees, At
<1>. QED
  BY <1>3, <1>4 DEF DirectoryAgrees

\* The steps before load_jobs.
LEMMA CheckingAlone ==
    ASSUME Alone, TypeOK, DirectoryAgrees, LoadConfig(TheProcess) \/ PrepareConfig(TheProcess)
             \/ OpenQueue(TheProcess)
    PROVE  DirectoryAgrees'
<1>1. UNCHANGED <<submissions, results, stamp, enqueued>>
  BY DEF LoadConfig, PrepareConfig, OpenQueue, files, recorded
<1>2. CASE End(TheProcess, "bad_settings")
  BY <1>1, <1>2, EndsAlone DEF Ended
<1>3. CASE ~End(TheProcess, "bad_settings")
  <2>1. /\ phase[TheProcess] \in Ended \cup Checking
        /\ \E to \in Checking \cup {"read_submissions"} : phase' = [phase EXCEPT ![TheProcess] = to]
        /\ UNCHANGED <<memory, recovering, unsaved>>
    BY <1>3 DEF LoadConfig, PrepareConfig, OpenQueue, Move, Checking
  <2>2. phase'[TheProcess] \in Checking \cup {"read_submissions"}
    BY <2>1 DEF Alone, TypeOK, ProcessesOK
  <2>3. /\ phase[TheProcess] \notin {"serving", "draining", "recovering"}
        /\ phase'[TheProcess] \notin Writing \cup {"serving", "draining", "recovering", "read_results"}
        /\ phase'[TheProcess] \notin {"replace_submissions", "write_results", "replace_results"}
    BY <2>1, <2>2 DEF Ended, Checking, Writing
  <2>4. MemoryAgrees' /\ CompactionAgrees'
    BY <2>1, <2>2, <2>3 DEF DirectoryAgrees, MemoryAgrees, CompactionAgrees, At
  <2>5. \A j \in Jobs : LinesAgree(j)' /\ RecoveryAgrees(j)' /\ ServingAgrees(j)'
    BY <1>1, <2>2, <2>3, LinesStay DEF DirectoryAgrees, RecoveryAgrees, ServingAgrees, At
  <2>. QED
    BY <2>4, <2>5 DEF DirectoryAgrees
<1>. QED
  BY <1>2, <1>3

\* load_jobs reads what the files say, and takes what is queued there for
\* interrupted.
LEMMA ReadingAlone ==
    ASSUME Alone, TypeOK, FilesAgree, ~cut, DirectoryAgrees,
           ReadSubmissions(TheProcess) \/ ReadResults(TheProcess)
    PROVE  DirectoryAgrees'
<1>1. UNCHANGED <<submissions, results, stamp, enqueued>>
  BY DEF ReadSubmissions, ReadResults, files, recorded
<1>2. CASE End(TheProcess, "unreadable")
  BY <1>1, <1>2, EndsAlone DEF Ended
<1>3. CASE ReadSubmissions(TheProcess) /\ ~End(TheProcess, "unreadable")
  <2>1. /\ phase[TheProcess] = "read_submissions" /\ phase'[TheProcess] = "read_results"
        /\ memory'[TheProcess] = ReadInto(submissions, memory[TheProcess])
        /\ UNCHANGED <<recovering, unsaved>>
    BY <1>3 DEF Alone, ReadSubmissions, Move, TypeOK, ProcessesOK
  <2>2. /\ memory[TheProcess] = NoRecords /\ recovering[TheProcess] = {} /\ unsaved[TheProcess] = {}
    BY <2>1 DEF DirectoryAgrees, MemoryAgrees, At
  <2>3. "read_results" \notin Writing \cup Ended \cup Checking
    BY DEF Writing, Ended, Checking
  <2>4. MemoryAgrees' /\ CompactionAgrees'
    BY <1>1, <2>1, <2>2, <2>3 DEF MemoryAgrees, CompactionAgrees, At, NoRecords
  <2>5. \A j \in Jobs : LinesAgree(j)' /\ RecoveryAgrees(j)' /\ ServingAgrees(j)'
    BY <1>1, <2>1, <2>3, LinesStay DEF DirectoryAgrees, RecoveryAgrees, ServingAgrees, At
  <2>. QED
    BY <2>4, <2>5 DEF DirectoryAgrees
<1>4. CASE ReadResults(TheProcess) /\ ~End(TheProcess, "unreadable")
  <2>. DEFINE read == ReadInto(results, memory[TheProcess])
              interrupted == {j \in Jobs : read[j].status \in Pending}
  <2>1. /\ phase[TheProcess] = "read_results" /\ phase'[TheProcess] = "recovering"
        /\ recovering'[TheProcess] = interrupted
        /\ memory'[TheProcess] =
             [j \in Jobs |-> IF j \in interrupted THEN [read[j] EXCEPT !.status = "failed"] ELSE read[j]]
        /\ UNCHANGED unsaved
    BY <1>4 DEF Alone, ReadResults, Move, TypeOK, ProcessesOK
  <2>2. read = ReadInto(results, ReadInto(submissions, NoRecords)) /\ unsaved[TheProcess] = {}
    BY <2>1 DEF DirectoryAgrees, MemoryAgrees, At
  <2>3. \A j \in Jobs : read[j] = OnDisk(j)
    BY <2>2 DEF OnDisk
  <2>4. \A j \in Jobs : read[j] \in Lines \cup {NoRecords[j]}
    BY <2>3, DiskSays, DirectoryFiles, LineOfJob
  <2>. HIDE DEF read
  <2>5. "recovering" \notin Ended \cup Checking \cup (Writing \ {"recovering"})
    BY DEF Ended, Checking, Writing
  <2>6. MemoryAgrees' /\ CompactionAgrees'
    BY <2>1, <2>2, <2>5 DEF MemoryAgrees, CompactionAgrees, At
  <2>7. ASSUME NEW j \in Jobs PROVE LinesAgree(j)' /\ RecoveryAgrees(j)' /\ ServingAgrees(j)'
    <3>1. LinesAgree(j) /\ LinesAgree(j)'
      BY <1>1, LinesStay DEF DirectoryAgrees
    <3>2. NoRecords[j].status = "absent"
      BY DEF NoRecords, Record
    <3>3. CASE j \in interrupted
      <4>1. read[j] \in Lines /\ read[j].status \in Pending
        BY <2>4, <3>2, <3>3 DEF Pending
      <4>2. memory'[TheProcess][j].status = "failed"
        BY <2>1, <3>3, <4>1 DEF Lines
      <4>3. ~Has(results, j) /\ Has(submissions, j)
        BY <2>3, <3>1, <3>2, <4>1, DiskSays DEF LinesAgree, Pending, Terminal
      <4>. QED
        BY <1>1, <2>1, <3>1, <3>3, <4>2, <4>3, LinesStay DEF RecoveryAgrees, ServingAgrees, At, Known
    <3>4. CASE j \notin interrupted
      <4>1. memory'[TheProcess][j] = OnDisk(j) /\ OnDisk(j).status \notin Pending
        BY <2>1, <2>3, <3>4
      <4>2. OnDisk(j).status \in Terminal \cup {"absent"}
        BY <3>1, <3>2, <4>1, DiskSays DEF LinesAgree, Pending
      <4>. QED
        BY <1>1, <2>1, <3>1, <3>4, <4>1, <4>2, LinesStay DEF RecoveryAgrees, ServingAgrees, At, Known
    <3>. QED
      BY <3>3, <3>4
  <2>. QED
    BY <2>6, <2>7 DEF DirectoryAgrees
<1>. QED
  BY <1>2, <1>3, <1>4

\* What a process makes is a record, and no torn line.
LEMMA RecordsAreWhole ==
    ASSUME TypeOK, NEW j \in Jobs, NEW s \in Pending \cup Terminal
    PROVE  /\ Record(j, s, clock + 1) \in [job : Jobs, status : Pending \cup Terminal, updated_at : Nat]
           /\ Record(j, s, clock + 1).job = j /\ Record(j, s, clock + 1).status = s
           /\ Record(j, s, clock + 1).updated_at = clock + 1
           /\ clock + 1 # 0
BY DEF Record, TypeOK, FilesOK

\* The append of a job's first line to one of the two files.
LEMMA FirstAppend ==
    ASSUME TypeOK, FilesAgree, ~cut, NEW f \in {submissions, results},
           NEW r \in [job : Jobs, status : Pending \cup Terminal, updated_at : Nat],
           NEW j, r.job = j, ~Has(f, j), NEW g, g = AppendLine(f, r)
    PROVE  /\ Has(g, j) /\ Line(g, j) = r
           /\ \A i, k \in LinesOf(g, j) : i = k
           /\ \A k : k # j => /\ LinesOf(g, k) = LinesOf(f, k)
                              /\ Has(g, k) <=> Has(f, k)
                              /\ Has(f, k) => Line(g, k) = Line(f, k)
<1>. DEFINE S == [job : Jobs, status : Pending \cup Terminal, updated_at : Nat]
            A == Lines
<1>1. A \subseteq S
  BY DEF TypeOK, FilesOK, Lines
<1>2. f \in FileOver(A) /\ f.ended
  BY DirectoryFiles
<1>3. r \in S /\ Torn \notin S
  BY StartupAssumption
<1>. HIDE DEF S, A
<1>4. f \in FileOver(S)
  BY <1>1, <1>2, LargerFiles
<1>5. r # Torn
  BY <1>3
<1>. QED
  BY <1>2, <1>3, <1>4, <1>5, FirstLine

\* The append of one recovered record.
LEMMA RecoverAlone ==
    ASSUME Alone, TypeOK, FilesAgree, ~cut, DirectoryAgrees, NEW j \in Jobs, Recover(TheProcess, j)
    PROVE  DirectoryAgrees'
<1>. DEFINE r == Record(j, "failed", clock + 1)
<1>1. /\ phase[TheProcess] = "recovering" /\ j \in recovering[TheProcess]
      /\ results' = AppendLine(results, r)
      /\ stamp' = [stamp EXCEPT ![j] = clock + 1]
      /\ memory' = [memory EXCEPT ![TheProcess][j] = r]
      /\ recovering' = [recovering EXCEPT ![TheProcess] = @ \ {j}]
      /\ UNCHANGED <<phase, config, unsaved, submissions, temp, enqueued>>
  BY DEF Recover, Remember
<1>2. /\ r \in [job : Jobs, status : Pending \cup Terminal, updated_at : Nat]
      /\ r.job = j /\ r.status = "failed" /\ r.updated_at = clock + 1 /\ clock + 1 # 0
  BY RecordsAreWhole DEF Terminal
<1>. HIDE DEF r
<1>3. "recovering" \in Writing \ (Ended \cup Checking \cup Reading) /\ "failed" \in Terminal
  BY DEF Writing, Ended, Checking, Reading, Terminal
<1>4. Has(submissions, j) /\ ~Has(results, j)
  BY <1>1, <1>3 DEF DirectoryAgrees, RecoveryAgrees, At
<1>5. /\ Has(results', j) /\ Line(results', j) = r
      /\ \A i, k \in LinesOf(results', j) : i = k
      /\ \A k : k # j => /\ LinesOf(results', k) = LinesOf(results, k)
                         /\ Has(results', k) <=> Has(results, k)
                         /\ Has(results, k) => Line(results', k) = Line(results, k)
  <2>1. results \in {submissions, results}
    OBVIOUS
  <2>2. r.job = j /\ ~Has(results, j)
    BY <1>2, <1>4
  <2>3. \A g : g = AppendLine(results, r) =>
          /\ Has(g, j) /\ Line(g, j) = r
          /\ \A i, k \in LinesOf(g, j) : i = k
          /\ \A k : k # j => /\ LinesOf(g, k) = LinesOf(results, k)
                             /\ Has(g, k) <=> Has(results, k)
                             /\ Has(results, k) => Line(g, k) = Line(results, k)
    BY <1>2, <2>1, <2>2, FirstAppend
  <2>. QED
    BY <1>1, <2>3
<1>6. /\ memory'[TheProcess][j] = r /\ stamp'[j] = clock + 1
      /\ recovering'[TheProcess] = recovering[TheProcess] \ {j}
      /\ \A k \in Jobs \ {j} : memory'[TheProcess][k] = memory[TheProcess][k] /\ stamp'[k] = stamp[k]
  BY <1>1 DEF Alone, TypeOK, ProcessesOK, FilesOK
<1>7. MemoryAgrees' /\ CompactionAgrees'
  BY <1>1, <1>3 DEF DirectoryAgrees, MemoryAgrees, CompactionAgrees, At, Reading
<1>8. ASSUME NEW k \in Jobs PROVE LinesAgree(k)' /\ RecoveryAgrees(k)' /\ ServingAgrees(k)'
  <2>1. LinesAgree(k) /\ RecoveryAgrees(k)
    BY DEF DirectoryAgrees
  <2>2. CASE k = j
    <3>1. LinesAgree(j)'
      BY <1>1, <1>2, <1>3, <1>4, <1>5, <1>6, <2>1, <2>2 DEF LinesAgree, Has, Line
    <3>2. OnDisk(j)' = r
      BY <1>5, DiskSays DEF OnDisk, ReadInto, Has, Line, NoRecords
    <3>. QED
      BY <1>1, <1>2, <1>3, <1>6, <2>2, <3>1, <3>2 DEF RecoveryAgrees, ServingAgrees, At, Known
  <2>3. CASE k # j
    <3>1. LinesAgree(k)'
      BY <1>1, <1>5, <1>6, <2>1, <2>3 DEF LinesAgree, Has, Line
    <3>2. OnDisk(k)' = OnDisk(k)
      BY <1>1, <1>5, <2>3 DEF OnDisk, ReadInto, Has, Line, NoRecords
    <3>. QED
      BY <1>1, <1>3, <1>5, <1>6, <2>1, <2>3, <3>1, <3>2 DEF RecoveryAgrees, ServingAgrees, At, Known, Has
  <2>. QED
    BY <2>2, <2>3
<1>. QED
  BY <1>7, <1>8 DEF DirectoryAgrees

\* Once all is recovered, nothing that is known is unfinished, and what is
\* finished stands in results.jsonl.
LEMMA AllFinished ==
    ASSUME DirectoryAgrees, At(Writing), recovering[TheProcess] = {}, NEW j \in Jobs
    PROVE  /\ Known(j) = OnDisk(j)
           /\ Has(submissions, j) => Has(results, j)
           /\ Has(results, j) => /\ Known(j) = Line(results, j)
                                 /\ Known(j).status \in Terminal /\ Known(j).updated_at = stamp[j]
           /\ ~Has(results, j) => Known(j) = NoRecords[j] /\ Known(j).status = "absent"
<1>1. LinesAgree(j) /\ Known(j) = OnDisk(j) /\ Known(j).status \in Terminal \cup {"absent"}
  BY DEF DirectoryAgrees, RecoveryAgrees
<1>2. NoRecords[j].status = "absent"
  BY DEF NoRecords, Record
<1>3. Has(submissions, j) => Has(results, j)
  BY <1>1, DiskSays DEF LinesAgree, Terminal
<1>. QED
  BY <1>1, <1>2, <1>3, DiskSays DEF LinesAgree

\* Compaction leaves the files as they are until it replaces them, and then
\* changes nothing they say of the jobs it keeps.
LEMMA CompactAlone ==
    ASSUME Alone, TypeOK, StampsAgree, FilesAgree, ~cut, DirectoryAgrees,
           BeginCompaction(TheProcess) \/ Compact(TheProcess)
    PROVE  DirectoryAgrees'
<1>1. UNCHANGED <<stamp, enqueued>>
  BY DEF BeginCompaction, Compact, WriteTemp, Replace, WriteTempFails, recorded
<1>2. CASE End(TheProcess, "io_error") /\ UNCHANGED <<submissions, results>>
  BY <1>1, <1>2, EndsAlone DEF Ended
<1>3. ASSUME NEW from, NEW to, Move(TheProcess, from, to), UNCHANGED <<config, memory, recovering, unsaved>>,
             from \in Writing, to \in Writing \cup {"loaded"}, to # "recovering"
      PROVE  /\ phase[TheProcess] = from /\ phase'[TheProcess] = to
             /\ unsaved[TheProcess] = {}
             /\ recovering[TheProcess] = {} => MemoryAgrees'
             /\ \A j \in Jobs : ServingAgrees(j)'
  <2>1. phase[TheProcess] = from /\ phase'[TheProcess] = to
    BY <1>3 DEF Move, Alone, TypeOK, ProcessesOK
  <2>2. unsaved[TheProcess] = {}
    BY <1>3, <2>1 DEF DirectoryAgrees, MemoryAgrees, At, Writing
  <2>3. to \notin Ended \cup Checking \cup Reading \cup {"serving", "draining"}
    BY <1>3 DEF Ended, Checking, Reading, Writing
  <2>. QED
    BY <1>3, <2>1, <2>2, <2>3 DEF MemoryAgrees, ServingAgrees, At, Reading
<1>4. ASSUME phase[TheProcess] \in Writing \ {"recovering"} PROVE recovering[TheProcess] = {}
  BY <1>4 DEF DirectoryAgrees, MemoryAgrees, At
<1>5. "loaded" \notin Writing /\ "recovering" \notin {"replace_submissions", "write_results", "replace_results"}
  BY DEF Writing
<1>6. CASE BeginCompaction(TheProcess)
  <2>. DEFINE to == IF config[TheProcess].numbers.metadata_retention_limit = 0
                      THEN "loaded" ELSE "write_submissions"
  <2>1. /\ recovering[TheProcess] = {} /\ Move(TheProcess, "recovering", to)
        /\ UNCHANGED <<config, memory, recovering, unsaved, submissions, results, temp>>
    BY <1>6 DEF BeginCompaction, files
  <2>2. "recovering" \in Writing /\ to \in Writing \cup {"loaded"} /\ to # "recovering"
    BY DEF Writing
  <2>3. /\ phase[TheProcess] = "recovering" /\ phase'[TheProcess] = to
        /\ MemoryAgrees' /\ \A j \in Jobs : ServingAgrees(j)'
    <3>. HIDE DEF to
    <3>. QED
      BY <1>3, <2>1, <2>2
  <2>4. CompactionAgrees'
    BY <1>5, <2>1, <2>3 DEF CompactionAgrees, At
  <2>5. \A j \in Jobs : LinesAgree(j)' /\ RecoveryAgrees(j)'
    BY <1>1, <2>1, <2>2, <2>3, LinesStay DEF DirectoryAgrees, RecoveryAgrees, At, Known
  <2>. QED
    BY <2>3, <2>4, <2>5 DEF DirectoryAgrees
<1>7. CASE WriteTemp(TheProcess, "submissions", "write_submissions", "replace_submissions")
  <2>1. /\ Move(TheProcess, "write_submissions", "replace_submissions")
        /\ temp' = [temp EXCEPT !["submissions"] = FileOf(Kept(TheProcess, "submissions"))]
        /\ UNCHANGED <<config, memory, recovering, unsaved, submissions, results>>
    BY <1>7 DEF WriteTemp
  <2>2. /\ phase[TheProcess] = "write_submissions" /\ phase'[TheProcess] = "replace_submissions"
        /\ recovering[TheProcess] = {} /\ MemoryAgrees' /\ \A j \in Jobs : ServingAgrees(j)'
    BY <1>3, <1>4, <2>1 DEF Writing, Move
  <2>3. At(Writing)
    BY <2>2 DEF At, Writing
  <2>4. \A j \in Jobs : ~Has(temp'["submissions"], j)
    <3>1. temp'["submissions"] = FileOf(Kept(TheProcess, "submissions"))
      BY <2>1 DEF TypeOK, FilesOK
    <3>2. TheProcess \in Processes
      BY DEF Alone
    <3>3. \A r \in Kept(TheProcess, "submissions") :
            r.job \in Jobs /\ r = Known(r.job) /\ r.status \in Pending
      BY <3>2, KeptOnce DEF Kept, Known
    <3>4. \A j \in Jobs : Known(j).status \notin Pending
      BY <2>2, <2>3 DEF DirectoryAgrees, RecoveryAgrees, Pending, Terminal
    <3>5. Kept(TheProcess, "submissions") = {}
      BY <3>3, <3>4
    <3>. QED
      BY <3>1, <3>2, <3>5, KeptOnce
  <2>5. CompactionAgrees'
    BY <2>1, <2>2, <2>4 DEF DirectoryAgrees, CompactionAgrees, At, Writing
  <2>6. \A j \in Jobs : LinesAgree(j)' /\ RecoveryAgrees(j)'
    BY <1>1, <2>1, <2>2, <2>3, LinesStay DEF DirectoryAgrees, RecoveryAgrees, At, Known, Writing
  <2>. QED
    BY <2>2, <2>5, <2>6 DEF DirectoryAgrees
<1>8. CASE Replace(TheProcess, "submissions", "replace_submissions", "write_results")
  <2>1. /\ Move(TheProcess, "replace_submissions", "write_results")
        /\ submissions' = temp["submissions"]
        /\ UNCHANGED <<config, memory, recovering, unsaved, results>>
    BY <1>8 DEF Replace
  <2>2. /\ phase[TheProcess] = "replace_submissions" /\ phase'[TheProcess] = "write_results"
        /\ recovering[TheProcess] = {} /\ MemoryAgrees' /\ \A j \in Jobs : ServingAgrees(j)'
    BY <1>3, <1>4, <2>1 DEF Writing, Move
  <2>3. At(Writing) /\ phase'[TheProcess] \in Writing /\ recovering'[TheProcess] = {}
    BY <2>1, <2>2 DEF At, Writing
  <2>4. \A j \in Jobs : ~Has(submissions', j)
    BY <2>1, <2>2 DEF DirectoryAgrees, CompactionAgrees, At
  <2>5. CompactionAgrees'
    BY <2>1, <2>2, <2>4 DEF DirectoryAgrees, CompactionAgrees, At, Writing
  <2>6. ASSUME NEW j \in Jobs PROVE LinesAgree(j)' /\ RecoveryAgrees(j)'
    <3>1. LinesAgree(j) /\ RecoveryAgrees(j)
      BY DEF DirectoryAgrees
    <3>2. LinesAgree(j)'
      BY <1>1, <2>1, <2>4, <3>1 DEF LinesAgree, Has, Line
    <3>3. Has(submissions, j) => Has(results, j)
      BY <2>2, <2>3, AllFinished
    <3>4. OnDisk(j)' = OnDisk(j)
      BY <2>1, <2>4, <3>3 DEF OnDisk, ReadInto, Has, NoRecords
    <3>. QED
      BY <2>1, <2>2, <2>3, <3>1, <3>2, <3>4 DEF RecoveryAgrees, At, Known
  <2>. QED
    BY <2>2, <2>5, <2>6 DEF DirectoryAgrees
<1>9. CASE WriteTemp(TheProcess, "results", "write_results", "replace_results")
  <2>1. /\ Move(TheProcess, "write_results", "replace_results")
        /\ temp' = [temp EXCEPT !["results"] = FileOf(Kept(TheProcess, "results"))]
        /\ UNCHANGED <<config, memory, recovering, unsaved, submissions, results>>
    BY <1>9 DEF WriteTemp
  <2>2. /\ phase[TheProcess] = "write_results" /\ phase'[TheProcess] = "replace_results"
        /\ recovering[TheProcess] = {} /\ MemoryAgrees' /\ \A j \in Jobs : ServingAgrees(j)'
    BY <1>3, <1>4, <2>1 DEF Writing, Move
  <2>3. At(Writing) /\ phase'[TheProcess] \in Writing
    BY <2>2 DEF At, Writing
  <2>4. temp'["results"] = FileOf(Kept(TheProcess, "results"))'
    BY <2>1 DEF TypeOK, FilesOK, Kept, RecentRecords
  <2>5. CompactionAgrees'
    BY <2>1, <2>2, <2>4 DEF DirectoryAgrees, CompactionAgrees, At, Writing, Has
  <2>6. \A j \in Jobs : LinesAgree(j)' /\ RecoveryAgrees(j)'
    BY <1>1, <2>1, <2>2, <2>3, LinesStay DEF DirectoryAgrees, RecoveryAgrees, At, Known
  <2>. QED
    BY <2>2, <2>5, <2>6 DEF DirectoryAgrees
<1>10. CASE Replace(TheProcess, "results", "replace_results", "loaded")
  <2>1. /\ Move(TheProcess, "replace_results", "loaded")
        /\ results' = temp["results"]
        /\ UNCHANGED <<config, memory, recovering, unsaved, submissions>>
    BY <1>10 DEF Replace
  <2>2. /\ phase[TheProcess] = "replace_results" /\ phase'[TheProcess] = "loaded"
        /\ recovering[TheProcess] = {} /\ MemoryAgrees' /\ \A j \in Jobs : ServingAgrees(j)'
    BY <1>3, <1>4, <2>1 DEF Writing, Move
  <2>3. At(Writing)
    BY <2>2 DEF At, Writing
  <2>4. /\ \A j \in Jobs : ~Has(submissions, j)
        /\ results' = FileOf(Kept(TheProcess, "results"))
    BY <2>1, <2>2 DEF DirectoryAgrees, CompactionAgrees, At
  <2>5. /\ \A r \in Kept(TheProcess, "results") : r.job \in Jobs /\ r = Known(r.job) /\ r.status \in Terminal
        /\ \A j : /\ Has(results', j) <=> \E r \in Kept(TheProcess, "results") : r.job = j
                  /\ Has(results', j) => Line(results', j) = Known(j)
                  /\ \A i, k \in LinesOf(results', j) : i = k
    <3>1. TheProcess \in Processes
      BY DEF Alone
    <3>2. \A r \in Kept(TheProcess, "results") : r.status \in Terminal
      BY DEF Kept
    <3>. QED
      BY <2>4, <3>1, <3>2, KeptOnce DEF Known
  <2>6. CompactionAgrees'
    BY <1>5, <2>2 DEF CompactionAgrees, At
  <2>7. ASSUME NEW j \in Jobs PROVE LinesAgree(j)' /\ RecoveryAgrees(j)'
    <3>1. LinesAgree(j)
      BY DEF DirectoryAgrees
    <3>2. ASSUME Has(results', j)
          PROVE  Has(results, j) /\ Known(j).status \in Terminal /\ Known(j).updated_at = stamp[j]
      <4>1. Known(j).status \in Terminal
        BY <2>5, <3>2
      <4>. QED
        BY <2>2, <2>3, <4>1, AllFinished DEF Terminal
    <3>3. LinesAgree(j)'
      BY <1>1, <2>1, <2>4, <2>5, <3>1, <3>2 DEF LinesAgree, Has, Line
    <3>. QED
      BY <1>5, <2>2, <3>3 DEF RecoveryAgrees, At
  <2>. QED
    BY <2>2, <2>6, <2>7 DEF DirectoryAgrees
<1>. QED
  BY <1>2, <1>6, <1>7, <1>8, <1>9, <1>10 DEF Compact, WriteTempFails

\* Only a serving process has appends under way.
LEMMA SavingServes ==
    ASSUME Alone, TypeOK, DirectoryAgrees, NEW u \in unsaved[TheProcess]
    PROVE  /\ At({"serving", "draining"})
           /\ u[2] \in Lines /\ u[2].job \in Jobs /\ u[1] \in {"submissions", "results"}
           /\ u = <<u[1], u[2]>> /\ u[2].updated_at # 0
<1>1. At({"serving", "draining"})
  BY DEF DirectoryAgrees, MemoryAgrees
<1>2. u \in {"submissions", "results"} \X Lines
  BY DEF Alone, TypeOK, ProcessesOK
<1>3. \A l \in Lines : l.job \in Jobs /\ l.updated_at # 0
  BY DEF Lines
<1>. QED
  BY <1>1, <1>2, <1>3

\* A job gets a stamp and an append to one of the files.
LEMMA StampAlone ==
    ASSUME Alone, TypeOK, DirectoryAgrees, At({"serving", "draining"}),
           NEW j \in Jobs, NEW s \in {"queued"} \cup Terminal, NEW f \in {"submissions", "results"},
           Remember(TheProcess, j, s),
           unsaved' = [unsaved EXCEPT ![TheProcess] = @ \cup {<<f, Record(j, s, clock + 1)>>}],
           UNCHANGED <<phase, config, recovering, submissions, results, temp, enqueued>>,
           ~Has(results, j), \A u \in unsaved[TheProcess] : u[2].job # j,
           f = "submissions" => s = "queued" /\ j \notin enqueued,
           f = "results" => s \in Terminal /\ Has(submissions, j)
    PROVE  DirectoryAgrees'
<1>. DEFINE r == Record(j, s, clock + 1)
<1>1. r.job = j /\ r.status = s /\ r.updated_at = clock + 1 /\ clock + 1 # 0
  BY RecordsAreWhole DEF Pending
<1>. HIDE DEF r
<1>2. /\ memory'[TheProcess][j] = r /\ stamp'[j] = clock + 1
      /\ unsaved'[TheProcess] = unsaved[TheProcess] \cup {<<f, r>>}
      /\ \A k \in Jobs \ {j} : memory'[TheProcess][k] = memory[TheProcess][k] /\ stamp'[k] = stamp[k]
  BY DEF Alone, Remember, TypeOK, ProcessesOK, FilesOK, r
<1>3. /\ phase[TheProcess] \notin Ended \cup Checking \cup Reading \cup Writing
      /\ ~At(Writing) /\ ~At({"recovering"})
  BY DEF At, Ended, Checking, Reading, Writing
<1>4. MemoryAgrees' /\ CompactionAgrees'
  BY <1>3 DEF DirectoryAgrees, MemoryAgrees, CompactionAgrees, At, Reading, Writing
<1>5. ASSUME NEW k \in Jobs PROVE LinesAgree(k)' /\ RecoveryAgrees(k)' /\ ServingAgrees(k)'
  <2>1. LinesAgree(k) /\ ServingAgrees(k)
    BY DEF DirectoryAgrees
  <2>2. RecoveryAgrees(k)'
    BY <1>3 DEF RecoveryAgrees, At
  <2>3. CASE k = j
    <3>1. LinesAgree(j)'
      BY <1>1, <1>2, <2>1, <2>3 DEF LinesAgree, Has, Line
    <3>2. \A u \in unsaved'[TheProcess] : u[2].job = j => u = <<f, r>>
      BY <1>2
    <3>3. ServingAgrees(j)'
      BY <1>1, <1>2, <3>2 DEF ServingAgrees, Known, Has, Terminal
    <3>. QED
      BY <2>2, <2>3, <3>1, <3>3
  <2>4. CASE k # j
    <3>1. LinesAgree(k)'
      BY <1>2, <2>1, <2>4 DEF LinesAgree, Has, Line
    <3>2. \A u \in unsaved'[TheProcess] : u[2].job = k => u \in unsaved[TheProcess]
      BY <1>1, <1>2, <2>4
    <3>3. ServingAgrees(k)'
      BY <1>2, <2>1, <2>4, <3>2 DEF ServingAgrees, Known, Has
    <3>. QED
      BY <2>2, <3>1, <3>3
  <2>. QED
    BY <2>3, <2>4
<1>. QED
  BY <1>4, <1>5 DEF DirectoryAgrees

\* The first stamp of a job is that of its submission, the second that of its
\* end.
LEMMA StampedAlone ==
    ASSUME Alone, TypeOK, DirectoryAgrees, NEW j \in Jobs,
           Submit(TheProcess, j) \/ \E s \in Terminal : Finish(TheProcess, j, s)
    PROVE  DirectoryAgrees'
<1>1. At({"serving", "draining"})
  BY DEF Submit, Finish, At
<1>2. LinesAgree(j) /\ ServingAgrees(j)
  BY DEF DirectoryAgrees
<1>3. CASE Submit(TheProcess, j)
  <2>1. /\ stamp[j] = 0 /\ Remember(TheProcess, j, "queued")
        /\ unsaved' = [unsaved EXCEPT ![TheProcess] =
                         @ \cup {<<"submissions", Record(j, "queued", clock + 1)>>}]
        /\ UNCHANGED <<phase, config, recovering, submissions, results, temp, enqueued>>
    BY <1>3 DEF Submit, files
  <2>2. j \notin enqueued /\ ~Has(results, j)
    BY <1>2, <2>1 DEF LinesAgree
  <2>3. ASSUME NEW u \in unsaved[TheProcess], u[2].job = j PROVE FALSE
    <3>1. u[2] = Known(j) /\ u[2] \in Lines /\ u[2].updated_at # 0
      BY <1>1, <1>2, <2>3, SavingServes DEF ServingAgrees
    <3>2. Known(j).status # "absent"
      BY <3>1 DEF Lines, Pending, Terminal
    <3>. QED
      BY <1>1, <1>2, <2>1, <3>1, <3>2 DEF ServingAgrees
  <2>. QED
    BY <1>1, <2>1, <2>2, <2>3, StampAlone
<1>4. ASSUME NEW s \in Terminal, Finish(TheProcess, j, s) PROVE DirectoryAgrees'
  <2>1. /\ j \in enqueued /\ Known(j).status \in Pending /\ Remember(TheProcess, j, s)
        /\ unsaved' = [unsaved EXCEPT ![TheProcess] = @ \cup {<<"results", Record(j, s, clock + 1)>>}]
        /\ UNCHANGED <<phase, config, recovering, submissions, results, temp, enqueued>>
    BY <1>4 DEF Finish, files, Known
  <2>2. Known(j).status = "queued" /\ "queued" \notin Terminal
    BY <1>1, <1>2, <2>1 DEF ServingAgrees, Pending, Terminal
  <2>3. Has(submissions, j) /\ ~Has(results, j)
    BY <1>1, <1>2, <2>1, <2>2 DEF ServingAgrees
  <2>4. \A u \in unsaved[TheProcess] : u[2].job # j
    BY <1>1, <1>2, <2>1, <2>2, SavingServes DEF ServingAgrees
  <2>. QED
    BY <1>1, <2>1, <2>3, <2>4, StampAlone
<1>. QED
  BY <1>3, <1>4

\* An append returns, and its line is the first of the job in its file.
LEMMA SavedAlone ==
    ASSUME Alone, TypeOK, FilesAgree, ~cut, DirectoryAgrees,
           NEW u \in unsaved[TheProcess], Save(TheProcess, u)
    PROVE  DirectoryAgrees'
<1>. DEFINE r == u[2]
            j == u[2].job
<1>1. /\ At({"serving", "draining"})
      /\ r \in Lines /\ j \in Jobs /\ u[1] \in {"submissions", "results"}
      /\ u = <<u[1], r>> /\ r.updated_at # 0
  BY SavingServes
<1>2. /\ unsaved'[TheProcess] = unsaved[TheProcess] \ {u}
      /\ UNCHANGED <<phase, config, memory, recovering, temp, stamp>>
  BY DEF Alone, Save, Saving, TypeOK, ProcessesOK
<1>3. LinesAgree(j) /\ ServingAgrees(j)
  BY <1>1 DEF DirectoryAgrees
<1>4. /\ r = Known(j) /\ ~Has(results, j)
      /\ u[1] = "submissions" => r.status = "queued" /\ j \notin enqueued /\ ~Has(submissions, j)
      /\ u[1] = "results" => r.status \in Terminal /\ Has(submissions, j)
  BY <1>1, <1>3 DEF ServingAgrees, LinesAgree
<1>5. r \in [job : Jobs, status : Pending \cup Terminal, updated_at : Nat]
  BY <1>1 DEF Lines, TypeOK, FilesOK
<1>6. stamp[j] = r.updated_at /\ r.status # "absent"
  <2>1. r.status # "absent"
    BY <1>5 DEF Pending, Terminal
  <2>. QED
    BY <1>1, <1>3, <1>4, <2>1 DEF ServingAgrees
<1>7. \A v \in unsaved'[TheProcess] : v[2].job # j
  <2>. SUFFICES ASSUME NEW v \in unsaved'[TheProcess], v[2].job = j PROVE FALSE
    OBVIOUS
  <2>1. v \in unsaved[TheProcess] /\ v # u
    BY <1>2
  <2>2. v = <<v[1], v[2]>> /\ v[1] \in {"submissions", "results"}
    BY <2>1, SavingServes
  <2>3. /\ v[2] = r
        /\ v[1] = "submissions" => r.status = "queued"
        /\ v[1] = "results" => r.status \in Terminal
    BY <1>1, <1>3, <1>4, <2>1 DEF ServingAgrees
  <2>4. v[1] = u[1]
    BY <1>1, <1>4, <2>2, <2>3 DEF Terminal
  <2>. QED
    BY <1>1, <2>1, <2>2, <2>3, <2>4
<1>8. CASE u[1] = "submissions"
  <2>1. /\ submissions' = AppendLine(submissions, r) /\ results' = results
        /\ enqueued' = enqueued \cup {j}
    BY <1>8 DEF Save
  <2>2. \A g : g = AppendLine(submissions, r) =>
          /\ Has(g, j) /\ Line(g, j) = r
          /\ \A i, k \in LinesOf(g, j) : i = k
          /\ \A k : k # j => /\ LinesOf(g, k) = LinesOf(submissions, k)
                             /\ Has(g, k) <=> Has(submissions, k)
                             /\ Has(submissions, k) => Line(g, k) = Line(submissions, k)
    <3>1. submissions \in {submissions, results} /\ r.job = j /\ ~Has(submissions, j)
      BY <1>4, <1>8
    <3>. HIDE DEF r, j
    <3>. QED
      BY <1>5, <3>1, FirstAppend
  <2>. HIDE DEF r, j
  <2>3. /\ Has(submissions', j) /\ Line(submissions', j) = r
        /\ \A i, k \in LinesOf(submissions', j) : i = k
        /\ \A k : k # j => /\ LinesOf(submissions', k) = LinesOf(submissions, k)
                           /\ Has(submissions', k) <=> Has(submissions, k)
                           /\ Has(submissions, k) => Line(submissions', k) = Line(submissions, k)
    BY <2>1, <2>2
  <2>4. ASSUME NEW k \in Jobs PROVE LinesAgree(k)' /\ ServingAgrees(k)'
    <3>1. LinesAgree(k) /\ ServingAgrees(k)
      BY DEF DirectoryAgrees
    <3>2. LinesAgree(k)'
      BY <1>1, <1>2, <1>4, <1>6, <1>8, <2>1, <2>3, <3>1 DEF LinesAgree, Has, Line
    <3>3. \A v \in unsaved'[TheProcess] : v \in unsaved[TheProcess] /\ v[2].job # j
      BY <1>2, <1>7
    <3>4. ServingAgrees(k)'
      BY <1>1, <1>2, <1>4, <2>1, <2>3, <3>1, <3>3 DEF ServingAgrees, Known, At, Has
    <3>. QED
      BY <3>2, <3>4
  <2>5. /\ MemoryAgrees' /\ CompactionAgrees'
        /\ \A k \in Jobs : RecoveryAgrees(k)'
    BY <1>1, <1>2 DEF DirectoryAgrees, MemoryAgrees, CompactionAgrees, RecoveryAgrees, At,
       Ended, Checking, Writing
  <2>. QED
    BY <2>4, <2>5 DEF DirectoryAgrees
<1>9. CASE u[1] = "results"
  <2>1. /\ results' = AppendLine(results, r) /\ submissions' = submissions
        /\ enqueued' = enqueued
    BY <1>9 DEF Save
  <2>2. \A g : g = AppendLine(results, r) =>
          /\ Has(g, j) /\ Line(g, j) = r
          /\ \A i, k \in LinesOf(g, j) : i = k
          /\ \A k : k # j => /\ LinesOf(g, k) = LinesOf(results, k)
                             /\ Has(g, k) <=> Has(results, k)
                             /\ Has(results, k) => Line(g, k) = Line(results, k)
    <3>1. results \in {submissions, results} /\ r.job = j /\ ~Has(results, j)
      BY <1>4, <1>9
    <3>. HIDE DEF r, j
    <3>. QED
      BY <1>5, <3>1, FirstAppend
  <2>. HIDE DEF r, j
  <2>3. /\ Has(results', j) /\ Line(results', j) = r
        /\ \A i, k \in LinesOf(results', j) : i = k
        /\ \A k : k # j => /\ LinesOf(results', k) = LinesOf(results, k)
                           /\ Has(results', k) <=> Has(results, k)
                           /\ Has(results, k) => Line(results', k) = Line(results, k)
    BY <2>1, <2>2
  <2>4. ASSUME NEW k \in Jobs PROVE LinesAgree(k)' /\ ServingAgrees(k)'
    <3>1. LinesAgree(k) /\ ServingAgrees(k)
      BY DEF DirectoryAgrees
    <3>2. LinesAgree(k)'
      BY <1>1, <1>2, <1>4, <1>6, <1>9, <2>1, <2>3, <3>1 DEF LinesAgree, Has, Line
    <3>3. \A v \in unsaved'[TheProcess] : v \in unsaved[TheProcess] /\ v[2].job # j
      BY <1>2, <1>7
    <3>4. "queued" \notin Terminal
      BY DEF Terminal
    <3>5. ServingAgrees(k)'
      BY <1>1, <1>2, <1>4, <1>9, <2>1, <2>3, <3>1, <3>3, <3>4 DEF ServingAgrees, Known, At, Has
    <3>. QED
      BY <3>2, <3>5
  <2>5. /\ MemoryAgrees' /\ CompactionAgrees'
        /\ \A k \in Jobs : RecoveryAgrees(k)'
    BY <1>1, <1>2 DEF DirectoryAgrees, MemoryAgrees, CompactionAgrees, RecoveryAgrees, At,
       Ended, Checking, Writing
  <2>. QED
    BY <2>4, <2>5 DEF DirectoryAgrees
<1>. QED
  BY <1>1, <1>8, <1>9

\* The process begins to serve, drains, and ends.
LEMMA ServingAlone ==
    ASSUME Alone, TypeOK, DirectoryAgrees,
           Bind(TheProcess) \/ BindFails(TheProcess) \/ Drain(TheProcess) \/ Stop(TheProcess)
    PROVE  DirectoryAgrees'
<1>1. UNCHANGED <<submissions, results, stamp, enqueued>>
  BY DEF Bind, BindFails, Drain, Stop, files, recorded
<1>2. CASE BindFails(TheProcess) \/ Stop(TheProcess)
  <2>1. \E how \in Ended : End(TheProcess, how)
    BY <1>2 DEF BindFails, Stop, Ended
  <2>. QED
    BY <1>1, <2>1, EndsAlone
<1>3. CASE Bind(TheProcess) \/ Drain(TheProcess)
  <2>1. /\ phase[TheProcess] \in {"loaded", "serving"} /\ phase'[TheProcess] \in {"serving", "draining"}
        /\ phase[TheProcess] = "loaded" => memory'[TheProcess] = NoRecords
        /\ phase[TheProcess] = "serving" => memory' = memory
        /\ UNCHANGED <<config, recovering, unsaved, temp>>
    BY <1>3 DEF Bind, Drain, Move, Alone, TypeOK, ProcessesOK, files
  <2>2. \A x \in {"loaded", "serving", "draining"} : x \notin Writing \cup Ended \cup Checking \cup Reading
    BY StepsDiffer DEF Writing, Ended, Checking, Reading
  <2>3. recovering[TheProcess] = {} /\ (phase[TheProcess] = "loaded" => unsaved[TheProcess] = {})
    BY <2>1, <2>2 DEF DirectoryAgrees, MemoryAgrees, At, Writing
  <2>4. MemoryAgrees' /\ CompactionAgrees'
    BY <2>1, <2>2, <2>3 DEF MemoryAgrees, CompactionAgrees, At, Reading, Writing
  <2>5. ASSUME NEW j \in Jobs PROVE LinesAgree(j)' /\ RecoveryAgrees(j)' /\ ServingAgrees(j)'
    <3>1. LinesAgree(j)' /\ RecoveryAgrees(j)'
      BY <1>1, <2>1, <2>2, LinesStay DEF DirectoryAgrees, RecoveryAgrees, At
    <3>2. CASE phase[TheProcess] = "loaded"
      <4>1. NoRecords[j].status = "absent"
        BY DEF NoRecords, Record
      <4>2. ServingAgrees(j)'
        BY <2>1, <2>3, <3>2, <4>1 DEF ServingAgrees, Known, Terminal
      <4>. QED
        BY <3>1, <4>2
    <3>3. CASE phase[TheProcess] = "serving"
      BY <1>1, <2>1, <3>1, <3>3 DEF DirectoryAgrees, ServingAgrees, Known, At, Has
    <3>. QED
      BY <2>1, <3>2, <3>3
  <2>. QED
    BY <2>4, <2>5 DEF DirectoryAgrees
<1>. QED
  BY <1>2, <1>3

\* Every step of the one process keeps memory and files in agreement.
LEMMA DirectoryStep == Alone /\ StartupInv /\ DirectoryInv /\ [Next]_vars => DirectoryInv'
<1>. SUFFICES ASSUME Alone, StartupInv, DirectoryInv, [Next]_vars, ~cut' PROVE DirectoryAgrees'
  BY DEF DirectoryInv
<1>1. TypeOK /\ StampsAgree /\ FilesAgree
  BY DEF StartupInv
<1>2. CASE UNCHANGED vars
  <2>1. ~cut /\ DirectoryAgrees
    BY <1>2 DEF vars, DirectoryInv
  <2>. QED
    BY <1>2, <2>1, LinesStay DEF vars, files, recorded, DirectoryAgrees, MemoryAgrees,
       CompactionAgrees, RecoveryAgrees, ServingAgrees, At, Known, Has, Kept, RecentRecords
<1>3. CASE Next
  <2>1. /\ LoadConfig(TheProcess) \/ PrepareConfig(TheProcess) \/ OpenQueue(TheProcess)
             \/ ReadSubmissions(TheProcess) \/ ReadResults(TheProcess)
             \/ (\E j \in Jobs : Recover(TheProcess, j))
             \/ BeginCompaction(TheProcess) \/ Compact(TheProcess)
             \/ Bind(TheProcess) \/ BindFails(TheProcess)
             \/ (\E j \in Jobs : Submit(TheProcess, j) \/ \E s \in Terminal : Finish(TheProcess, j, s))
             \/ (\E u \in unsaved[TheProcess] : Save(TheProcess, u))
             \/ Drain(TheProcess) \/ Stop(TheProcess)
    BY <1>3 DEF Alone, Next, RecoverFails, SaveFails
  <2>2. ~cut
    BY <2>1 DEF LoadConfig, PrepareConfig, OpenQueue, ReadSubmissions, ReadResults, Recover,
       BeginCompaction, Compact, WriteTemp, Replace, WriteTempFails, Bind, BindFails, Submit, Finish,
       Save, Drain, Stop
  <2>3. DirectoryAgrees
    BY <2>2 DEF DirectoryInv
  <2>. QED
    BY <1>1, <2>1, <2>2, <2>3, CheckingAlone, ReadingAlone, RecoverAlone, CompactAlone, StampedAlone,
       SavedAlone, ServingAlone
<1>. QED
  BY <1>2, <1>3

\* They agree when there is nothing yet.
LEMMA DirectoryBegins == Alone /\ Init => DirectoryInv
<1>. SUFFICES ASSUME Alone, Init PROVE DirectoryAgrees
  BY DEF DirectoryInv
<1>1. /\ phase[TheProcess] = "stopped" /\ memory[TheProcess] = NoRecords
      /\ recovering[TheProcess] = {} /\ unsaved[TheProcess] = {}
      /\ submissions = EmptyFile /\ results = EmptyFile
      /\ stamp = [j \in Jobs |-> 0] /\ enqueued = {}
  BY DEF Alone, Init
<1>2. \A j : LinesOf(EmptyFile, j) = {}
  BY DEF LinesOf, EmptyFile
<1>3. "stopped" \notin Writing
  BY DEF Writing
<1>4. MemoryAgrees /\ CompactionAgrees
  BY <1>1, <1>3 DEF MemoryAgrees, CompactionAgrees, At
<1>5. \A j \in Jobs : LinesAgree(j) /\ RecoveryAgrees(j) /\ ServingAgrees(j)
  BY <1>1, <1>2, <1>3 DEF LinesAgree, RecoveryAgrees, ServingAgrees, At, Has
<1>. QED
  BY <1>4, <1>5 DEF DirectoryAgrees

\* With one process on the data directory, memory and files agree until a write
\* is cut short.
THEOREM DirectoryInvariance == Cardinality(Processes) = 1 => (Spec => []DirectoryInv)
<1>. SUFFICES ASSUME Cardinality(Processes) = 1 PROVE Spec => []DirectoryInv
  OBVIOUS
<1>1. Alone
  BY StartupAssumption, FS_Singleton DEF Alone, TheProcess
<1>2. Init => DirectoryInv
  BY <1>1, DirectoryBegins
<1>3. StartupInv /\ DirectoryInv /\ [Next]_vars => DirectoryInv'
  BY <1>1, DirectoryStep
<1>. QED
  BY <1>2, <1>3, StartupInvariance, PTL DEF Spec

-----------------------------------------------------------------------------
(* What the files say only moves on.                                       *)

\* Those of S that fewer than n of S are above.
First(S, v, n) == {x \in S : Cardinality({y \in S : v[y] > v[x]}) < n}

\* Of n and more values of a finite set, at least n have fewer than n above
\* them.
LEMMA Highest ==
    ASSUME NEW S, IsFiniteSet(S), NEW m \in Nat, NEW v \in [S -> 0..m],
           \A a, b \in S : v[a] = v[b] => a = b,
           NEW n \in Nat, n <= Cardinality(S)
    PROVE  Cardinality(First(S, v, n)) >= n
<1>. DEFINE w == [x \in S |-> m - v[x]]
            above(x) == Cardinality({y \in S : v[y] > v[x]})
            T == {x \in S : above(x) < n}
            f == [x \in T |-> above(x)]
<1>1. w \in [S -> Nat] /\ \A a, b \in S : (w[a] = w[b] => a = b) /\ (w[b] < w[a] <=> v[b] > v[a])
  OBVIOUS
<1>2. \A x \in S : above(x) = Rank(S, w, x)
  <2>. TAKE x \in S
  <2>1. {y \in S : v[y] > v[x]} = {y \in S : w[y] < w[x]}
    BY <1>1
  <2>. QED
    BY <2>1 DEF Rank
<1>3. Cardinality(S) \in Nat
  BY FS_CardinalityType
<1>. HIDE DEF w, above
<1>4. /\ \A x \in S : above(x) \in 0..(Cardinality(S) - 1)
      /\ \A k \in 0..(Cardinality(S) - 1) : \E x \in S : above(x) = k
  BY <1>1, <1>2, Ranks
<1>5. f \in Surjection(T, 0..(n - 1))
  <2>1. f \in [T -> 0..(n - 1)]
    BY <1>3, <1>4
  <2>2. \A k \in 0..(n - 1) : \E x \in T : f[x] = k
    BY <1>3, <1>4
  <2>. HIDE DEF T, f
  <2>. QED
    BY <2>1, <2>2 DEF Surjection
<1>6. IsFiniteSet(T)
  BY FS_Subset
<1>7. Cardinality(0..(n - 1)) = n
  BY FS_Interval
<1>8. Cardinality(0..(n - 1)) <= Cardinality(T)
  <2>. HIDE DEF T, f
  <2>. QED
    BY <1>5, <1>6, FS_Surjection
<1>. QED
  BY <1>7, <1>8, <1>6, FS_CardinalityType DEF above, First

\* The records that come before that of j.
Newer(j) == {k \in Jobs : Known(k).status # "absent" /\ Known(k).updated_at > Known(j).updated_at}

Limit == config[TheProcess].numbers.metadata_retention_limit

\* What compaction keeps of finished records.
LEMMA KeptIff ==
    ASSUME Alone, TypeOK, NEW j \in Jobs
    PROVE  Known(j) \in Kept(TheProcess, "results") <=>
             Known(j).status \in Terminal /\ Cardinality(Newer(j)) < Limit
<1>1. \A k \in Jobs : Known(k).job = k
  BY DEF Alone, TypeOK, ProcessesOK, Known
<1>. DEFINE present == {k \in Jobs : Known(k).status # "absent"}
            newer(k) == {i \in present : Known(i).updated_at > Known(k).updated_at}
<1>2. \A k : newer(k) = Newer(k)
  BY DEF Newer
<1>3. Kept(TheProcess, "results") =
        {r \in {Known(k) : k \in {i \in present : Cardinality(newer(i)) < Limit}} : r.status \in Terminal}
  BY DEF Kept, RecentRecords, Known, Limit
<1>4. "absent" \notin Terminal
  BY DEF Terminal
<1>. QED
  BY <1>1, <1>2, <1>3, <1>4

\* The submissions are replaced when all that they tell stands in the results.
LEMMA SubmissionsReplaced ==
    ASSUME Alone, TypeOK, DirectoryAgrees,
           Replace(TheProcess, "submissions", "replace_submissions", "write_results")
    PROVE  /\ At(Writing) /\ recovering[TheProcess] = {} /\ results' = results
           /\ \A j \in Jobs : ~Has(submissions', j) /\ (Has(submissions, j) => Has(results, j))
           /\ \A j \in Jobs : OnDisk(j)' = OnDisk(j)
<1>1. /\ phase[TheProcess] = "replace_submissions"
      /\ submissions' = temp["submissions"] /\ results' = results
  BY DEF Replace, Move
<1>2. At(Writing) /\ recovering[TheProcess] = {}
  BY <1>1 DEF DirectoryAgrees, MemoryAgrees, At, Writing
<1>3. \A j \in Jobs : ~Has(submissions', j)
  BY <1>1 DEF DirectoryAgrees, CompactionAgrees, At
<1>4. \A j \in Jobs : Has(submissions, j) => Has(results, j)
  BY <1>2, AllFinished
<1>5. \A j \in Jobs : OnDisk(j)' = OnDisk(j)
  BY <1>1, <1>3, <1>4 DEF OnDisk, ReadInto, Has, NoRecords
<1>. QED
  BY <1>1, <1>2, <1>3, <1>4, <1>5

\* The results are replaced by those that are kept.
LEMMA ResultsReplaced ==
    ASSUME Alone, TypeOK, StampsAgree, DirectoryAgrees,
           Replace(TheProcess, "results", "replace_results", "loaded")
    PROVE  /\ At(Writing) /\ recovering[TheProcess] = {}
           /\ \A j \in Jobs : ~Has(submissions, j)
           /\ submissions' = submissions
           /\ \A j \in Jobs :
                /\ Has(results', j) <=> Known(j) \in Kept(TheProcess, "results")
                /\ Has(results', j) => Line(results', j) = Known(j)
                /\ \A i, k \in LinesOf(results', j) : i = k
<1>1. /\ phase[TheProcess] = "replace_results"
      /\ results' = temp["results"] /\ submissions' = submissions
  BY DEF Replace, Move
<1>2. At(Writing) /\ recovering[TheProcess] = {} /\ TheProcess \in Processes
  BY <1>1 DEF Alone, DirectoryAgrees, MemoryAgrees, At, Writing
<1>3. /\ \A j \in Jobs : ~Has(submissions, j)
      /\ results' = FileOf(Kept(TheProcess, "results"))
  BY <1>1 DEF DirectoryAgrees, CompactionAgrees, At
<1>4. \A j \in Jobs : Known(j).job = j
  BY <1>2 DEF TypeOK, ProcessesOK, Known
<1>5. /\ \A r \in Kept(TheProcess, "results") : r.job \in Jobs /\ r = Known(r.job)
      /\ \A j : /\ Has(results', j) <=> \E r \in Kept(TheProcess, "results") : r.job = j
                /\ Has(results', j) => Line(results', j) = Known(j)
                /\ \A i, k \in LinesOf(results', j) : i = k
  BY <1>2, <1>3, KeptOnce DEF Known
<1>. QED
  BY <1>1, <1>2, <1>3, <1>4, <1>5

\* A job whose result is not kept gives way to as many younger ones as the limit
\* allows.
LEMMA GivesWay ==
    ASSUME Alone, StartupInv, DirectoryAgrees, NEW j \in Jobs,
           Replace(TheProcess, "results", "replace_results", "loaded")
    PROVE  \/ OnDisk(j)' = OnDisk(j)
           \/ /\ OnDisk(j)'.status = "absent"
              /\ Cardinality({k \in Jobs : OnDisk(k)'.updated_at > OnDisk(j).updated_at}) >= Limit
<1>1. TypeOK /\ StampsAgree /\ ConfigAgrees
  BY DEF StartupInv
<1>2. /\ At(Writing) /\ recovering[TheProcess] = {}
      /\ \A k \in Jobs : ~Has(submissions, k)
      /\ submissions' = submissions
      /\ \A k \in Jobs :
           /\ Has(results', k) <=> Known(k) \in Kept(TheProcess, "results")
           /\ Has(results', k) => Line(results', k) = Known(k)
  BY <1>1, ResultsReplaced
<1>3. \A k \in Jobs : Has(results', k) => OnDisk(k)' = Known(k)
  BY <1>2 DEF OnDisk, ReadInto, Has, Line, NoRecords
<1>4. ~Has(results', j) => OnDisk(j)' = NoRecords[j]
  BY <1>2 DEF OnDisk, ReadInto, Has, NoRecords
<1>5. NoRecords[j].status = "absent"
  BY DEF NoRecords, Record
<1>6. \A k \in Jobs : /\ Known(k) = OnDisk(k)
                      /\ Known(k).status # "absent" =>
                           /\ Known(k).status \in Terminal
                           /\ Known(k).updated_at \in 1..clock /\ Stamped(k, Known(k).updated_at)
                      /\ ~Has(results, k) => Known(k) = NoRecords[k]
  <2>. TAKE k \in Jobs
  <2>1. /\ Known(k) = OnDisk(k)
        /\ Has(results, k) => Known(k).status \in Terminal
        /\ ~Has(results, k) => Known(k) = NoRecords[k] /\ Known(k).status = "absent"
    BY <1>2, AllFinished
  <2>2. Known(k).status # "absent" => Known(k) \in Lines /\ Stamped(k, Known(k).updated_at)
    BY <1>1, RecordInMemory DEF Alone, Known
  <2>. QED
    BY <2>1, <2>2 DEF Lines
<1>7. Limit \in Nat
  <2>1. phase[TheProcess] \notin Ended
    BY <1>2, StepsDiffer DEF At
  <2>2. PICK src \in Sources : ~ConfigRefused(src) /\ config[TheProcess] = Effective(src)
    BY <1>1, <2>1 DEF Alone, ConfigAgrees
  <2>3. "metadata_retention_limit" \in DOMAIN NumberDefault
    BY DEF NumberDefault
  <2>4. Effective(src).numbers["metadata_retention_limit"] \in Nat
    BY <2>2, <2>3, EffectiveSettings
  <2>. QED
    BY <2>2, <2>4 DEF Limit
<1>8. CASE Has(results', j)
  BY <1>3, <1>6, <1>8
<1>9. CASE ~Has(results', j) /\ ~Has(results, j)
  BY <1>4, <1>6, <1>9
<1>10. CASE ~Has(results', j) /\ Has(results, j)
  <2>. DEFINE N == Newer(j)
              v == [k \in N |-> Known(k).updated_at]
              T == First(N, v, Limit)
              younger == {k \in Jobs : OnDisk(k)'.updated_at > OnDisk(j).updated_at}
  <2>1. Known(j).status \in Terminal /\ Known(j).updated_at \in Nat
    <3>1. Known(j).status \in Terminal
      BY <1>2, <1>10, AllFinished
    <3>. QED
      BY <1>6, <3>1 DEF Terminal
  <2>2. IsFiniteSet(N) /\ IsFiniteSet(younger) /\ N \subseteq Jobs
    BY StartupAssumption, FS_Subset DEF Newer
  <2>3. Limit <= Cardinality(N)
    <3>1. ~(Cardinality(N) < Limit)
      BY <1>1, <1>2, <1>10, <2>1, KeptIff
    <3>2. Cardinality(N) \in Nat
      BY <2>2, FS_CardinalityType
    <3>. HIDE DEF N
    <3>. QED
      BY <1>7, <3>1, <3>2
  <2>4. \A k \in N : /\ Known(k).status \in Terminal /\ Known(k).updated_at \in 1..clock
                     /\ Stamped(k, Known(k).updated_at)
                     /\ Known(k).updated_at > Known(j).updated_at
    BY <1>6 DEF Newer
  <2>5. clock \in Nat /\ v \in [N -> 0..clock]
    BY <1>1, <2>4 DEF TypeOK, FilesOK
  <2>6. \A a, b \in N : v[a] = v[b] => a = b
    BY <1>1, <2>2, <2>4 DEF StampsAgree
  <2>7. \A k \in N : Newer(k) = {i \in N : v[i] > v[k]}
    <3>. TAKE k \in N
    <3>1. \A i \in Newer(k) : i \in N
      BY <1>6, <2>1, <2>4 DEF Newer
    <3>2. \A i \in N : i \in Newer(k) <=> v[i] > v[k]
      BY DEF Newer
    <3>. HIDE DEF v
    <3>. QED
      BY <3>1, <3>2
  <2>8. Cardinality(T) >= Limit
    <3>. HIDE DEF N, v
    <3>. QED
      BY <1>7, <2>2, <2>3, <2>5, <2>6, Highest
  <2>9. T \subseteq younger
    <3>. SUFFICES ASSUME NEW k \in T PROVE k \in younger
      OBVIOUS
    <3>1. k \in N /\ k \in Jobs /\ Cardinality(Newer(k)) < Limit
      BY <2>2, <2>7 DEF First
    <3>2. Has(results', k)
      BY <1>1, <1>2, <2>4, <3>1, KeptIff
    <3>. QED
      BY <1>3, <1>6, <2>4, <3>1, <3>2
  <2>10. Cardinality(T) <= Cardinality(younger) /\ Cardinality(T) \in Nat /\ Cardinality(younger) \in Nat
    <3>. HIDE DEF T, younger
    <3>. QED
      BY <2>2, <2>9, FS_Subset, FS_CardinalityType
  <2>11. Cardinality(younger) >= Limit
    <3>. HIDE DEF T, younger
    <3>. QED
      BY <1>7, <2>8, <2>10
  <2>. QED
    BY <1>4, <1>5, <1>10, <2>11
<1>. QED
  BY <1>8, <1>9, <1>10

\* A step of the files, for one job, as DiskMovesOn allows it.
MovesOn(j) ==
    \/ cut'
    \/ OnDisk(j)' = OnDisk(j)
    \/ OnDisk(j).status = "absent" /\ OnDisk(j)'.status = "queued"
    \/ OnDisk(j).status = "queued" /\ OnDisk(j)'.status \in Terminal
    \/ /\ OnDisk(j)'.status = "absent"
       /\ \E p \in Processes :
            /\ phase[p] \in Writing
            /\ LET younger == {k \in Jobs : OnDisk(k)'.updated_at > OnDisk(j).updated_at}
               IN  Cardinality(younger) >= config[p].numbers.metadata_retention_limit

\* What an append to results.jsonl, or to submissions.jsonl, says of its job and
\* of the others.
LEMMA AppendSays ==
    ASSUME TypeOK, FilesAgree, ~cut,
           NEW r \in [job : Jobs, status : Pending \cup Terminal, updated_at : Nat],
           NEW j \in Jobs, r.job = j, NEW k \in Jobs
    PROVE  /\ results' = AppendLine(results, r) /\ submissions' = submissions /\ ~Has(results, j) =>
                /\ Has(results', j) /\ OnDisk(j)' = r
                /\ k # j => OnDisk(k)' = OnDisk(k)
           /\ submissions' = AppendLine(submissions, r) /\ results' = results /\ ~Has(submissions, j) =>
                /\ Has(submissions', j) /\ (~Has(results, j) => OnDisk(j)' = r)
                /\ k # j => OnDisk(k)' = OnDisk(k)
<1>1. submissions \in {submissions, results} /\ results \in {submissions, results}
  OBVIOUS
<1>2. ASSUME results' = AppendLine(results, r), submissions' = submissions, ~Has(results, j)
      PROVE  /\ Has(results', j) /\ OnDisk(j)' = r
             /\ k # j => OnDisk(k)' = OnDisk(k)
  <2>1. \A g : g = AppendLine(results, r) =>
          /\ Has(g, j) /\ Line(g, j) = r
          /\ \A i : i # j => /\ Has(g, i) <=> Has(results, i)
                             /\ Has(results, i) => Line(g, i) = Line(results, i)
    BY <1>1, <1>2, FirstAppend
  <2>2. /\ Has(results', j) /\ Line(results', j) = r
        /\ k # j => /\ Has(results', k) <=> Has(results, k)
                    /\ Has(results, k) => Line(results', k) = Line(results, k)
    BY <1>2, <2>1
  <2>. QED
    BY <1>2, <2>2 DEF OnDisk, ReadInto, Has, Line, NoRecords
<1>3. ASSUME submissions' = AppendLine(submissions, r), results' = results, ~Has(submissions, j)
      PROVE  /\ Has(submissions', j) /\ (~Has(results, j) => OnDisk(j)' = r)
             /\ k # j => OnDisk(k)' = OnDisk(k)
  <2>1. \A g : g = AppendLine(submissions, r) =>
          /\ Has(g, j) /\ Line(g, j) = r
          /\ \A i : i # j => /\ Has(g, i) <=> Has(submissions, i)
                             /\ Has(submissions, i) => Line(g, i) = Line(submissions, i)
    BY <1>1, <1>3, FirstAppend
  <2>2. /\ Has(submissions', j) /\ Line(submissions', j) = r
        /\ k # j => /\ Has(submissions', k) <=> Has(submissions, k)
                    /\ Has(submissions, k) => Line(submissions', k) = Line(submissions, k)
    BY <1>3, <2>1
  <2>. QED
    BY <1>3, <2>2 DEF OnDisk, ReadInto, Has, Line, NoRecords
<1>. QED
  BY <1>2, <1>3

\* A recovered job moves from queued to failed.
LEMMA RecoveryMovesOn ==
    ASSUME Alone, TypeOK, FilesAgree, ~cut, DirectoryAgrees, NEW j \in Jobs, Recover(TheProcess, j),
           NEW k \in Jobs
    PROVE  MovesOn(k)
<1>. DEFINE r == Record(j, "failed", clock + 1)
<1>1. /\ phase[TheProcess] = "recovering" /\ j \in recovering[TheProcess]
      /\ results' = AppendLine(results, r) /\ submissions' = submissions
  BY DEF Recover
<1>2. /\ r \in [job : Jobs, status : Pending \cup Terminal, updated_at : Nat]
      /\ r.job = j /\ r.status = "failed" /\ "failed" \in Terminal
  BY RecordsAreWhole DEF Terminal
<1>. HIDE DEF r
<1>3. Has(submissions, j) /\ ~Has(results, j)
  BY <1>1 DEF DirectoryAgrees, RecoveryAgrees, At, Writing
<1>4. OnDisk(j).status = "queued"
  BY <1>3, DiskSays DEF DirectoryAgrees, LinesAgree
<1>5. OnDisk(j)' = r /\ (k # j => OnDisk(k)' = OnDisk(k))
  BY <1>1, <1>2, <1>3, AppendSays
<1>6. OnDisk(j)'.status \in Terminal
  BY <1>2, <1>5
<1>. QED
  BY <1>4, <1>5, <1>6 DEF MovesOn

\* A job moves from nothing to queued, and from queued to its final status.
LEMMA SavingMovesOn ==
    ASSUME Alone, TypeOK, FilesAgree, ~cut, DirectoryAgrees,
           NEW u \in unsaved[TheProcess], Save(TheProcess, u), NEW k \in Jobs
    PROVE  MovesOn(k)
<1>. DEFINE r == u[2]
            j == u[2].job
<1>1. /\ At({"serving", "draining"})
      /\ r \in Lines /\ j \in Jobs /\ u[1] \in {"submissions", "results"}
  BY SavingServes
<1>2. r \in [job : Jobs, status : Pending \cup Terminal, updated_at : Nat]
  BY <1>1 DEF Lines, TypeOK, FilesOK
<1>3. LinesAgree(j) /\ ServingAgrees(j)
  BY <1>1 DEF DirectoryAgrees
<1>4. /\ ~Has(results, j)
      /\ u[1] = "submissions" => r.status = "queued" /\ j \notin enqueued /\ ~Has(submissions, j)
      /\ u[1] = "results" => r.status \in Terminal /\ Has(submissions, j)
  BY <1>1, <1>3 DEF ServingAgrees, LinesAgree
<1>5. CASE u[1] = "submissions"
  <2>1. submissions' = AppendLine(submissions, r) /\ results' = results
    BY <1>5 DEF Save
  <2>2. OnDisk(j) = NoRecords[j] /\ NoRecords[j].status = "absent"
    BY <1>1, <1>4, <1>5, DiskSays DEF NoRecords, Record
  <2>3. r.job = j
    OBVIOUS
  <2>. HIDE DEF r, j
  <2>4. OnDisk(j)' = r /\ (k # j => OnDisk(k)' = OnDisk(k))
    BY <1>1, <1>2, <1>4, <1>5, <2>1, <2>3, AppendSays
  <2>5. OnDisk(j)'.status = "queued"
    BY <1>4, <1>5, <2>4
  <2>. QED
    BY <2>2, <2>4, <2>5 DEF MovesOn
<1>6. CASE u[1] = "results"
  <2>1. results' = AppendLine(results, r) /\ submissions' = submissions
    BY <1>6 DEF Save
  <2>2. OnDisk(j).status = "queued"
    BY <1>1, <1>3, <1>4, <1>6, DiskSays DEF LinesAgree
  <2>3. r.job = j
    OBVIOUS
  <2>. HIDE DEF r, j
  <2>4. OnDisk(j)' = r /\ (k # j => OnDisk(k)' = OnDisk(k))
    BY <1>1, <1>2, <1>4, <1>6, <2>1, <2>3, AppendSays
  <2>5. OnDisk(j)'.status \in Terminal
    BY <1>4, <1>6, <2>4
  <2>. QED
    BY <2>2, <2>4, <2>5 DEF MovesOn
<1>. QED
  BY <1>1, <1>5, <1>6

\* Every step of the one process moves each job on, or leaves it.
LEMMA DiskStep ==
    Alone /\ StartupInv /\ DirectoryInv /\ [Next]_vars => [\A j \in Jobs : MovesOn(j)]_files
<1>. SUFFICES ASSUME Alone, StartupInv, DirectoryInv, [Next]_vars, NEW k \in Jobs, ~cut'
              PROVE  MovesOn(k)
  BY DEF MovesOn
<1>1. TypeOK /\ StampsAgree /\ FilesAgree
  BY DEF StartupInv
<1>2. CASE UNCHANGED <<submissions, results>>
  BY <1>2 DEF MovesOn, OnDisk, NoRecords
<1>3. CASE Next /\ ~UNCHANGED <<submissions, results>>
  <2>1. \/ \E j \in Jobs : Recover(TheProcess, j)
        \/ Replace(TheProcess, "submissions", "replace_submissions", "write_results")
        \/ Replace(TheProcess, "results", "replace_results", "loaded")
        \/ \E u \in unsaved[TheProcess] : Save(TheProcess, u)
    BY <1>3 DEF Alone, Next, LoadConfig, PrepareConfig, OpenQueue, ReadSubmissions, ReadResults,
       RecoverFails, BeginCompaction, Compact, WriteTemp, WriteTempFails, Bind, BindFails, Submit,
       Finish, SaveFails, Drain, Stop, files
  <2>2. ~cut
    BY <2>1 DEF Recover, Replace, Save
  <2>3. DirectoryAgrees
    BY <2>2 DEF DirectoryInv
  <2>4. CASE \E j \in Jobs : Recover(TheProcess, j)
    BY <1>1, <2>2, <2>3, <2>4, RecoveryMovesOn
  <2>5. CASE Replace(TheProcess, "submissions", "replace_submissions", "write_results")
    BY <1>1, <2>3, <2>5, SubmissionsReplaced DEF MovesOn
  <2>6. CASE Replace(TheProcess, "results", "replace_results", "loaded")
    <3>1. \/ OnDisk(k)' = OnDisk(k)
          \/ /\ OnDisk(k)'.status = "absent"
             /\ Cardinality({i \in Jobs : OnDisk(i)'.updated_at > OnDisk(k).updated_at}) >= Limit
      BY <2>3, <2>6, GivesWay
    <3>2. TheProcess \in Processes /\ phase[TheProcess] \in Writing
      BY <1>1, <2>3, <2>6, ResultsReplaced DEF Alone, At
    <3>. QED
      BY <3>1, <3>2 DEF MovesOn, Limit
  <2>7. CASE \E u \in unsaved[TheProcess] : Save(TheProcess, u)
    BY <1>1, <2>2, <2>3, <2>7, SavingMovesOn
  <2>. QED
    BY <2>1, <2>4, <2>5, <2>6, <2>7
<1>. QED
  BY <1>2, <1>3 DEF vars, files

\* What the files say of a job only moves on, and a job is only forgotten for as
\* many younger ones as are to be kept.  One process at a time: a second one that
\* compacts what it read earlier takes back a line written in between.
THEOREM DiskMovesOnCorrect == Cardinality(Processes) = 1 => (Spec => DiskMovesOn)
<1>. SUFFICES ASSUME Cardinality(Processes) = 1 PROVE Spec => DiskMovesOn
  OBVIOUS
<1>1. Alone
  BY StartupAssumption, FS_Singleton DEF Alone, TheProcess
<1>2. StartupInv /\ DirectoryInv /\ [Next]_vars => [\A j \in Jobs : MovesOn(j)]_files
  BY <1>1, DiskStep
<1>3. Spec => []DirectoryInv
  BY DirectoryInvariance
<1>. QED
  BY <1>2, <1>3, StartupInvariance, PTL DEF Spec, DiskMovesOn, MovesOn

-----------------------------------------------------------------------------
(* What JobStore sees of the directory.                                    *)

\* The statuses a file has for each job, and the same where a job has at most
\* one line.
Statuses(f) ==
    [j \in Jobs |->
        LET at(n) == CHOOSE i \in LinesOf(f, j) : Cardinality({k \in LinesOf(f, j) : k < i}) = n - 1
        IN  [n \in 1..Cardinality(LinesOf(f, j)) |-> f.lines[at(n)].status]]

OneStatus(f, j) == IF Has(f, j) THEN <<Line(f, j).status>> ELSE <<>>

\* A job with at most one line in a file has at most one status there.
LEMMA StatusOfLine ==
    ASSUME NEW S, NEW f \in FileOver(S), NEW j \in Jobs, \A i, k \in LinesOf(f, j) : i = k
    PROVE  Statuses(f)[j] = OneStatus(f, j)
<1>. DEFINE L == LinesOf(f, j)
            at(n) == CHOOSE i \in L : Cardinality({k \in L : k < i}) = n - 1
<1>1. Statuses(f)[j] = [n \in 1..Cardinality(L) |-> f.lines[at(n)].status]
  BY DEF Statuses
<1>2. CASE ~Has(f, j)
  <2>1. L = {} /\ Cardinality(L) = 0
    BY <1>2, FS_EmptySet DEF Has
  <2>2. Statuses(f)[j] = [n \in {} |-> f.lines[at(n)].status]
    BY <1>1, <2>1
  <2>. HIDE DEF L, at
  <2>3. Statuses(f)[j] = <<>>
    BY <2>2
  <2>. QED
    BY <1>2, <2>3 DEF OneStatus
<1>3. CASE Has(f, j)
  <2>1. PICK m \in L : m = Max(L)
    BY <1>3, LineOfJob
  <2>2. L = {m} /\ m \in Nat
    <3>1. Len(f.lines) \in Nat /\ L \subseteq 1..Len(f.lines)
      BY DEF FileOver, LinesOf
    <3>2. L = {m}
      OBVIOUS
    <3>. QED
      BY <3>1, <3>2
  <2>3. Cardinality(L) = 1
    BY <2>2, FS_Singleton
  <2>4. at(1) = m
    <3>1. {k \in L : k < m} = {}
      BY <2>2
    <3>2. Cardinality({k \in L : k < m}) = 1 - 1
      BY <3>1, FS_EmptySet
    <3>. QED
      BY <2>2, <3>2
  <2>5. Line(f, j) = f.lines[m]
    BY <2>1 DEF Line
  <2>6. Statuses(f)[j] = [n \in 1..1 |-> f.lines[at(n)].status]
    BY <1>1, <2>3
  <2>. HIDE DEF L, at
  <2>7. [n \in 1..1 |-> f.lines[at(n)].status] = <<f.lines[at(1)].status>>
    OBVIOUS
  <2>. QED
    BY <1>3, <2>4, <2>5, <2>6, <2>7 DEF OneStatus
<1>. QED
  BY <1>2, <1>3

\* The results as JobStore sees them.
LEMMA ResultsSeen ==
    ASSUME TypeOK, DirectoryAgrees, NEW j \in Jobs
    PROVE  StoreResults[j] = OneStatus(results, j)
<1>1. StoreResults = Statuses(results)
  BY DEF StoreResults, Statuses
<1>2. results \in FileOver(Lines)
  BY DEF TypeOK, FilesOK, Files, FileOver
<1>3. \A i, k \in LinesOf(results, j) : i = k
  BY DEF DirectoryAgrees, LinesAgree
<1>. QED
  BY <1>1, <1>2, <1>3, StatusOfLine

\* The same after a step.
LEMMA ResultsSeenNext ==
    ASSUME TypeOK', DirectoryAgrees', NEW j \in Jobs
    PROVE  StoreResults'[j] = OneStatus(results', j)
<1>1. StoreResults' = Statuses(results')
  BY DEF StoreResults, Statuses
<1>2. results' \in FileOver(Lines')
  BY DEF TypeOK, FilesOK, Files, FileOver
<1>3. \A i, k \in LinesOf(results', j) : i = k
  BY DEF DirectoryAgrees, LinesAgree
<1>. QED
  BY <1>1, <1>2, <1>3, StatusOfLine

\* What both files say of a job, to JobStore.
LEMMA StatusSeen ==
    ASSUME TypeOK, DirectoryAgrees, NEW j \in Jobs
    PROVE  Store(0)!StatusOnDisk(j) = OnDisk(j).status
<1>1. StoreResults[j] = OneStatus(results, j)
  BY ResultsSeen
<1>2. j \in StoreSubmissions <=> Has(submissions, j)
  BY DEF StoreSubmissions, Has
<1>3. NoRecords[j].status = "absent"
  BY DEF NoRecords, Record
<1>4. CASE Has(results, j)
  <2>1. StoreResults[j] = <<Line(results, j).status>>
    BY <1>1, <1>4 DEF OneStatus
  <2>2. StoreResults[j] # <<>> /\ StoreResults[j][Len(StoreResults[j])] = Line(results, j).status
    BY <2>1
  <2>3. Store(0)!StatusOnDisk(j) = Line(results, j).status
    BY <2>2 DEF Store!StatusOnDisk
  <2>. QED
    BY <1>4, <2>3, DiskSays
<1>5. CASE ~Has(results, j)
  <2>1. StoreResults[j] = <<>>
    BY <1>1, <1>5 DEF OneStatus
  <2>2. Store(0)!StatusOnDisk(j) = IF Has(submissions, j) THEN "queued" ELSE "absent"
    BY <1>2, <2>1 DEF Store!StatusOnDisk
  <2>. QED
    BY <1>3, <1>5, <2>2, DiskSays DEF DirectoryAgrees, LinesAgree
<1>. QED
  BY <1>4, <1>5

\* A stamp makes its job the last of all.
LEMMA StampSeen ==
    ASSUME TypeOK, NEW j \in Jobs, stamp' = [stamp EXCEPT ![j] = clock + 1]
    PROVE  Store(0)!Touch(j)
<1>1. /\ clock \in Nat /\ stamp'[j] = clock + 1
      /\ \A k \in Jobs : stamp[k] \in 0..clock /\ (k # j => stamp'[k] = stamp[k])
  BY DEF TypeOK, FilesOK
<1>2. ASSUME NEW a \in Jobs, NEW b \in Jobs
      PROVE  stamp'[a] > stamp'[b] <=> (stamp[a] > stamp[b] /\ b # j) \/ (a = j /\ b # j)
  <2>1. CASE b = j
    BY <1>1, <2>1
  <2>2. CASE b # j /\ a = j
    BY <1>1, <2>2
  <2>3. CASE b # j /\ a # j
    BY <1>1, <2>3
  <2>. QED
    BY <2>1, <2>2, <2>3
<1>3. StoreLater' = (StoreLater \ (Jobs \X {j})) \cup ({j} \X (Jobs \ {j}))
  <2>1. StoreLater' = {e \in Jobs \X Jobs : stamp'[e[1]] > stamp'[e[2]]}
    BY DEF StoreLater
  <2>2. \A e \in Jobs \X Jobs : e[1] \in Jobs /\ e[2] \in Jobs /\ e = <<e[1], e[2]>>
    OBVIOUS
  <2>3. \A e \in Jobs \X Jobs :
           e \in StoreLater' <=> e \in (StoreLater \ (Jobs \X {j})) \cup ({j} \X (Jobs \ {j}))
    BY <1>2, <2>1, <2>2 DEF StoreLater
  <2>. QED
    BY <2>1, <2>3 DEF StoreLater
<1>. QED
  BY <1>3 DEF Store!Touch

\* A process that is not, or no more, in load_jobs keeps no record for JobStore.
LEMMA StopSeen ==
    ASSUME UNCHANGED <<submissions, results, stamp>>, ~InLoadJobs', recovering'[TheProcess] = {}
    PROVE  Store(0)!StoreStops
<1>1. StoreJobs' = [j \in Jobs |-> "absent"] /\ StoreRecovering' = {}
  BY DEF StoreJobs, StoreRecovering
<1>2. UNCHANGED <<StoreLater, StoreSubmissions, StoreResults>>
  BY DEF StoreLater, StoreSubmissions, StoreResults
<1>. QED
  BY <1>1, <1>2 DEF Store!StoreStops

\* Nor does it while it serves, whatever it does to its records.
LEMMA ServingSeen ==
    ASSUME Alone, DirectoryAgrees, At({"serving", "draining"}), UNCHANGED <<phase, recovering>>
    PROVE  UNCHANGED <<StoreJobs, StoreRecovering>>
<1>1. ~InLoadJobs /\ ~InLoadJobs'
  BY StepsDiffer DEF At, InLoadJobs, Writing
<1>. QED
  BY <1>1 DEF StoreJobs, StoreRecovering

\* load_jobs reads both files.
LEMMA LoadSeen ==
    ASSUME Alone, TypeOK, DirectoryAgrees, ReadResults(TheProcess), ~End(TheProcess, "unreadable")
    PROVE  Store(0)!LoadRecords
<1>. DEFINE read == ReadInto(results, memory[TheProcess])
            interrupted == {j \in Jobs : read[j].status \in Pending}
<1>1. /\ phase[TheProcess] = "read_results" /\ phase'[TheProcess] = "recovering"
      /\ recovering'[TheProcess] = interrupted
      /\ memory'[TheProcess] =
           [j \in Jobs |-> IF j \in interrupted THEN [read[j] EXCEPT !.status = "failed"] ELSE read[j]]
      /\ UNCHANGED <<submissions, results, stamp>>
  BY DEF Alone, ReadResults, Move, TypeOK, ProcessesOK, files, recorded
<1>2. read = ReadInto(results, ReadInto(submissions, NoRecords))
  BY <1>1 DEF DirectoryAgrees, MemoryAgrees, At
<1>3. \A j \in Jobs : read[j] = OnDisk(j)
  BY <1>2 DEF OnDisk
<1>4. \A j \in Jobs : read[j] \in [job : Jobs, status : Pending \cup Terminal, updated_at : 1..clock]
                                    \cup Range(NoRecords)
  BY ReadsWell DEF Alone, TypeOK, FilesOK, Lines
<1>. HIDE DEF read
<1>5. \A j \in Jobs : memory'[TheProcess][j].status =
                        IF read[j].status \in Pending THEN "failed" ELSE read[j].status
  <2>. TAKE j \in Jobs
  <2>1. CASE j \in interrupted
    <3>1. read[j] = NoRecords[j] => read[j].status = "absent"
      BY DEF NoRecords, Record
    <3>2. \A r \in Range(NoRecords) : r.status = "absent"
      BY DEF Range, NoRecords, Record
    <3>3. read[j] \in [job : Jobs, status : Pending \cup Terminal, updated_at : 1..clock]
      BY <1>4, <2>1, <3>2 DEF Pending
    <3>4. [read[j] EXCEPT !.status = "failed"].status = "failed"
      BY <3>3
    <3>. QED
      BY <1>1, <2>1, <3>4
  <2>2. CASE j \notin interrupted
    BY <1>1, <2>2
  <2>. QED
    BY <2>1, <2>2
<1>6. \A j \in Jobs : Store(0)!StatusOnDisk(j) = read[j].status
  BY <1>3, StatusSeen
<1>7. InLoadJobs'
  BY <1>1 DEF InLoadJobs, Writing
<1>8. StoreRecovering' = {j \in Jobs : Store(0)!StatusOnDisk(j) \in Pending}
  BY <1>1, <1>6 DEF StoreRecovering
<1>9. StoreJobs' = [j \in Jobs |-> IF Store(0)!StatusOnDisk(j) \in Pending THEN "failed"
                                   ELSE Store(0)!StatusOnDisk(j)]
  BY <1>5, <1>6, <1>7 DEF StoreJobs
<1>10. UNCHANGED <<StoreLater, StoreSubmissions, StoreResults>>
  BY <1>1 DEF StoreLater, StoreSubmissions, StoreResults
<1>. QED
  BY <1>8, <1>9, <1>10 DEF Store!LoadRecords, Store!Pending, Pending

\* The first line of a job in results.jsonl is the first JobStore sees of it.
LEMMA AppendSeen ==
    ASSUME TypeOK, FilesAgree, ~cut, DirectoryAgrees, TypeOK', DirectoryAgrees',
           NEW r \in [job : Jobs, status : Pending \cup Terminal, updated_at : Nat],
           NEW j \in Jobs, r.job = j, ~Has(results, j), results' = AppendLine(results, r)
    PROVE  Store(0)!AppendResultLine(j, r.status)
<1>1. results \in {submissions, results}
  OBVIOUS
<1>2. \A g : g = AppendLine(results, r) =>
        /\ Has(g, j) /\ Line(g, j) = r
        /\ \A i : i # j => /\ Has(g, i) <=> Has(results, i)
                           /\ Has(results, i) => Line(g, i) = Line(results, i)
  BY <1>1, FirstAppend
<1>3. /\ Has(results', j) /\ Line(results', j) = r
      /\ \A i : i # j => /\ Has(results', i) <=> Has(results, i)
                         /\ Has(results, i) => Line(results', i) = Line(results, i)
  BY <1>2
<1>4. OneStatus(results, j) = <<>> /\ OneStatus(results', j) = <<r.status>>
  BY <1>3 DEF OneStatus
<1>5. \A i \in Jobs : i # j => OneStatus(results', i) = OneStatus(results, i)
  BY <1>3 DEF OneStatus
<1>6. \A i \in Jobs : StoreResults[i] = OneStatus(results, i) /\ StoreResults'[i] = OneStatus(results', i)
  BY ResultsSeen, ResultsSeenNext
<1>7. StoreResults'[j] = Append(StoreResults[j], r.status)
  <2>1. Append(<<>>, r.status) = <<r.status>>
    OBVIOUS
  <2>. QED
    BY <1>4, <1>6, <2>1
<1>8. \A i \in Jobs : i # j => StoreResults'[i] = StoreResults[i]
  BY <1>5, <1>6
<1>9. StoreResults = [i \in Jobs |-> StoreResults[i]] /\ StoreResults' = [i \in Jobs |-> StoreResults'[i]]
  BY DEF StoreResults
<1>10. StoreResults' = [StoreResults EXCEPT ![j] = Append(@, r.status)]
  BY <1>7, <1>8, <1>9
<1>. QED
  BY <1>10 DEF Store!AppendResultLine

\* load_jobs appends a recovered record.
LEMMA RecoverSeen ==
    ASSUME Alone, TypeOK, FilesAgree, ~cut, DirectoryAgrees, TypeOK', DirectoryAgrees',
           NEW j \in Jobs, Recover(TheProcess, j)
    PROVE  Store(0)!AppendRecovered(j)
<1>. DEFINE r == Record(j, "failed", clock + 1)
<1>1. /\ phase[TheProcess] = "recovering" /\ j \in recovering[TheProcess]
      /\ results' = AppendLine(results, r)
      /\ stamp' = [stamp EXCEPT ![j] = clock + 1]
      /\ memory' = [memory EXCEPT ![TheProcess][j] = r]
      /\ recovering' = [recovering EXCEPT ![TheProcess] = @ \ {j}]
      /\ UNCHANGED <<phase, submissions>>
  BY DEF Recover, Remember
<1>2. /\ r \in [job : Jobs, status : Pending \cup Terminal, updated_at : Nat]
      /\ r.job = j /\ r.status = "failed"
  BY RecordsAreWhole DEF Terminal
<1>. HIDE DEF r
<1>3. ~Has(results, j) /\ Known(j).status = "failed" /\ InLoadJobs /\ InLoadJobs'
  BY <1>1 DEF DirectoryAgrees, RecoveryAgrees, At, Writing, InLoadJobs
<1>4. Store(0)!AppendResultLine(j, "failed")
  BY <1>1, <1>2, <1>3, AppendSeen
<1>5. Store(0)!Touch(j)
  BY <1>1, StampSeen
<1>6. /\ recovering'[TheProcess] = recovering[TheProcess] \ {j}
      /\ memory'[TheProcess][j] = r
      /\ \A k \in Jobs \ {j} : memory'[TheProcess][k] = memory[TheProcess][k]
  BY <1>1 DEF Alone, TypeOK, ProcessesOK
<1>7. StoreJobs' = StoreJobs
  <2>1. \A k \in Jobs : memory'[TheProcess][k].status = memory[TheProcess][k].status
    BY <1>2, <1>3, <1>6 DEF Known
  <2>. QED
    BY <1>3, <2>1 DEF StoreJobs
<1>8. StoreSubmissions' = StoreSubmissions /\ StoreRecovering' = StoreRecovering \ {j}
  BY <1>1, <1>6 DEF StoreSubmissions, StoreRecovering
<1>. QED
  BY <1>1, <1>4, <1>5, <1>7, <1>8 DEF Store!AppendRecovered, StoreRecovering

\* The limit of a process in load_jobs is one JobStore may be given.
LEMMA LimitSeen ==
    ASSUME Alone, TypeOK, ConfigAgrees, DirectoryAgrees, At(Writing \ {"recovering"})
    PROVE  Limit \in Limits /\ Limit # 0
<1>1. phase[TheProcess] \notin Ended
  BY StepsDiffer DEF At
<1>2. PICK src \in Sources : ~ConfigRefused(src) /\ config[TheProcess] = Effective(src)
  BY <1>1 DEF Alone, ConfigAgrees
<1>. QED
  BY <1>2, LimitsAssumption DEF Limit, DirectoryAgrees, CompactionAgrees

\* The first write of compaction.
LEMMA SubmissionsSeen ==
    ASSUME Alone, TypeOK, DirectoryAgrees, NEW n, n = Limit, n # 0,
           Replace(TheProcess, "submissions", "replace_submissions", "write_results")
    PROVE  InLoadJobs /\ Store(n)!CompactSubmissions
<1>1. /\ At(Writing) /\ recovering[TheProcess] = {}
      /\ \A j \in Jobs : ~Has(submissions', j)
  BY SubmissionsReplaced
<1>2. /\ phase'[TheProcess] = "write_results"
      /\ UNCHANGED <<memory, recovering, results, stamp>>
  BY DEF Replace, Move, Alone, TypeOK, ProcessesOK, recorded
<1>3. InLoadJobs /\ InLoadJobs'
  BY <1>1, <1>2 DEF InLoadJobs, At, Writing
<1>4. \A j \in Jobs : StoreJobs[j] \notin Pending
  BY <1>1, <1>3, AllFinished DEF StoreJobs, Known, Pending, Terminal
<1>5. StoreSubmissions' = {}
  BY <1>1 DEF StoreSubmissions, Has
<1>6. UNCHANGED <<StoreJobs, StoreLater, StoreResults, StoreRecovering>>
  BY <1>2, <1>3 DEF StoreJobs, StoreLater, StoreResults, StoreRecovering
<1>7. {j \in Store(n)!CompactedRecords : StoreJobs[j] \in Pending} = {}
  BY <1>4 DEF Store!CompactedRecords, Store!RecentRecords, Store!Present
<1>. QED
  BY <1>3, <1>5, <1>6, <1>7 DEF Store!CompactSubmissions, Store!Pending, Pending

\* JobStore counts as this module does.
LEMMA SameCount == \A X, limit : Store(limit)!Cardinality(X) = Cardinality(X)
BY DEF Store!Cardinality, Cardinality

\* The records kept for the results are those JobStore keeps: their stamps are
\* in the order JobStore has of them.
LEMMA KeptSeen ==
    ASSUME Alone, TypeOK, DirectoryAgrees, At(Writing), recovering[TheProcess] = {}, NEW j \in Jobs,
           NEW n, n = Limit
    PROVE  j \in Store(n)!CompactedRecords /\ StoreJobs[j] \in Terminal
             <=> Known(j) \in Kept(TheProcess, "results")
<1>1. \A k \in Jobs : StoreJobs[k] = Known(k).status
  BY DEF StoreJobs, InLoadJobs, At, Known
<1>2. "absent" \notin Terminal
  BY DEF Terminal
<1>3. \A k \in Jobs : Known(k).status # "absent" => Known(k).updated_at = stamp[k]
  BY AllFinished
<1>4. Store(n)!Present = {k \in Jobs : Known(k).status # "absent"}
  BY <1>1 DEF Store!Present
<1>5. j \in Store(n)!CompactedRecords <=>
        /\ Known(j).status # "absent"
        /\ Cardinality({k \in Store(n)!Present : <<k, j>> \in StoreLater}) < n
  <2>. DEFINE P == Store(n)!Present
              before(i) == {k \in P : <<k, i>> \in StoreLater}
  <2>1. Store(n)!CompactedRecords = {i \in P : Cardinality(before(i)) < n}
    <3>1. Store(n)!CompactedRecords = Store(n)!RecentRecords(Store(n)!Present, n)
      BY DEF Store!CompactedRecords
    <3>2. Store(n)!RecentRecords(P, n) = {i \in P : Cardinality(before(i)) < n}
      BY SameCount DEF Store!RecentRecords
    <3>. QED
      BY <3>1, <3>2
  <2>2. j \in P <=> Known(j).status # "absent"
    BY <1>4
  <2>. HIDE DEF P, before
  <2>3. j \in Store(n)!CompactedRecords <=> Known(j).status # "absent" /\ Cardinality(before(j)) < n
    BY <2>1, <2>2
  <2>. QED
    BY <2>3 DEF P, before
<1>6. Known(j).status # "absent" => {k \in Store(n)!Present : <<k, j>> \in StoreLater} = Newer(j)
  BY <1>3, <1>4 DEF Newer, StoreLater
<1>7. Known(j).status # "absent" =>
        Cardinality({k \in Store(n)!Present : <<k, j>> \in StoreLater}) = Cardinality(Newer(j))
  BY <1>6
<1>. QED
  BY <1>1, <1>2, <1>5, <1>7, KeptIff

\* The second write of compaction.
LEMMA ResultsCompactedSeen ==
    ASSUME Alone, TypeOK, StampsAgree, DirectoryAgrees, TypeOK', DirectoryAgrees', NEW n, n = Limit, n # 0,
           Replace(TheProcess, "results", "replace_results", "loaded")
    PROVE  InLoadJobs /\ Store(n)!CompactResults
<1>1. /\ At(Writing) /\ recovering[TheProcess] = {}
      /\ \A j \in Jobs : /\ Has(results', j) <=> Known(j) \in Kept(TheProcess, "results")
                         /\ Has(results', j) => Line(results', j) = Known(j)
  BY ResultsReplaced
<1>2. /\ phase'[TheProcess] = "loaded"
      /\ UNCHANGED <<memory, recovering, submissions, stamp>>
  BY DEF Replace, Move, Alone, TypeOK, ProcessesOK, recorded
<1>3. InLoadJobs /\ InLoadJobs'
  BY <1>1, <1>2 DEF InLoadJobs, At
<1>4. UNCHANGED <<StoreJobs, StoreLater, StoreSubmissions, StoreRecovering>>
  BY <1>2, <1>3 DEF StoreJobs, StoreLater, StoreSubmissions, StoreRecovering
<1>5. \A j \in Jobs : StoreJobs[j] = Known(j).status
  BY <1>3 DEF StoreJobs, Known
<1>6. \A j \in Jobs : StoreResults'[j] =
        IF j \in Store(n)!CompactedRecords /\ StoreJobs[j] \in Terminal
          THEN <<StoreJobs[j]>> ELSE <<>>
  <2>. TAKE j \in Jobs
  <2>1. StoreResults'[j] = OneStatus(results', j)
    BY ResultsSeenNext
  <2>2. j \in Store(n)!CompactedRecords /\ StoreJobs[j] \in Terminal <=> Has(results', j)
    BY <1>1, KeptSeen
  <2>3. OneStatus(results', j) = IF Has(results', j) THEN <<StoreJobs[j]>> ELSE <<>>
    BY <1>1, <1>5 DEF OneStatus
  <2>. QED
    BY <2>1, <2>2, <2>3
<1>7. StoreResults' = [j \in Jobs |-> StoreResults'[j]]
  BY DEF StoreResults
<1>8. StoreResults' =
        [j \in Jobs |-> IF j \in Store(n)!CompactedRecords /\ StoreJobs[j] \in Terminal
                          THEN <<StoreJobs[j]>> ELSE <<>>]
  BY <1>6, <1>7
<1>. QED
  BY <1>3, <1>4, <1>8 DEF Store!CompactResults, Store!Terminal, Terminal

\* A handler or a worker stamps a record.
LEMMA StampsSeen ==
    ASSUME Alone, TypeOK, DirectoryAgrees, NEW j \in Jobs,
           Submit(TheProcess, j) \/ \E s \in Terminal : Finish(TheProcess, j, s)
    PROVE  Stamps(j)
<1>1. /\ At({"serving", "draining"}) /\ stamp' = [stamp EXCEPT ![j] = clock + 1]
      /\ UNCHANGED <<phase, recovering, submissions, results>>
  BY DEF Submit, Finish, Remember, At, files
<1>2. UNCHANGED <<StoreJobs, StoreRecovering>>
  BY <1>1, ServingSeen
<1>3. UNCHANGED <<StoreSubmissions, StoreResults>>
  BY <1>1 DEF StoreSubmissions, StoreResults
<1>4. Store(0)!Touch(j)
  BY <1>1, StampSeen
<1>. QED
  BY <1>2, <1>3, <1>4 DEF Stamps

\* An append of a handler or a worker.
LEMMA SaveSeen ==
    ASSUME Alone, TypeOK, FilesAgree, ~cut, DirectoryAgrees, TypeOK', DirectoryAgrees',
           NEW u \in unsaved[TheProcess], Save(TheProcess, u)
    PROVE  \E j \in Jobs : AppendsSubmission(j) \/ \E s \in Terminal : AppendsResult(j, s)
<1>. DEFINE r == u[2]
            j == u[2].job
<1>1. /\ At({"serving", "draining"})
      /\ r \in Lines /\ j \in Jobs /\ u[1] \in {"submissions", "results"}
  BY SavingServes
<1>2. r \in [job : Jobs, status : Pending \cup Terminal, updated_at : Nat]
  BY <1>1 DEF Lines, TypeOK, FilesOK
<1>3. LinesAgree(j) /\ ServingAgrees(j)
  BY <1>1 DEF DirectoryAgrees
<1>4. /\ ~Has(results, j)
      /\ u[1] = "submissions" => ~Has(submissions, j)
      /\ u[1] = "results" => r.status \in Terminal
  BY <1>1, <1>3 DEF ServingAgrees, LinesAgree
<1>5. UNCHANGED <<phase, recovering, stamp>>
  BY DEF Save, Saving
<1>6. UNCHANGED <<StoreJobs, StoreRecovering, StoreLater>>
  BY <1>1, <1>5, ServingSeen DEF StoreLater
<1>7. r.job = j
  OBVIOUS
<1>8. CASE u[1] = "submissions"
  <2>1. submissions' = AppendLine(submissions, r) /\ results' = results
    BY <1>8 DEF Save
  <2>. HIDE DEF r, j
  <2>2. \A g : g = AppendLine(submissions, r) =>
          Has(g, j) /\ \A i : i # j => (Has(g, i) <=> Has(submissions, i))
    <3>1. submissions \in {submissions, results}
      OBVIOUS
    <3>. QED
      BY <1>2, <1>4, <1>7, <1>8, <3>1, FirstAppend
  <2>3. Has(submissions', j) /\ \A i : i # j => (Has(submissions', i) <=> Has(submissions, i))
    BY <2>1, <2>2
  <2>4. StoreSubmissions' = StoreSubmissions \cup {j}
    BY <1>1, <2>3 DEF StoreSubmissions, Has
  <2>5. AppendsSubmission(j)
    BY <1>6, <2>1, <2>4 DEF AppendsSubmission, StoreResults
  <2>. QED
    BY <1>1, <2>5
<1>9. CASE u[1] = "results"
  <2>1. results' = AppendLine(results, r) /\ submissions' = submissions
    BY <1>9 DEF Save
  <2>. HIDE DEF r, j
  <2>2. Store(0)!AppendResultLine(j, r.status)
    BY <1>1, <1>2, <1>4, <1>7, <2>1, AppendSeen
  <2>3. AppendsResult(j, r.status)
    BY <1>6, <2>1, <2>2 DEF AppendsResult, StoreSubmissions
  <2>. QED
    BY <1>1, <1>4, <1>9, <2>3
<1>. QED
  BY <1>1, <1>8, <1>9

\* Every step is one of JobStore, or one that it does not see.
LEMMA StoreStepSeen ==
    Alone /\ StartupInv /\ DirectoryInv /\ [Next]_vars => [cut' \/ StoreStep]_storeView
<1>. SUFFICES ASSUME Alone, StartupInv, DirectoryInv, [Next]_vars, ~cut'
              PROVE  StoreStep \/ UNCHANGED storeView
  OBVIOUS
<1>1. TypeOK /\ StampsAgree /\ ConfigAgrees /\ FilesAgree
  BY DEF StartupInv
<1>2. TypeOK' /\ DirectoryAgrees'
  BY <1>1, TypeStep, DirectoryStep DEF DirectoryInv
<1>3. CASE UNCHANGED vars
  BY <1>3 DEF vars, files, recorded, storeView, StoreJobs, StoreLater, StoreSubmissions,
     StoreResults, StoreRecovering, InLoadJobs
<1>4. CASE Next
  <2>1. /\ LoadConfig(TheProcess) \/ PrepareConfig(TheProcess) \/ OpenQueue(TheProcess)
             \/ ReadSubmissions(TheProcess) \/ ReadResults(TheProcess)
             \/ (\E j \in Jobs : Recover(TheProcess, j))
             \/ BeginCompaction(TheProcess) \/ Compact(TheProcess)
             \/ Bind(TheProcess) \/ BindFails(TheProcess)
             \/ (\E j \in Jobs : Submit(TheProcess, j) \/ \E s \in Terminal : Finish(TheProcess, j, s))
             \/ (\E u \in unsaved[TheProcess] : Save(TheProcess, u))
             \/ Drain(TheProcess) \/ Stop(TheProcess)
    BY <1>4 DEF Alone, Next, RecoverFails, SaveFails
  <2>2. ~cut
    BY <2>1 DEF LoadConfig, PrepareConfig, OpenQueue, ReadSubmissions, ReadResults, Recover,
       BeginCompaction, Compact, WriteTemp, Replace, WriteTempFails, Bind, BindFails, Submit, Finish,
       Save, Drain, Stop
  <2>3. DirectoryAgrees
    BY <2>2 DEF DirectoryInv
  <2>4. CASE UNCHANGED <<submissions, results, stamp>> /\ ~InLoadJobs'
    <3>1. recovering'[TheProcess] = {}
      BY <1>2, <2>4 DEF DirectoryAgrees, MemoryAgrees, At, InLoadJobs, Writing
    <3>. QED
      BY <2>4, <3>1, StopSeen DEF StoreStep
  <2>5. CASE \/ LoadConfig(TheProcess) \/ PrepareConfig(TheProcess) \/ OpenQueue(TheProcess)
             \/ ReadSubmissions(TheProcess) \/ Bind(TheProcess) \/ Drain(TheProcess)
             \/ \E how \in Ended : End(TheProcess, how) /\ UNCHANGED <<submissions, results, stamp>>
    <3>1. UNCHANGED <<submissions, results, stamp>>
      BY <2>5 DEF LoadConfig, PrepareConfig, OpenQueue, ReadSubmissions, Bind, Drain, files, recorded
    <3>2. phase'[TheProcess] \in Ended \cup Checking \cup Reading \cup {"serving", "draining"}
      BY <1>1, <2>5 DEF Alone, TypeOK, ProcessesOK, LoadConfig, PrepareConfig, OpenQueue,
         ReadSubmissions, Bind, Drain, Move, End, Ended, Checking, Reading
    <3>3. ~InLoadJobs'
      BY <3>2, StepsDiffer DEF InLoadJobs, Writing, Ended, Checking, Reading
    <3>. QED
      BY <2>4, <3>1, <3>3
  <2>6. CASE ReadResults(TheProcess) /\ ~End(TheProcess, "unreadable")
    BY <1>1, <2>3, <2>6, LoadSeen DEF StoreStep
  <2>7. CASE \E j \in Jobs : Recover(TheProcess, j)
    BY <1>1, <1>2, <2>2, <2>3, <2>7, RecoverSeen DEF StoreStep
  <2>8. CASE \/ BeginCompaction(TheProcess)
             \/ WriteTemp(TheProcess, "submissions", "write_submissions", "replace_submissions")
             \/ WriteTemp(TheProcess, "results", "write_results", "replace_results")
    <3>1. UNCHANGED <<memory, recovering, submissions, results, stamp>>
      BY <2>8 DEF BeginCompaction, WriteTemp, files, recorded
    <3>2. InLoadJobs /\ InLoadJobs'
      BY <1>1, <2>8 DEF Alone, TypeOK, ProcessesOK, BeginCompaction, WriteTemp, Move, InLoadJobs, Writing
    <3>. QED
      BY <3>1, <3>2 DEF storeView, StoreJobs, StoreLater, StoreSubmissions, StoreResults, StoreRecovering
  <2>9. CASE Replace(TheProcess, "submissions", "replace_submissions", "write_results")
    <3>1. At(Writing \ {"recovering"})
      BY <2>9 DEF Replace, Move, At, Writing
    <3>2. Limit \in Limits /\ Limit # 0
      BY <1>1, <2>3, <3>1, LimitSeen
    <3>3. PICK n \in Limits : n = Limit /\ n # 0
      BY <3>2
    <3>4. InLoadJobs /\ Store(n)!CompactSubmissions
      BY <1>1, <2>3, <2>9, <3>3, SubmissionsSeen
    <3>. QED
      BY <3>3, <3>4 DEF StoreStep, Limit
  <2>10. CASE Replace(TheProcess, "results", "replace_results", "loaded")
    <3>1. At(Writing \ {"recovering"})
      BY <2>10 DEF Replace, Move, At, Writing
    <3>2. Limit \in Limits /\ Limit # 0
      BY <1>1, <2>3, <3>1, LimitSeen
    <3>3. PICK n \in Limits : n = Limit /\ n # 0
      BY <3>2
    <3>4. InLoadJobs /\ Store(n)!CompactResults
      BY <1>1, <1>2, <2>3, <2>10, <3>3, ResultsCompactedSeen
    <3>. QED
      BY <3>3, <3>4 DEF StoreStep, Limit
  <2>11. CASE \E j \in Jobs : Submit(TheProcess, j) \/ \E s \in Terminal : Finish(TheProcess, j, s)
    BY <1>1, <2>3, <2>11, StampsSeen DEF StoreStep
  <2>12. CASE \E u \in unsaved[TheProcess] : Save(TheProcess, u)
    <3>1. \E j \in Jobs : AppendsSubmission(j) \/ \E s \in Terminal : AppendsResult(j, s)
      BY <1>1, <1>2, <2>2, <2>3, <2>12, SaveSeen
    <3>. QED
      BY <3>1 DEF StoreStep
  <2>. QED
    <3>1. BindFails(TheProcess) \/ Stop(TheProcess) =>
            \E how \in Ended : End(TheProcess, how) /\ UNCHANGED <<submissions, results, stamp>>
      BY DEF BindFails, Stop, Ended, files, recorded
    <3>2. ReadResults(TheProcess) /\ End(TheProcess, "unreadable") =>
            \E how \in Ended : End(TheProcess, how) /\ UNCHANGED <<submissions, results, stamp>>
      BY DEF ReadResults, Ended, files, recorded
    <3>3. \A file, from : WriteTempFails(TheProcess, file, from) =>
            \E how \in Ended : End(TheProcess, how) /\ UNCHANGED <<submissions, results, stamp>>
      BY DEF WriteTempFails, Ended, recorded
    <3>. QED
      BY <2>1, <2>5, <2>6, <2>7, <2>8, <2>9, <2>10, <2>11, <2>12, <3>1, <3>2, <3>3 DEF Compact
<1>. QED
  BY <1>3, <1>4

\* The directory begins as that of JobStore.
LEMMA StoreBeginsSeen == Alone /\ Init => Store(0)!StoreInit
<1>. SUFFICES ASSUME Alone, Init PROVE Store(0)!StoreInit
  OBVIOUS
<1>1. /\ phase[TheProcess] = "stopped" /\ recovering[TheProcess] = {}
      /\ submissions = EmptyFile /\ results = EmptyFile /\ stamp = [j \in Jobs |-> 0]
  BY DEF Alone, Init
<1>2. \A j : LinesOf(EmptyFile, j) = {}
  BY DEF LinesOf, EmptyFile
<1>3. StoreJobs = [j \in Jobs |-> "absent"] /\ StoreRecovering = {}
  BY <1>1 DEF StoreJobs, StoreRecovering, InLoadJobs, Writing
<1>4. StoreLater = {} /\ StoreSubmissions = {}
  BY <1>1, <1>2 DEF StoreLater, StoreSubmissions
<1>5. StoreResults = [j \in Jobs |-> <<>>]
  <2>1. EmptyFile \in FileOver({})
    BY DEF EmptyFile, FileOver
  <2>2. \A j \in Jobs : Statuses(EmptyFile)[j] = OneStatus(EmptyFile, j)
    BY <1>2, <2>1, StatusOfLine
  <2>3. \A j \in Jobs : Statuses(EmptyFile)[j] = <<>>
    BY <1>2, <2>2 DEF OneStatus, Has
  <2>4. StoreResults = Statuses(EmptyFile) /\ StoreResults = [j \in Jobs |-> StoreResults[j]]
    BY <1>1 DEF StoreResults, Statuses
  <2>. QED
    BY <2>3, <2>4
<1>. QED
  BY <1>3, <1>4, <1>5 DEF Store!StoreInit

\* What one process does to its files line by line, with all its starts, ends
\* and failures but a write cut short, is what JobStore says of the files.
THEOREM ImplementsStoreCorrect == Cardinality(Processes) = 1 => (Spec => ImplementsStore)
<1>. SUFFICES ASSUME Cardinality(Processes) = 1 PROVE Spec => ImplementsStore
  OBVIOUS
<1>1. Alone
  BY StartupAssumption, FS_Singleton DEF Alone, TheProcess
<1>2. StartupInv /\ DirectoryInv /\ [Next]_vars => [cut' \/ StoreStep]_storeView
  BY <1>1, StoreStepSeen
<1>3. Init => Store(0)!StoreInit
  BY <1>1, StoreBeginsSeen
<1>4. Spec => []DirectoryInv
  BY DirectoryInvariance
<1>. QED
  BY <1>2, <1>3, <1>4, StartupInvariance, PTL DEF Spec, ImplementsStore
=============================================================================
