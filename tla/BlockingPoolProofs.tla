------------------------- MODULE BlockingPoolProofs -------------------------
(***************************************************************************)
(* Proofs about BlockingPool, for every number of workers, threads and     *)
(* handlers, and every timeout.                                            *)
(***************************************************************************)
EXTENDS BlockingPool, WorkerPoolProofs, SequenceTheorems, FunctionTheorems

\* A task whose JoinHandle c still holds.
AwaitedBy(t, c) == t # Idle /\ t.for = c /\ t.awaited

\* An inference with the model sessions of c.
CarriesFor(t, c) == IsInference(t) /\ t.for = c

\* Only workers load and infer.
KindsAgree ==
    /\ \A i \in DOMAIN waiting : CarriesSessions(waiting[i]) => waiting[i].for \in Workers
    /\ \A t \in Threads : CarriesSessions(thread[t]) => thread[t].for \in Workers

\* A worker awaits one task at a time.
AwaitsOne(w) ==
    /\ \A i, k \in DOMAIN waiting :
         AwaitedBy(waiting[i], w) /\ AwaitedBy(waiting[k], w) => i = k
    /\ \A t, u \in Threads :
         AwaitedBy(thread[t], w) /\ AwaitedBy(thread[u], w) => t = u
    /\ \A i \in DOMAIN waiting, t \in Threads :
         ~(AwaitedBy(waiting[i], w) /\ AwaitedBy(thread[t], w))

\* A worker at recv, or with a request it has not handed on, awaits none.
FreeAwaitsNone(w) == Running /\ wstate[w] \in {"idle", "assigned"} => ~Waits(w)

\* No sessions of w wait for a thread.
NoneWaits(w) == \A i \in DOMAIN waiting : ~CarriesFor(waiting[i], w)

\* At most one set of sessions of w waits for a thread, never behind the task
\* that w awaits, and not once that task has a thread: the queue is FIFO.
QueuesOne(w) ==
    /\ \A i, k \in DOMAIN waiting :
         CarriesFor(waiting[i], w) /\ CarriesFor(waiting[k], w) => i = k
    /\ \A i, k \in DOMAIN waiting :
         AwaitedBy(waiting[i], w) /\ CarriesFor(waiting[k], w) => k <= i
    /\ (\E t \in Threads : AwaitedBy(thread[t], w)) => NoneWaits(w)

\* None waits while w holds sessions; and it loads only when it has none.
HoldsOrQueues(w) ==
    /\ wstate[w] = "starting" => sessions[w] # "worker"
    /\ sessions[w] = "worker" => NoneWaits(w)

\* A step of finish_job.
Finishing(w) ==
    WriteResult(w) \/ DeliveryEnds(w) \/ DeliveryTimesOut(w) \/ RemoveImage(w) \/ ReturnAtOnce(w)

\* The inductive invariant.
BlockingInv ==
    /\ PoolInv /\ TypeOK /\ KindsAgree
    /\ \A w \in Workers :
         AwaitsOne(w) /\ FreeAwaitsNone(w) /\ QueuesOne(w) /\ HoldsOrQueues(w)

-----------------------------------------------------------------------------
(* What submitting, detaching, taking and discarding do to the queue.      *)

\* A queued task is no idle thread, and Waits looks at queue and threads.
LEMMA WaitsAgrees ==
    ASSUME TypeOK, NEW w
    PROVE  Waits(w) <=> \/ \E i \in DOMAIN waiting : AwaitedBy(waiting[i], w)
                        \/ \E t \in Threads : AwaitedBy(thread[t], w)
<1>1. \A i \in DOMAIN waiting : waiting[i] \in Task
  BY ElementOfSeq, LenProperties DEF TypeOK
<1>2. \A t \in Task : t # Idle
  BY DEF Task, Idle
<1>. QED
  BY <1>1, <1>2 DEF Waits, AwaitedBy, ToSet

\* The queue after Submit.
LEMMA SubmitQueue ==
    ASSUME waiting \in Seq(Task), NEW kind \in {"load", "inference", "file"},
           NEW c \in Workers \cup Handlers, Submit(kind, c)
    PROVE  /\ waiting' \in Seq(Task)
           /\ DOMAIN waiting = 1..Len(waiting) /\ Len(waiting) \in Nat
           /\ DOMAIN waiting' = 1..(Len(waiting) + 1)
           /\ \A i \in DOMAIN waiting : waiting'[i] = waiting[i]
           /\ waiting'[Len(waiting) + 1] = NewTask(kind, c)
<1>1. NewTask(kind, c) \in Task /\ waiting' = Append(waiting, NewTask(kind, c))
  BY DEF NewTask, Task, Submit
<1>2. Len(waiting) \in Nat /\ DOMAIN waiting = 1..Len(waiting)
  BY LenProperties
<1>3. waiting' \in Seq(Task) /\ Len(waiting') = Len(waiting) + 1
  BY <1>1, AppendProperties
<1>4. DOMAIN waiting' = 1..(Len(waiting) + 1)
  BY <1>3, LenProperties
<1>5. \A i \in 1..Len(waiting) : waiting'[i] = waiting[i]
  BY <1>1, AppendProperties
<1>6. waiting'[Len(waiting) + 1] = NewTask(kind, c)
  BY <1>1, AppendProperties
<1>. QED
  BY <1>2, <1>3, <1>4, <1>5, <1>6

\* The queue after its head is taken.
LEMMA TailQueue ==
    ASSUME waiting \in Seq(Task), waiting # <<>>, waiting' = Tail(waiting)
    PROVE  /\ waiting' \in Seq(Task)
           /\ DOMAIN waiting = 1..Len(waiting) /\ Len(waiting) \in Nat \ {0}
           /\ DOMAIN waiting' = 1..(Len(waiting) - 1)
           /\ \A i \in DOMAIN waiting' : waiting'[i] = waiting[i + 1]
           /\ Head(waiting) = waiting[1] /\ waiting[1] \in Task
<1>1. Len(waiting) \in Nat \ {0} /\ DOMAIN waiting = 1..Len(waiting)
  BY LenProperties, EmptySeq
<1>2. waiting' \in Seq(Task) /\ Len(waiting') = Len(waiting) - 1
  BY HeadTailProperties
<1>3. DOMAIN waiting' = 1..(Len(waiting) - 1)
  BY <1>2, LenProperties
<1>4. \A i \in 1..(Len(waiting) - 1) : waiting'[i] = waiting[i + 1]
  BY <1>1, HeadTailProperties
<1>5. Head(waiting) = waiting[1] /\ waiting[1] \in Task
  BY <1>1, HeadTailProperties, ElementOfSeq
<1>. QED
  BY <1>1, <1>2, <1>3, <1>4, <1>5

\* Of a task, a dropped handle changes only whether it is awaited.
LEMMA DroppedTask ==
    ASSUME NEW task \in Task \cup {Idle}, NEW cs
    PROVE  /\ Dropped(task, cs) = Idle <=> task = Idle
           /\ task \in Task => Dropped(task, cs) \in Task
           /\ Dropped(task, cs).kind = task.kind
           /\ CarriesSessions(Dropped(task, cs)) <=> CarriesSessions(task)
           /\ CarriesSessions(task) => Dropped(task, cs).for = task.for
           /\ IsInference(Dropped(task, cs)) <=> IsInference(task)
           /\ \A c : AwaitedBy(Dropped(task, cs), c) <=> AwaitedBy(task, c) /\ c \notin cs
           /\ \A c : CarriesFor(Dropped(task, cs), c) <=> CarriesFor(task, c)
<1>1. CASE task = Idle
  BY <1>1 DEF Dropped, Idle, Task, AwaitedBy, CarriesFor, CarriesSessions, IsInference
<1>2. CASE task \in Task /\ task.for \notin cs
  <2>1. Dropped(task, cs) = task
    BY <1>2 DEF Dropped
  <2>. QED
    BY <1>2, <2>1 DEF AwaitedBy
<1>3. CASE task \in Task /\ task.for \in cs
  <2>1. task # Idle /\ Dropped(task, cs) = [task EXCEPT !.awaited = FALSE]
    BY <1>3 DEF Dropped, Task, Idle
  <2>2. /\ Dropped(task, cs) \in Task /\ Dropped(task, cs).awaited = FALSE
        /\ Dropped(task, cs).kind = task.kind /\ Dropped(task, cs).for = task.for
    BY <1>3, <2>1 DEF Task
  <2>3. Dropped(task, cs) # Idle
    BY <2>2 DEF Task, Idle
  <2>. QED
    BY <1>3, <2>1, <2>2, <2>3 DEF AwaitedBy, CarriesFor, CarriesSessions, IsInference
<1>. QED
  BY <1>1, <1>2, <1>3

\* Queue and threads after handles are dropped.
LEMMA DetachQueue ==
    ASSUME TypeOK, NEW cs, Detach(cs)
    PROVE  /\ waiting' \in Seq(Task) /\ DOMAIN waiting' = DOMAIN waiting
           /\ thread' \in [Threads -> Task \cup {Idle}]
           /\ \A i \in DOMAIN waiting : waiting'[i] = Dropped(waiting[i], cs)
           /\ \A t \in Threads : thread'[t] = Dropped(thread[t], cs)
           /\ \A i \in DOMAIN waiting : waiting[i] \in Task
<1>1. Len(waiting) \in Nat /\ DOMAIN waiting = 1..Len(waiting)
  BY LenProperties DEF TypeOK
<1>2. \A i \in DOMAIN waiting : waiting[i] \in Task
  BY <1>1, ElementOfSeq DEF TypeOK
<1>3. \A i \in DOMAIN waiting : Dropped(waiting[i], cs) \in Task
  BY <1>2, DroppedTask
<1>4. waiting' = [i \in 1..Len(waiting) |-> Dropped(waiting[i], cs)]
  BY <1>1 DEF Detach
<1>5. waiting' \in [1..Len(waiting) -> Task]
  BY <1>1, <1>3, <1>4
<1>6. waiting' \in Seq(Task)
  BY <1>1, <1>5, SeqDef
<1>7. \A t \in Threads : Dropped(thread[t], cs) \in Task \cup {Idle}
  <2>. SUFFICES ASSUME NEW t \in Threads PROVE Dropped(thread[t], cs) \in Task \cup {Idle}
    OBVIOUS
  <2>1. thread[t] \in Task \cup {Idle}
    BY DEF TypeOK
  <2>2. CASE thread[t] = Idle
    BY <2>2 DEF Dropped
  <2>3. CASE thread[t] \in Task
    BY <2>3, DroppedTask
  <2>. QED
    BY <2>1, <2>2, <2>3
<1>. QED
  BY <1>1, <1>2, <1>4, <1>6, <1>7 DEF Detach

-----------------------------------------------------------------------------
(* What they do to the tasks of one worker.                                *)

\* A task of another caller changes nothing for w; one of its own is awaited,
\* and joins a queue in which w awaits none.
LEMMA SubmitKeeps ==
    ASSUME TypeOK, NEW kind \in {"load", "inference", "file"},
           NEW c \in Workers \cup Handlers, Submit(kind, c), UNCHANGED thread,
           NEW w \in Workers, AwaitsOne(w), QueuesOne(w),
           c = w => ~Waits(w),
           c = w /\ kind = "inference" => NoneWaits(w)
    PROVE  /\ AwaitsOne(w)' /\ QueuesOne(w)'
           /\ Waits(w)' <=> Waits(w) \/ c = w
           /\ NoneWaits(w)' <=> NoneWaits(w) /\ ~(c = w /\ kind = "inference")
<1>. DEFINE new == Len(waiting) + 1
<1>1. /\ DOMAIN waiting = 1..Len(waiting) /\ Len(waiting) \in Nat
      /\ DOMAIN waiting' = 1..new
      /\ \A i \in DOMAIN waiting : waiting'[i] = waiting[i]
      /\ waiting'[new] = NewTask(kind, c) /\ thread' = thread
  BY SubmitQueue DEF TypeOK
<1>2. /\ AwaitedBy(waiting'[new], w) <=> c = w
      /\ CarriesFor(waiting'[new], w) <=> c = w /\ kind = "inference"
  BY <1>1 DEF NewTask, Idle, AwaitedBy, CarriesFor, IsInference
<1>3. waiting' \in Seq(Task) /\ (\A t \in Task : t # Idle)
  <2>1. waiting' \in Seq(Task)
    BY SubmitQueue DEF TypeOK
  <2>. QED
    BY <2>1 DEF Task, Idle
<1>4. Waits(w)' <=> \/ \E i \in DOMAIN waiting' : AwaitedBy(waiting'[i], w)
                    \/ \E t \in Threads : AwaitedBy(thread[t], w)
  <2>1. \A i \in DOMAIN waiting' : waiting'[i] \in Task
    BY <1>3, ElementOfSeq, LenProperties
  <2>. QED
    BY <1>1, <1>3, <2>1 DEF Waits, AwaitedBy, ToSet
<1>5. Waits(w)' <=> Waits(w) \/ c = w
  BY <1>1, <1>2, <1>4, WaitsAgrees
<1>6. NoneWaits(w)' <=> NoneWaits(w) /\ ~(c = w /\ kind = "inference")
  BY <1>1, <1>2 DEF NoneWaits
<1>7. AwaitsOne(w)'
  <2>1. c = w => /\ \A i \in DOMAIN waiting : ~AwaitedBy(waiting[i], w)
                 /\ \A t \in Threads : ~AwaitedBy(thread[t], w)
    BY WaitsAgrees
  <2>. QED
    BY <1>1, <1>2, <2>1 DEF AwaitsOne
<1>8. QueuesOne(w)'
  <2>1. c = w => \A t \in Threads : ~AwaitedBy(thread[t], w)
    BY WaitsAgrees
  <2>2. c = w => \A i \in DOMAIN waiting : ~AwaitedBy(waiting[i], w)
    BY WaitsAgrees
  <2>3. c = w /\ kind = "inference" => \A i \in DOMAIN waiting : ~CarriesFor(waiting[i], w)
    BY DEF NoneWaits
  <2>4. \A i, k \in DOMAIN waiting' :
          CarriesFor(waiting'[i], w) /\ CarriesFor(waiting'[k], w) => i = k
    BY <1>1, <1>2, <2>3 DEF QueuesOne
  <2>5. \A i, k \in DOMAIN waiting' :
          AwaitedBy(waiting'[i], w) /\ CarriesFor(waiting'[k], w) => k <= i
    BY <1>1, <1>2, <2>2, <2>3 DEF QueuesOne
  <2>6. (\E t \in Threads : AwaitedBy(thread'[t], w)) => NoneWaits(w)'
    BY <1>1, <1>6, <2>1 DEF QueuesOne
  <2>. QED
    BY <2>4, <2>5, <2>6 DEF QueuesOne
<1>. QED
  BY <1>5, <1>6, <1>7, <1>8

\* Dropped handles: what is carried stays where it is.
LEMMA DetachKeeps ==
    ASSUME TypeOK, NEW cs, Detach(cs), NEW w \in Workers, AwaitsOne(w), QueuesOne(w)
    PROVE  /\ AwaitsOne(w)' /\ QueuesOne(w)'
           /\ Waits(w)' <=> Waits(w) /\ w \notin cs
           /\ NoneWaits(w)' <=> NoneWaits(w)
<1>1. /\ DOMAIN waiting' = DOMAIN waiting
      /\ \A i \in DOMAIN waiting : waiting[i] \in Task
      /\ \A i \in DOMAIN waiting : waiting'[i] = Dropped(waiting[i], cs)
      /\ \A t \in Threads : thread'[t] = Dropped(thread[t], cs)
      /\ \A t \in Threads : thread[t] \in Task \cup {Idle}
      /\ waiting' \in Seq(Task) /\ (\A t \in Task : t # Idle)
  BY DetachQueue DEF TypeOK, Task, Idle
<1>2. \A i \in DOMAIN waiting :
        /\ AwaitedBy(waiting'[i], w) <=> AwaitedBy(waiting[i], w) /\ w \notin cs
        /\ CarriesFor(waiting'[i], w) <=> CarriesFor(waiting[i], w)
  BY <1>1, DroppedTask
<1>3. \A t \in Threads : AwaitedBy(thread'[t], w) <=> AwaitedBy(thread[t], w) /\ w \notin cs
  BY <1>1, DroppedTask
<1>4. Waits(w)' <=> \/ \E i \in DOMAIN waiting' : AwaitedBy(waiting'[i], w)
                    \/ \E t \in Threads : AwaitedBy(thread'[t], w)
  <2>1. \A i \in DOMAIN waiting' : waiting'[i] \in Task
    BY <1>1, DroppedTask
  <2>. QED
    BY <1>1, <2>1 DEF Waits, AwaitedBy, ToSet
<1>5. Waits(w)' <=> Waits(w) /\ w \notin cs
  BY <1>1, <1>2, <1>3, <1>4, WaitsAgrees
<1>6. NoneWaits(w)' <=> NoneWaits(w)
  BY <1>1, <1>2 DEF NoneWaits
<1>7. AwaitsOne(w)'
  BY <1>1, <1>2, <1>3 DEF AwaitsOne
<1>8. QueuesOne(w)'
  BY <1>1, <1>2, <1>3, <1>6 DEF QueuesOne
<1>. QED
  BY <1>5, <1>6, <1>7, <1>8

\* A free thread takes the oldest task: behind an awaited one no sessions of
\* its worker are left.
LEMMA TakeKeeps ==
    ASSUME TypeOK, Take, NEW w \in Workers, AwaitsOne(w), QueuesOne(w)
    PROVE  /\ AwaitsOne(w)' /\ QueuesOne(w)'
           /\ Waits(w)' <=> Waits(w)
           /\ NoneWaits(w) => NoneWaits(w)'
<1>. PICK f \in Threads : thread[f] = Idle /\ thread' = [thread EXCEPT ![f] = Head(waiting)]
  BY DEF Take, Free
<1>1. /\ DOMAIN waiting = 1..Len(waiting) /\ Len(waiting) \in Nat \ {0}
      /\ DOMAIN waiting' = 1..(Len(waiting) - 1)
      /\ \A i \in DOMAIN waiting' : waiting'[i] = waiting[i + 1]
      /\ waiting' \in Seq(Task) /\ (\A t \in Task : t # Idle)
      /\ Head(waiting) = waiting[1]
  BY TailQueue DEF Take, TypeOK, Task, Idle
<1>2. /\ thread'[f] = waiting[1] /\ ~AwaitedBy(thread[f], w)
      /\ \A t \in Threads : t # f => thread'[t] = thread[t]
  BY <1>1 DEF TypeOK, AwaitedBy
<1>3. \A i \in DOMAIN waiting' : i + 1 \in DOMAIN waiting /\ 1 \in DOMAIN waiting /\ i + 1 # 1
  BY <1>1
<1>4. \A i \in DOMAIN waiting : i = 1 \/ (i - 1 \in DOMAIN waiting' /\ waiting'[i - 1] = waiting[i])
  BY <1>1
<1>5. Waits(w)' <=> \/ \E i \in DOMAIN waiting' : AwaitedBy(waiting'[i], w)
                    \/ \E t \in Threads : AwaitedBy(thread'[t], w)
  <2>1. \A i \in DOMAIN waiting' : waiting'[i] \in Task
    BY <1>1, ElementOfSeq, LenProperties
  <2>. QED
    BY <1>1, <2>1 DEF Waits, AwaitedBy, ToSet
<1>6. Waits(w)' <=> Waits(w)
  <2>1. ASSUME Waits(w) PROVE Waits(w)'
    <3>1. CASE \E t \in Threads : AwaitedBy(thread[t], w)
      BY <1>2, <1>5, <3>1
    <3>2. CASE \E i \in DOMAIN waiting : AwaitedBy(waiting[i], w)
      BY <1>2, <1>4, <1>5, <3>2
    <3>. QED
      BY <2>1, <3>1, <3>2, WaitsAgrees
  <2>2. ASSUME Waits(w)' PROVE Waits(w)
    BY <1>1, <1>2, <1>3, <1>5, <2>2, WaitsAgrees
  <2>. QED
    BY <2>1, <2>2
<1>7. NoneWaits(w) => NoneWaits(w)'
  BY <1>1, <1>3 DEF NoneWaits
<1>8. AwaitsOne(w)'
  <2>1. \A i, k \in DOMAIN waiting' :
          AwaitedBy(waiting'[i], w) /\ AwaitedBy(waiting'[k], w) => i = k
    BY <1>1, <1>3 DEF AwaitsOne
  <2>2. \A t, u \in Threads : AwaitedBy(thread'[t], w) /\ AwaitedBy(thread'[u], w) => t = u
    BY <1>1, <1>2 DEF AwaitsOne
  <2>3. \A i \in DOMAIN waiting', t \in Threads :
          ~(AwaitedBy(waiting'[i], w) /\ AwaitedBy(thread'[t], w))
    BY <1>1, <1>2, <1>3 DEF AwaitsOne
  <2>. QED
    BY <2>1, <2>2, <2>3 DEF AwaitsOne
<1>9. QueuesOne(w)'
  <2>1. \A i, k \in DOMAIN waiting' :
          CarriesFor(waiting'[i], w) /\ CarriesFor(waiting'[k], w) => i = k
    BY <1>1, <1>3 DEF QueuesOne
  <2>2. \A i, k \in DOMAIN waiting' :
          AwaitedBy(waiting'[i], w) /\ CarriesFor(waiting'[k], w) => k <= i
    BY <1>1, <1>3 DEF QueuesOne
  <2>3. ASSUME NEW t \in Threads, AwaitedBy(thread'[t], w) PROVE NoneWaits(w)'
    <3>1. CASE t = f
      <4>1. AwaitedBy(waiting[1], w) /\ 1 \in DOMAIN waiting
        BY <1>1, <1>2, <2>3, <3>1
      <4>2. \A k \in DOMAIN waiting : CarriesFor(waiting[k], w) => k <= 1
        BY <4>1 DEF QueuesOne
      <4>. QED
        BY <1>1, <4>2 DEF NoneWaits
    <3>2. CASE t # f
      BY <1>2, <1>7, <2>3, <3>2 DEF QueuesOne
    <3>. QED
      BY <3>1, <3>2
  <2>. QED
    BY <2>1, <2>2, <2>3 DEF QueuesOne
<1>. QED
  BY <1>6, <1>7, <1>8, <1>9

\* A task returns: if w awaited it, w awaits none now and none of its sessions
\* wait for a thread.
LEMMA ReturnKeeps ==
    ASSUME TypeOK, NEW t \in Threads, Return(t), NEW w \in Workers, AwaitsOne(w), QueuesOne(w)
    PROVE  /\ AwaitsOne(w)' /\ QueuesOne(w)'
           /\ Waits(w)' <=> Waits(w) /\ ~AwaitedBy(thread[t], w)
           /\ NoneWaits(w)' <=> NoneWaits(w)
           /\ AwaitedBy(thread[t], w) => NoneWaits(w)
<1>1. waiting' = waiting /\ thread' = [thread EXCEPT ![t] = Idle]
  BY DEF Return
<1>2. \A u \in Threads : AwaitedBy(thread'[u], w) <=> AwaitedBy(thread[u], w) /\ u # t
  BY <1>1 DEF TypeOK, AwaitedBy
<1>3. Waits(w)' <=> \/ \E i \in DOMAIN waiting : AwaitedBy(waiting[i], w)
                    \/ \E u \in Threads : AwaitedBy(thread'[u], w)
  <2>1. \A i \in DOMAIN waiting : waiting[i] \in Task
    BY ElementOfSeq, LenProperties DEF TypeOK
  <2>2. \A u \in Task : u # Idle
    BY DEF Task, Idle
  <2>. QED
    BY <1>1, <2>1, <2>2 DEF Waits, AwaitedBy, ToSet
<1>4. Waits(w)' <=> Waits(w) /\ ~AwaitedBy(thread[t], w)
  BY <1>2, <1>3, WaitsAgrees DEF AwaitsOne
<1>5. NoneWaits(w)' <=> NoneWaits(w)
  BY <1>1 DEF NoneWaits
<1>6. AwaitsOne(w)' /\ QueuesOne(w)'
  BY <1>1, <1>2, <1>5 DEF AwaitsOne, QueuesOne
<1>. QED
  BY <1>4, <1>5, <1>6 DEF QueuesOne

\* Queue and threads stay as they are.
LEMMA StillKeeps ==
    ASSUME UNCHANGED <<waiting, thread>>, NEW w \in Workers, AwaitsOne(w), QueuesOne(w)
    PROVE  /\ AwaitsOne(w)' /\ QueuesOne(w)'
           /\ Waits(w)' <=> Waits(w)
           /\ NoneWaits(w)' <=> NoneWaits(w)
  BY DEF AwaitsOne, QueuesOne, Waits, NoneWaits

\* The runtime drops the oldest task.
LEMMA DiscardKeeps ==
    ASSUME TypeOK, Discard, NEW w \in Workers, AwaitsOne(w), QueuesOne(w)
    PROVE  AwaitsOne(w)' /\ QueuesOne(w)' /\ (NoneWaits(w) => NoneWaits(w)')
<1>1. /\ DOMAIN waiting = 1..Len(waiting) /\ Len(waiting) \in Nat \ {0}
      /\ DOMAIN waiting' = 1..(Len(waiting) - 1)
      /\ \A i \in DOMAIN waiting' : waiting'[i] = waiting[i + 1]
      /\ thread' = thread
  BY TailQueue DEF Discard, TypeOK
<1>2. \A i \in DOMAIN waiting' : i + 1 \in DOMAIN waiting
  BY <1>1
<1>3. NoneWaits(w) => NoneWaits(w)'
  BY <1>1, <1>2 DEF NoneWaits
<1>4. AwaitsOne(w)'
  BY <1>1, <1>2 DEF AwaitsOne
<1>5. QueuesOne(w)'
  BY <1>1, <1>2, <1>3 DEF QueuesOne
<1>. QED
  BY <1>3, <1>4, <1>5

-----------------------------------------------------------------------------
(* The invariant.                                                          *)

\* Nothing is queued, awaited or held at the start.
LEMMA InitBlocking == Init => BlockingInv
<1>. SUFFICES ASSUME Init PROVE BlockingInv
  OBVIOUS
<1>1. PoolInv
  BY PoolInitInv DEF Init
<1>2. waiting = <<>> /\ waiting \in Seq(Task) /\ DOMAIN waiting = {}
  BY EmptySeq, LenProperties DEF Init
<1>3. TypeOK
  BY <1>1, <1>2 DEF Init, TypeOK, PoolInv, Idle
<1>4. KindsAgree
  BY <1>2 DEF Init, KindsAgree, CarriesSessions, Idle
<1>5. ASSUME NEW w \in Workers
      PROVE  AwaitsOne(w) /\ FreeAwaitsNone(w) /\ QueuesOne(w) /\ HoldsOrQueues(w)
  <2>1. NoneWaits(w)
    BY <1>2 DEF NoneWaits
  <2>2. AwaitsOne(w) /\ QueuesOne(w)
    BY <1>2, <2>1 DEF Init, AwaitsOne, QueuesOne, AwaitedBy
  <2>3. FreeAwaitsNone(w) /\ HoldsOrQueues(w)
    BY <2>1 DEF Init, PoolInit, FreeAwaitsNone, HoldsOrQueues
  <2>. QED
    BY <2>2, <2>3
<1>. QED
  BY <1>1, <1>3, <1>4, <1>5 DEF BlockingInv

\* A step of BlockingPool is a step of the pool, or leaves it alone.
LEMMA NextIsPoolStep ==
    ASSUME TypeOK, KindsAgree, [Next]_vars
    PROVE  [PoolNext]_poolVars
<1>1. ASSUME NEW t \in Threads, Return(t) PROVE [PoolNext]_poolVars
  <2>. DEFINE c == thread[t].for
  <2>1. CASE thread[t].kind \in {"load", "inference"}
    <3>1. c \in Workers
      BY <1>1, <2>1 DEF Return, KindsAgree, CarriesSessions
    <3>. QED
      BY <1>1, <2>1, <3>1 DEF Return, Reply, PoolNext
  <2>2. CASE thread[t].kind \notin {"load", "inference"}
    BY <1>1, <2>2 DEF Return, Reply, Resume, FinishJob, PoolNext
  <2>. QED
    BY <2>1, <2>2
<1>2. ASSUME NEW w \in Workers,
             Load(w) \/ ReceiveJob(w) \/ Infer(w) \/ TimeOut(w) \/ Finishing(w)
      PROVE  [PoolNext]_poolVars
  BY <1>2 DEF Load, ReceiveJob, Infer, TimeOut, Finishing, WriteResult, DeliveryEnds, DeliveryTimesOut, RemoveImage,
     ReturnAtOnce, FinishJob, PoolNext
<1>3. ASSUME NEW h \in Handlers, Accept(h) \/ AnswerTimeout(h)
      PROVE  [PoolNext]_poolVars
  BY <1>3 DEF Accept, AnswerTimeout
<1>4. ASSUME NEW t \in Threads, Hang(t) PROVE [PoolNext]_poolVars
  BY <1>4 DEF Hang
<1>5. CASE Take \/ Signal \/ Leave \/ Discard \/ Exit \/ UNCHANGED vars
  BY <1>5 DEF Take, Signal, Leave, Discard, Exit, PoolNext, vars
<1>. QED
  BY <1>1, <1>2, <1>3, <1>4, <1>5 DEF Next, Finishing

\* Types are kept.
LEMMA TypeStep == ASSUME BlockingInv, [Next]_vars PROVE TypeOK'
<1>. USE DEF BlockingInv
<1>1. PoolTypeOK'
  BY NextIsPoolStep, PoolStepInv DEF PoolInv
<1>2. \A t \in Task : t # Idle
  BY DEF Task, Idle
<1>3. ASSUME NEW kind \in {"load", "inference", "file"}, NEW c \in Workers \cup Handlers,
             Submit(kind, c), UNCHANGED <<thread, hung, phase>>,
             finish' \in [Workers -> {"none", "append", "webhook", "cleanup"}],
             handler' \in [Handlers -> {"away", "writing", "answered"}]
      PROVE  TypeOK'
  <2>1. waiting' \in Seq(Task)
    BY <1>3, SubmitQueue DEF TypeOK
  <2>. QED
    BY <1>1, <1>3, <2>1 DEF TypeOK
<1>4. ASSUME NEW cs, Detach(cs), UNCHANGED hung,
             finish' \in [Workers -> {"none", "append", "webhook", "cleanup"}],
             handler' \in [Handlers -> {"away", "writing", "answered"}],
             phase' \in {"serving", "draining", "leaving", "exited"}
      PROVE  TypeOK'
  <2>1. /\ waiting' \in Seq(Task) /\ thread' \in [Threads -> Task \cup {Idle}]
        /\ \A t \in Threads : thread'[t] = Dropped(thread[t], cs)
    BY <1>4, DetachQueue
  <2>2. \A t \in Threads : /\ thread'[t] = Idle <=> thread[t] = Idle
                           /\ thread'[t].kind = thread[t].kind
    BY <2>1, DroppedTask DEF TypeOK
  <2>. QED
    BY <1>1, <1>4, <2>1, <2>2 DEF TypeOK
<1>5. ASSUME NEW w \in Workers,
             Load(w) \/ ReceiveJob(w) \/ Infer(w) \/ TimeOut(w) \/ Finishing(w)
      PROVE  TypeOK'
  <2>1. CASE Load(w)
    BY <1>3, <2>1 DEF Load, TypeOK
  <2>2. CASE ReceiveJob(w)
    BY <1>1, <2>2 DEF ReceiveJob, TypeOK
  <2>3. CASE Infer(w)
    BY <1>3, <2>3 DEF Infer, TypeOK
  <2>4. CASE TimeOut(w)
    BY <1>4, <2>4 DEF TimeOut, TypeOK
  <2>5. CASE WriteResult(w) \/ RemoveImage(w)
    BY <1>3, <2>5 DEF WriteResult, RemoveImage, NextStep, TypeOK
  <2>6. CASE DeliveryEnds(w) \/ DeliveryTimesOut(w) \/ ReturnAtOnce(w)
    BY <1>1, <2>6 DEF DeliveryEnds, DeliveryTimesOut, ReturnAtOnce, FinishJob, NextStep, TypeOK
  <2>. QED
    BY <1>5, <2>1, <2>2, <2>3, <2>4, <2>5, <2>6 DEF Finishing
<1>6. ASSUME NEW h \in Handlers, Accept(h) PROVE TypeOK'
  BY <1>3, <1>6 DEF Accept, TypeOK
<1>7. ASSUME NEW h \in Handlers, AnswerTimeout(h) PROVE TypeOK'
  BY <1>4, <1>7 DEF AnswerTimeout, TypeOK
<1>8. CASE Take
  <2>. PICK f \in Threads : thread[f] = Idle /\ thread' = [thread EXCEPT ![f] = Head(waiting)]
    BY <1>8 DEF Take, Free
  <2>1. waiting' \in Seq(Task) /\ Head(waiting) \in Task
    BY <1>8, TailQueue DEF Take, TypeOK
  <2>2. f \notin hung
    BY DEF TypeOK
  <2>. QED
    BY <1>1, <1>8, <2>1, <2>2 DEF Take, TypeOK
<1>9. ASSUME NEW t \in Threads, Return(t) PROVE TypeOK'
  <2>1. handler' \in [Handlers -> {"away", "writing", "answered"}]
    BY <1>9 DEF Return, Reply, TypeOK
  <2>2. finish' \in [Workers -> {"none", "append", "webhook", "cleanup"}]
    BY <1>9 DEF Return, Reply, Resume, FinishJob, NextStep, TypeOK
  <2>. QED
    BY <1>1, <1>9, <2>1, <2>2 DEF Return, TypeOK
<1>10. ASSUME NEW t \in Threads, Hang(t) PROVE TypeOK'
  BY <1>1, <1>10 DEF Hang, TypeOK
<1>11. CASE Leave
  BY <1>4, <1>11 DEF Leave, TypeOK
<1>12. CASE Discard
  <2>1. waiting' \in Seq(Task)
    BY <1>12, TailQueue DEF Discard, TypeOK
  <2>. QED
    BY <1>1, <1>12, <2>1 DEF Discard, TypeOK
<1>13. CASE Signal \/ Exit \/ UNCHANGED vars
  BY <1>1, <1>13 DEF Signal, Exit, vars, TypeOK
<1>. QED
  BY <1>5, <1>6, <1>7, <1>8, <1>9, <1>10, <1>11, <1>12, <1>13 DEF Next, Finishing

\* Handlers only write files.
LEMMA KindsStep == ASSUME BlockingInv, [Next]_vars PROVE KindsAgree'
<1>. USE DEF BlockingInv
<1>1. ASSUME NEW kind \in {"load", "inference", "file"}, NEW c \in Workers \cup Handlers,
             Submit(kind, c), UNCHANGED thread, kind # "file" => c \in Workers
      PROVE  KindsAgree'
  <2>. DEFINE new == Len(waiting) + 1
  <2>1. /\ DOMAIN waiting = 1..Len(waiting) /\ Len(waiting) \in Nat
        /\ DOMAIN waiting' = 1..new
        /\ \A i \in DOMAIN waiting : waiting'[i] = waiting[i]
        /\ waiting'[new] = NewTask(kind, c)
    BY <1>1, SubmitQueue DEF TypeOK
  <2>2. CarriesSessions(waiting'[new]) => waiting'[new].for \in Workers
    BY <1>1, <2>1 DEF CarriesSessions, NewTask
  <2>. QED
    BY <1>1, <2>1, <2>2 DEF KindsAgree
<1>2. ASSUME NEW cs, Detach(cs) PROVE KindsAgree'
  <2>1. /\ DOMAIN waiting' = DOMAIN waiting
        /\ \A i \in DOMAIN waiting : waiting'[i] = Dropped(waiting[i], cs)
        /\ \A t \in Threads : thread'[t] = Dropped(thread[t], cs)
        /\ \A i \in DOMAIN waiting : waiting[i] \in Task
        /\ \A t \in Threads : thread[t] \in Task \cup {Idle}
    BY <1>2, DetachQueue DEF TypeOK
  <2>. QED
    BY <2>1, DroppedTask DEF KindsAgree
<1>3. ASSUME waiting' = Tail(waiting), waiting # <<>>,
             \A t \in Threads : thread'[t] \in {thread[t], Idle, Head(waiting)}
      PROVE  KindsAgree'
  <2>1. /\ DOMAIN waiting = 1..Len(waiting) /\ Len(waiting) \in Nat \ {0}
        /\ DOMAIN waiting' = 1..(Len(waiting) - 1)
        /\ \A i \in DOMAIN waiting' : waiting'[i] = waiting[i + 1]
        /\ Head(waiting) = waiting[1]
    BY <1>3, TailQueue DEF TypeOK
  <2>2. 1 \in DOMAIN waiting /\ \A i \in DOMAIN waiting' : i + 1 \in DOMAIN waiting
    BY <2>1
  <2>3. ~CarriesSessions(Idle)
    BY DEF CarriesSessions, Idle
  <2>. QED
    BY <1>3, <2>1, <2>2, <2>3 DEF KindsAgree
<1>4. ASSUME waiting' = waiting, \A t \in Threads : thread'[t] \in {thread[t], Idle}
      PROVE  KindsAgree'
  <2>1. ~CarriesSessions(Idle)
    BY DEF CarriesSessions, Idle
  <2>. QED
    BY <1>4, <2>1 DEF KindsAgree
<1>5. ASSUME NEW w \in Workers,
             Load(w) \/ ReceiveJob(w) \/ Infer(w) \/ TimeOut(w) \/ Finishing(w)
      PROVE  KindsAgree'
  BY <1>1, <1>2, <1>4, <1>5 DEF Load, ReceiveJob, Infer, TimeOut, Finishing, WriteResult,
     DeliveryEnds, DeliveryTimesOut, RemoveImage, ReturnAtOnce
<1>6. ASSUME NEW h \in Handlers, Accept(h) \/ AnswerTimeout(h) PROVE KindsAgree'
  BY <1>1, <1>2, <1>6 DEF Accept, AnswerTimeout
<1>7. CASE Take
  BY <1>3, <1>7 DEF Take, TypeOK
<1>8. ASSUME NEW t \in Threads, Return(t) \/ Hang(t) PROVE KindsAgree'
  BY <1>4, <1>8 DEF Return, Hang, TypeOK
<1>9. CASE Leave
  BY <1>2, <1>9 DEF Leave
<1>10. CASE Discard
  BY <1>3, <1>10 DEF Discard
<1>11. CASE Signal \/ Exit \/ UNCHANGED vars
  BY <1>4, <1>11 DEF Signal, Exit, vars
<1>. QED
  BY <1>5, <1>6, <1>7, <1>8, <1>9, <1>10, <1>11 DEF Next, Finishing

\* The part of the invariant that is about one worker, one step per action.
LEMMA WorkerStep ==
    ASSUME BlockingInv, [Next]_vars, NEW w \in Workers
    PROVE  AwaitsOne(w)' /\ FreeAwaitsNone(w)' /\ QueuesOne(w)' /\ HoldsOrQueues(w)'
<1>. DEFINE Goal == AwaitsOne(w)' /\ FreeAwaitsNone(w)' /\ QueuesOne(w)' /\ HoldsOrQueues(w)'
<1>. USE DEF FreeAwaitsNone, HoldsOrQueues, Running
<1>0. /\ TypeOK /\ KindsAgree /\ AwaitsOne(w) /\ FreeAwaitsNone(w) /\ QueuesOne(w) /\ HoldsOrQueues(w)
      /\ wstate \in [Workers -> WorkerState] /\ sessions \in [Workers -> {"worker", "thread", "none"}]
      /\ (wstate[w] \in {"idle", "assigned"} => sessions[w] = "worker")
      /\ RestartIffSessionsLost
      /\ w \notin Handlers
  BY HandlersAssumption DEF BlockingInv, TypeOK, PoolTypeOK, PoolInv, OwnsSessionsToServe
<1>1. ASSUME NEW v \in Workers, Load(v) PROVE Goal
  BY <1>0, <1>1, SubmitKeeps DEF Load, poolVars
<1>2. ASSUME NEW v \in Workers, ReceiveJob(v) PROVE Goal
  BY <1>0, <1>2, StillKeeps DEF ReceiveJob, Receive, Goto
<1>3. ASSUME NEW v \in Workers, Infer(v) PROVE Goal
  BY <1>0, <1>3, SubmitKeeps DEF Infer, SpawnInference, Goto
<1>4. ASSUME NEW v \in Workers, TimeOut(v) PROVE Goal
  BY <1>0, <1>4, DetachKeeps DEF TimeOut, InferenceTimesOut, Goto
<1>5. ASSUME NEW v \in Workers, Finishing(v) PROVE Goal
  <2>1. CASE WriteResult(v) \/ RemoveImage(v)
    BY <1>0, <2>1, SubmitKeeps DEF WriteResult, RemoveImage, AtStep, poolVars
  <2>2. CASE DeliveryEnds(v) \/ DeliveryTimesOut(v)
    BY <1>0, <2>2, StillKeeps DEF DeliveryEnds, DeliveryTimesOut, poolVars
  <2>3. CASE ReturnAtOnce(v)
    <3>1. /\ UNCHANGED <<waiting, thread, phase, sessions>> /\ ~Waits(v) /\ wstate[v] = "finishing"
          /\ wstate' = [wstate EXCEPT ![v] = IF restart[v] THEN "starting" ELSE "idle"]
      BY <2>3 DEF ReturnAtOnce, AtStep, FinishJob, FinishRequest, Goto
    <3>2. wstate'[w] = "starting" => sessions'[w] # "worker"
      BY <1>0, <3>1 DEF RestartIffSessionsLost
    <3>. QED
      BY <1>0, <3>1, <3>2, StillKeeps
  <2>. QED
    BY <1>5, <2>1, <2>2, <2>3 DEF Finishing
<1>6. ASSUME NEW h \in Handlers, Accept(h) PROVE Goal
  BY <1>0, <1>6, SubmitKeeps DEF Accept, poolVars
<1>7. ASSUME NEW h \in Handlers, AnswerTimeout(h) PROVE Goal
  BY <1>0, <1>7, DetachKeeps DEF AnswerTimeout, poolVars
<1>8. CASE Take
  BY <1>0, <1>8, TakeKeeps DEF Take, poolVars
<1>9. ASSUME NEW t \in Threads, Return(t) PROVE Goal
  <2>. DEFINE c == thread[t].for
  <2>1. /\ AwaitsOne(w)' /\ QueuesOne(w)' /\ phase' = phase
        /\ Waits(w)' <=> Waits(w) /\ ~AwaitedBy(thread[t], w)
        /\ NoneWaits(w)' <=> NoneWaits(w)
        /\ AwaitedBy(thread[t], w) => NoneWaits(w)
        /\ AwaitedBy(thread[t], w) <=> c = w /\ thread[t].awaited
    BY <1>0, <1>9, ReturnKeeps DEF Return, AwaitedBy
  <2>2. CASE ~AwaitedBy(thread[t], w)
    <3>1. wstate'[w] = wstate[w] /\ sessions'[w] = sessions[w]
      BY <1>0, <1>9, <2>1, <2>2 DEF Return, Reply, poolVars, Goto, InitializeOk, InitializeFails,
         InferenceReturns, InferencePanics, Resume, FinishJob, FinishRequest
    <3>. QED
      BY <1>0, <2>1, <2>2, <3>1
  <2>3. CASE AwaitedBy(thread[t], w)
    <3>1. NoneWaits(w)' /\ ~Waits(w)'
      BY <2>1, <2>3
    <3>2. Reply(thread[t]) /\ thread[t].awaited /\ thread[t].for = w
      BY <1>9, <2>3 DEF Return, AwaitedBy
    <3>3. wstate'[w] = "starting" => sessions'[w] # "worker"
      <4>1. CASE UNCHANGED <<wstate, sessions>>
        BY <1>0, <4>1
      <4>2. CASE InitializeOk(w) \/ InitializeFails(w) \/ InferenceReturns(w) \/ InferencePanics(w)
        BY <1>0, <4>2 DEF Goto, InitializeOk, InitializeFails, InferenceReturns, InferencePanics
      <4>3. CASE FinishRequest(w)
        BY <1>0, <4>3 DEF FinishRequest, Goto, RestartIffSessionsLost
      <4>. QED
        BY <3>2, <4>1, <4>2, <4>3 DEF Reply, Resume, FinishJob, poolVars
    <3>. QED
      BY <2>1, <3>1, <3>3
  <2>. QED
    BY <2>2, <2>3
<1>10. CASE Leave
  BY <1>0, <1>10, DetachKeeps DEF Leave, PoolStops
<1>11. CASE Discard
  BY <1>0, <1>11, DiscardKeeps DEF Discard, poolVars
<1>12. ASSUME UNCHANGED <<waiting, thread, poolVars>>,
              phase' = phase \/ (phase = "serving" /\ phase' = "draining") \/ phase' = "exited"
       PROVE  Goal
  BY <1>0, <1>12, StillKeeps DEF poolVars
<1>13. CASE Signal \/ Exit \/ UNCHANGED vars \/ \E t \in Threads : Hang(t)
  BY <1>12, <1>13 DEF Signal, Exit, vars, Hang
<1>. QED
  BY <1>1, <1>2, <1>3, <1>4, <1>5, <1>6, <1>7, <1>8, <1>9, <1>10, <1>11, <1>13 DEF Next, Finishing

\* The inductive invariant is one.
THEOREM BlockingInvariance == Spec => []BlockingInv
<1>1. BlockingInv /\ [Next]_vars => BlockingInv'
  <2>. SUFFICES ASSUME BlockingInv, [Next]_vars PROVE BlockingInv'
    OBVIOUS
  <2>1. PoolInv'
    BY NextIsPoolStep, PoolStepInv DEF BlockingInv
  <2>2. \A w \in Workers :
          AwaitsOne(w)' /\ FreeAwaitsNone(w)' /\ QueuesOne(w)' /\ HoldsOrQueues(w)'
    BY WorkerStep
  <2>. QED
    BY <2>1, <2>2, TypeStep, KindsStep DEF BlockingInv
<1>. QED
  BY <1>1, InitBlocking, PTL DEF Spec

\* Type of the queue, the threads, the handlers and the phase.
THEOREM BlockingTypeCorrect == Spec => []TypeOK
<1>1. BlockingInv => TypeOK
  BY DEF BlockingInv
<1>. QED
  BY <1>1, BlockingInvariance, PTL

-----------------------------------------------------------------------------
(* Counting sessions.                                                      *)

\* The workers that hold sessions, and the places and threads with a set.
Holding   == {w \in Workers : sessions[w] = "worker"}
CarriedAt == {i \in DOMAIN waiting : IsInference(waiting[i])}
CarriedBy == {t \in Threads : CarriesSessions(thread[t])}

\* Held or waiting for a thread, there is one set for each worker at most: a
\* place in the queue belongs to a worker that holds none, and to no other.
LEMMA OneSetEach ==
    ASSUME BlockingInv
    PROVE  /\ IsFiniteSet(CarriedAt) /\ IsFiniteSet(Holding)
           /\ Cardinality(Holding) + Cardinality(CarriedAt) <= Cardinality(Workers)
<1>. DEFINE Others == Workers \ Holding
            owner  == [i \in CarriedAt |-> waiting[i].for]
<1>1. \A i \in CarriedAt : waiting[i].for \in Others
  <2>. SUFFICES ASSUME NEW i \in CarriedAt PROVE waiting[i].for \in Others
    OBVIOUS
  <2>. DEFINE w == waiting[i].for
  <2>1. w \in Workers /\ CarriesFor(waiting[i], w) /\ i \in DOMAIN waiting
    BY DEF BlockingInv, KindsAgree, CarriedAt, CarriesFor, CarriesSessions, IsInference
  <2>2. HoldsOrQueues(w) /\ ~NoneWaits(w)
    BY <2>1 DEF BlockingInv, NoneWaits
  <2>. QED
    BY <2>1, <2>2 DEF HoldsOrQueues, Holding
<1>2. owner \in Injection(CarriedAt, Others)
  <2>1. ASSUME NEW i \in CarriedAt, NEW k \in CarriedAt, owner[i] = owner[k] PROVE i = k
    <3>. DEFINE w == waiting[i].for
    <3>1. w \in Workers /\ CarriesFor(waiting[i], w) /\ CarriesFor(waiting[k], w)
      BY <1>1, <2>1 DEF CarriedAt, CarriesFor
    <3>2. QueuesOne(w) /\ i \in DOMAIN waiting /\ k \in DOMAIN waiting
      BY <3>1 DEF BlockingInv, CarriedAt
    <3>. QED
      BY <3>1, <3>2 DEF QueuesOne
  <2>. QED
    BY <1>1, <2>1 DEF Injection, IsInjective
<1>3. /\ IsFiniteSet(Holding) /\ IsFiniteSet(Others)
      /\ Cardinality(Holding) \in Nat /\ Cardinality(Workers) \in Nat
      /\ Cardinality(Others) = Cardinality(Workers) - Cardinality(Holding)
  <2>1. Holding \subseteq Workers /\ Others = Workers \ Holding
    BY DEF Holding
  <2>2. IsFiniteSet(Holding) /\ IsFiniteSet(Others) /\ Workers \cap Holding = Holding
    BY <2>1, WorkersAssumption, FS_Subset
  <2>3. Cardinality(Others) = Cardinality(Workers) - Cardinality(Workers \cap Holding)
    BY WorkersAssumption, FS_Difference
  <2>. QED
    BY <2>2, <2>3, WorkersAssumption, FS_CardinalityType
<1>4. IsFiniteSet(CarriedAt) /\ Cardinality(CarriedAt) <= Cardinality(Others)
  BY <1>2, <1>3, FS_Injection
<1>5. Cardinality(CarriedAt) \in Nat
  BY <1>4, FS_CardinalityType
<1>. QED
  BY <1>3, <1>4, <1>5

\* However often jobs time out, there are never more sets of model sessions in
\* memory than workers and blocking threads together (worker.rs
\* take_for_blocking and wait_for_inference over tokio's FIFO of blocking tasks).
THEOREM SessionsBoundedCorrect == Spec => []SessionsBounded
<1>1. BlockingInv => SessionsBounded
  <2>. SUFFICES ASSUME BlockingInv PROVE SessionsBounded
    OBVIOUS
  <2>1. CarriedBy \subseteq Threads
    BY DEF CarriedBy
  <2>2. /\ IsFiniteSet(CarriedBy) /\ Cardinality(CarriedBy) <= Cardinality(Threads)
        /\ Cardinality(CarriedBy) \in Nat /\ Cardinality(Threads) \in Nat
    BY <2>1, ThreadsAssumption, FS_Subset, FS_CardinalityType
  <2>3. /\ Cardinality(Holding) + Cardinality(CarriedAt) <= Cardinality(Workers)
        /\ Cardinality(Holding) \in Nat /\ Cardinality(CarriedAt) \in Nat
        /\ Cardinality(Workers) \in Nat
    BY OneSetEach, FS_CardinalityType, WorkersAssumption
  <2>4. LiveSessions = Cardinality(Holding) + Cardinality(CarriedAt) + Cardinality(CarriedBy)
    BY DEF LiveSessions, Holding, CarriedAt, CarriedBy
  <2>. QED
    BY <2>2, <2>3, <2>4 DEF SessionsBounded
<1>. QED
  BY <1>1, BlockingInvariance, PTL

=============================================================================
