-------------------------- MODULE JobMetricsProofs --------------------------
(***************************************************************************)
(* Proofs about JobMetrics, for every finite set of workers, every bound   *)
(* on the requests and every order in which relaxed increments become      *)
(* visible and a GET /metrics request reads them.                          *)
(***************************************************************************)
EXTENDS JobMetrics, WorkerPoolProofs

\* The workers whose increment of c is not visible yet.
Owing(c) == {w \in Workers : c \in owed[w]}

\* What a worker owes is what its last step was about: a request it has just
\* received, or one that has just ended, and then in one way only.
OwedAgrees ==
    \A w \in Workers :
        /\ "started" \in owed[w] => wstate[w] = "assigned"
        /\ "succeeded" \in owed[w] \/ "failed" \in owed[w] => wstate[w] = "finishing"
        /\ ~("succeeded" \in owed[w] /\ "failed" \in owed[w])

\* A request reads no counter before it is raised.  Low is what it has read of
\* a counter, or would read now.
Low(c) == IF snapshot[c] = Unread THEN counters[c] ELSE snapshot[c]

\* What a request saw started before it began is not more than what started by
\* now, nor than what it reads of it; nothing it has read is above the counter;
\* and no more than the pool's workers were then between start and end.
SnapshotAgrees ==
    /\ startedBefore <= counters["started"]
    /\ startedBefore <= Low("started")
    /\ \A c \in Gauge : Low(c) <= counters[c]
    /\ startedBefore <= Low("succeeded") + Low("failed") + Cardinality(Workers)

\* The inductive invariant.
MetricsInv == MetricsTypeOK /\ OwedAgrees /\ CountersBalance /\ SnapshotAgrees

-----------------------------------------------------------------------------
(* Counting workers.                                                       *)

\* Sets of workers are finite and no larger than the pool.
LEMMA WorkersCounted ==
    ASSUME NEW S, S \subseteq Workers
    PROVE  IsFiniteSet(S) /\ Cardinality(S) \in Nat /\ Cardinality(S) <= Cardinality(Workers)
  BY WorkersAssumption, FS_Subset, FS_CardinalityType

\* One worker more.
LEMMA OneMore ==
    ASSUME NEW S, S \subseteq Workers, NEW w \in Workers, w \notin S
    PROVE  Cardinality(S \cup {w}) = Cardinality(S) + 1
  BY WorkersCounted, FS_AddElement

\* One worker less.
LEMMA OneLess ==
    ASSUME NEW S, S \subseteq Workers, NEW w \in S
    PROVE  Cardinality(S \ {w}) = Cardinality(S) - 1
  BY WorkersCounted, FS_RemoveElement

\* No worker.
LEMMA NoWorkers == Cardinality({}) = 0
  BY FS_EmptySet

\* A counter together with what is owed to it is a number.
LEMMA CountedType ==
    ASSUME MetricsTypeOK
    PROVE  /\ \A c \in Counter : Counted(c) \in Nat /\ counters[c] \in Nat
           /\ \A c : Cardinality(Owing(c)) \in Nat /\ Counted(c) = counters[c] + Cardinality(Owing(c))
           /\ Cardinality(InFlight) \in Nat /\ Cardinality(Workers) \in Nat
<1>1. \A c : Owing(c) \subseteq Workers
  BY DEF Owing
<1>2. \A c : Cardinality(Owing(c)) \in Nat
  BY <1>1, WorkersCounted
<1>3. Cardinality(InFlight) \in Nat /\ Cardinality(Workers) \in Nat
  BY WorkersCounted DEF InFlight
<1>4. \A c : Counted(c) = counters[c] + Cardinality(Owing(c))
  BY DEF Counted, Owing
<1>5. \A c \in Counter : counters[c] \in Nat
  BY DEF MetricsTypeOK
<1>. QED
  BY <1>2, <1>3, <1>4, <1>5

\* A step that makes a worker owe S counts S once more.
LEMMA OwesCounts ==
    ASSUME MetricsTypeOK, NEW w \in Workers, NEW S \in SUBSET Counter, Owes(w, S)
    PROVE  \A c \in Counter : Counted(c)' = IF c \in S THEN Counted(c) + 1 ELSE Counted(c)
<1>. SUFFICES ASSUME NEW c \in Counter
              PROVE  Counted(c)' = IF c \in S THEN Counted(c) + 1 ELSE Counted(c)
  OBVIOUS
<1>1. /\ counters' = counters /\ owed[w] = {} /\ owed' = [owed EXCEPT ![w] = S]
      /\ owed \in [Workers -> SUBSET Counter] /\ counters[c] \in Nat
  BY DEF Owes, MetricsTypeOK
<1>2. Owing(c) \subseteq Workers /\ w \notin Owing(c)
  BY <1>1 DEF Owing
<1>3. CASE c \in S
  <2>1. Owing(c)' = Owing(c) \cup {w}
    BY <1>1, <1>3 DEF Owing
  <2>2. Cardinality(Owing(c))' = Cardinality(Owing(c)) + 1
    BY <1>2, <2>1, OneMore
  <2>. QED
    BY <1>1, <1>2, <1>3, <2>2, WorkersCounted DEF Counted, Owing
<1>4. CASE c \notin S
  <2>1. Owing(c)' = Owing(c)
    BY <1>1, <1>4 DEF Owing
  <2>. QED
    BY <1>1, <1>4, <2>1 DEF Counted, Owing
<1>. QED
  BY <1>3, <1>4

\* An increment that becomes visible is owed no longer.
LEMMA IncrementCounts ==
    ASSUME MetricsTypeOK, NEW w \in Workers, NEW d \in Counter, Increment(w, d)
    PROVE  \A c \in Counter : Counted(c)' = Counted(c)
<1>. SUFFICES ASSUME NEW c \in Counter PROVE Counted(c)' = Counted(c)
  OBVIOUS
<1>1. /\ d \in owed[w] /\ owed' = [owed EXCEPT ![w] = owed[w] \ {d}]
      /\ counters' = [counters EXCEPT ![d] = counters[d] + 1]
      /\ owed \in [Workers -> SUBSET Counter] /\ counters \in [Counter -> Nat]
  BY DEF Increment, MetricsTypeOK
<1>2. Owing(c) \subseteq Workers
  BY DEF Owing
<1>3. CASE c = d
  <2>1. w \in Owing(c) /\ Owing(c)' = Owing(c) \ {w}
    BY <1>1, <1>3 DEF Owing
  <2>2. Cardinality(Owing(c))' = Cardinality(Owing(c)) - 1
    BY <1>2, <2>1, OneLess
  <2>3. counters'[c] = counters[c] + 1 /\ counters[c] \in Nat
    BY <1>1, <1>3
  <2>. QED
    BY <1>2, <2>2, <2>3, WorkersCounted DEF Counted, Owing
<1>4. CASE c # d
  <2>1. Owing(c)' = Owing(c) /\ counters'[c] = counters[c]
    BY <1>1, <1>4 DEF Owing
  <2>. QED
    BY <2>1 DEF Counted, Owing
<1>. QED
  BY <1>3, <1>4

-----------------------------------------------------------------------------
(* What the visible counters say at any moment.                            *)

\* No more requests are seen ended than started, and no more are seen started
\* and not ended than there are workers.
LEMMA VisibleGauge ==
    ASSUME MetricsTypeOK, OwedAgrees, CountersBalance
    PROVE  /\ counters["succeeded"] + counters["failed"] <= counters["started"]
           /\ counters["started"]
                <= counters["succeeded"] + counters["failed"] + Cardinality(Workers)
<1>1. /\ Owing("started") \subseteq InFlight /\ InFlight \subseteq Workers
      /\ Owing("succeeded") \cap Owing("failed") = {}
      /\ InFlight \cap (Owing("succeeded") \cup Owing("failed")) = {}
      /\ Owing("succeeded") \subseteq Workers /\ Owing("failed") \subseteq Workers
  BY DEF OwedAgrees, Owing, InFlight
<1>2. Cardinality(Owing("started")) <= Cardinality(InFlight)
  BY <1>1, WorkersCounted, FS_Subset
<1>3. Cardinality(InFlight) + Cardinality(Owing("succeeded")) + Cardinality(Owing("failed"))
        <= Cardinality(Workers)
  <2>. DEFINE E == Owing("succeeded") \cup Owing("failed")
  <2>1. Cardinality(E) = Cardinality(Owing("succeeded")) + Cardinality(Owing("failed")) - 0
    BY <1>1, WorkersCounted, FS_Union, NoWorkers
  <2>2. Cardinality(InFlight \cup E) = Cardinality(InFlight) + Cardinality(E) - 0
    BY <1>1, WorkersCounted, FS_Union, NoWorkers
  <2>3. Cardinality(InFlight \cup E) <= Cardinality(Workers)
    BY <1>1, WorkersCounted
  <2>. QED
    BY <2>1, <2>2, <2>3, CountedType
<1>. QED
  BY <1>2, <1>3, CountedType DEF CountersBalance, Counter

-----------------------------------------------------------------------------

\* The counters start at zero and nothing is owed to them.
LEMMA InitMetrics == Init => MetricsInv
<1>. SUFFICES ASSUME Init PROVE MetricsInv
  OBVIOUS
<1>1. MetricsTypeOK
  BY PoolInitInv DEF Init, PoolInv, MetricsTypeOK, Zero, Nothing
<1>2. OwedAgrees
  BY DEF Init, OwedAgrees
<1>3. InFlight = {} /\ \A c : Owing(c) = {}
  BY DEF Init, PoolInit, InFlight, Owing
<1>4. CountersBalance
  <2>1. Cardinality(InFlight) = 0 /\ \A c : Cardinality(Owing(c)) = 0
    BY <1>3, NoWorkers
  <2>2. \A c \in Counter : Counted(c) = 0 + 0
    BY <1>1, <2>1, CountedType DEF Init, Zero
  <2>. QED
    BY <2>1, <2>2 DEF CountersBalance, Counter
<1>5. SnapshotAgrees
  BY <1>1, CountedType DEF Init, SnapshotAgrees, Low, Nothing, Zero, Gauge, Counter
<1>. QED
  BY <1>1, <1>2, <1>4, <1>5 DEF MetricsInv

\* Of the pool, only a request received or ended changes who is in flight.
LEMMA InFlightSteps ==
    ASSUME PoolTypeOK, NEW w \in Workers
    PROVE  /\ Receive(w) => Cardinality(InFlight)' = Cardinality(InFlight) + 1
           /\ InferenceReturns(w) \/ InferencePanics(w) \/ InferenceTimesOut(w)
                => Cardinality(InFlight)' = Cardinality(InFlight) - 1
           /\ InitializeOk(w) \/ InitializeFails(w) \/ SpawnInference(w) \/ FinishRequest(w)
                => Cardinality(InFlight)' = Cardinality(InFlight)
<1>0. InFlight \subseteq Workers
  BY DEF InFlight
<1>1. ASSUME Receive(w) PROVE Cardinality(InFlight)' = Cardinality(InFlight) + 1
  <2>1. w \notin InFlight /\ InFlight' = InFlight \cup {w}
    BY <1>1 DEF Receive, Goto, InFlight, PoolTypeOK
  <2>. QED
    BY <1>0, <2>1, OneMore
<1>2. ASSUME InferenceReturns(w) \/ InferencePanics(w) \/ InferenceTimesOut(w)
      PROVE  Cardinality(InFlight)' = Cardinality(InFlight) - 1
  <2>1. w \in InFlight /\ InFlight' = InFlight \ {w}
    BY <1>2 DEF InferenceReturns, InferencePanics, InferenceTimesOut, Goto, InFlight, PoolTypeOK
  <2>. QED
    BY <1>0, <2>1, OneLess
<1>3. ASSUME InitializeOk(w) \/ InitializeFails(w) \/ SpawnInference(w) \/ FinishRequest(w)
      PROVE  InFlight' = InFlight
  BY <1>3 DEF InitializeOk, InitializeFails, SpawnInference, FinishRequest, Goto, InFlight, PoolTypeOK
<1>. QED
  BY <1>1, <1>2, <1>3

\* A step of the pool keeps its type.
LEMMA PoolTypeStep == PoolTypeOK /\ PoolNext => PoolTypeOK'
<1>. SUFFICES ASSUME PoolTypeOK, PoolNext PROVE PoolTypeOK'
  OBVIOUS
<1>. USE DEF PoolTypeOK, WorkerState
<1>1. ASSUME NEW w \in Workers, InitializeOk(w) \/ InitializeFails(w) \/ Receive(w) \/ SpawnInference(w)
      PROVE  PoolTypeOK'
  BY <1>1 DEF InitializeOk, InitializeFails, Receive, SpawnInference, Goto
<1>2. ASSUME NEW w \in Workers, InferenceReturns(w) \/ InferencePanics(w) \/ InferenceTimesOut(w)
      PROVE  PoolTypeOK'
  BY <1>2 DEF InferenceReturns, InferencePanics, InferenceTimesOut, Goto
<1>3. ASSUME NEW w \in Workers, FinishRequest(w) PROVE PoolTypeOK'
  <2>1. ready' \in Nat
    BY <1>3 DEF FinishRequest, MarkStopped
  <2>2. \E s \in {"starting", "idle"} : wstate' = [wstate EXCEPT ![w] = s]
    BY <1>3 DEF FinishRequest, Goto
  <2>. QED
    BY <1>3, <2>1, <2>2 DEF FinishRequest
<1>4. ASSUME PoolStops PROVE PoolTypeOK'
  BY <1>4 DEF PoolStops
<1>. QED
  BY <1>1, <1>2, <1>3, <1>4 DEF PoolNext

\* A worker's step that raises the counters of S, for a worker that goes from
\* one state to the other: only the balance has to be looked at.
LEMMA OwesKeeps ==
    ASSUME MetricsInv, NEW w \in Workers, NEW S \in SUBSET Counter, Owes(w, S), PoolTypeOK',
           \A v \in Workers : v # w => wstate'[v] = wstate[v],
           "started" \in S => wstate'[w] = "assigned",
           "succeeded" \in S \/ "failed" \in S => wstate'[w] = "finishing",
           ~("succeeded" \in S /\ "failed" \in S)
    PROVE  MetricsTypeOK' /\ OwedAgrees' /\ SnapshotAgrees'
<1>1. /\ UNCHANGED <<counters, snapshot, startedBefore>> /\ owed' = [owed EXCEPT ![w] = S]
      /\ owed \in [Workers -> SUBSET Counter]
  BY DEF Owes, MetricsInv, MetricsTypeOK
<1>2. MetricsTypeOK'
  BY <1>1 DEF MetricsInv, MetricsTypeOK
<1>3. OwedAgrees'
  BY <1>1 DEF MetricsInv, OwedAgrees
<1>4. SnapshotAgrees'
  BY <1>1 DEF MetricsInv, SnapshotAgrees, Low
<1>. QED
  BY <1>2, <1>3, <1>4

\* One step per action.
LEMMA MetricsStep == MetricsInv /\ [Next]_vars => MetricsInv'
<1>. SUFFICES ASSUME MetricsInv, [Next]_vars PROVE MetricsInv'
  OBVIOUS
<1>0. MetricsTypeOK /\ PoolTypeOK /\ OwedAgrees /\ CountersBalance /\ SnapshotAgrees
  BY DEF MetricsInv, MetricsTypeOK
<1>00. /\ \A c \in Counter : Counted(c) \in Nat /\ counters[c] \in Nat
       /\ Cardinality(InFlight) \in Nat /\ Cardinality(Workers) \in Nat
  BY <1>0, CountedType
<1>1. ASSUME NEW w \in Workers, ReceiveRequest(w) PROVE MetricsInv'
  <2>1. Receive(w) /\ Owes(w, {"started"})
    BY <1>1 DEF ReceiveRequest
  <2>2. PoolTypeOK' /\ wstate' = [wstate EXCEPT ![w] = "assigned"]
    BY <1>0, <2>1, PoolTypeStep DEF PoolNext, Receive, Goto
  <2>3. MetricsTypeOK' /\ OwedAgrees' /\ SnapshotAgrees'
    BY <1>0, <2>1, <2>2, OwesKeeps DEF Counter, PoolTypeOK
  <2>4. /\ Counted("started")' = Counted("started") + 1
        /\ \A c \in Counter \ {"started"} : Counted(c)' = Counted(c)
    BY <1>0, <2>1, OwesCounts DEF Counter
  <2>5. Cardinality(InFlight)' = Cardinality(InFlight) + 1
    BY <1>0, <2>1, InFlightSteps
  <2>6. CountersBalance'
    BY <1>0, <1>00, <2>4, <2>5 DEF CountersBalance, Counter
  <2>. QED
    BY <2>3, <2>6 DEF MetricsInv
<1>2. ASSUME NEW w \in Workers, CompleteRequest(w) \/ CrashRequest(w) \/ ExpireRequest(w)
      PROVE  MetricsInv'
  <2>1. /\ InferenceReturns(w) \/ InferencePanics(w) \/ InferenceTimesOut(w)
        /\ wstate' = [wstate EXCEPT ![w] = "finishing"]
    BY <1>2 DEF CompleteRequest, CrashRequest, ExpireRequest, InferenceReturns, InferencePanics,
       InferenceTimesOut, Goto
  <2>2. PICK S \in { {"succeeded"}, {"failed"}, {"failed", "restarts"},
                     {"timed_out", "failed", "restarts"} } : Owes(w, S)
    BY <1>2 DEF CompleteRequest, CrashRequest, ExpireRequest
  <2>3. PoolTypeOK'
    BY <1>0, <2>1, PoolTypeStep DEF PoolNext
  <2>4. S \in SUBSET Counter /\ "started" \notin S /\ ~("succeeded" \in S /\ "failed" \in S)
    BY <2>2 DEF Counter
  <2>5. MetricsTypeOK' /\ OwedAgrees' /\ SnapshotAgrees'
    BY <1>0, <2>1, <2>2, <2>3, <2>4, OwesKeeps DEF PoolTypeOK
  <2>6. \A c \in Counter : Counted(c)' = IF c \in S THEN Counted(c) + 1 ELSE Counted(c)
    BY <1>0, <2>2, <2>4, OwesCounts
  <2>7. Cardinality(InFlight)' = Cardinality(InFlight) - 1
    BY <1>0, <2>1, InFlightSteps
  <2>8. CountersBalance'
    BY <1>0, <1>00, <2>2, <2>6, <2>7 DEF CountersBalance, Counter
  <2>. QED
    BY <2>5, <2>8 DEF MetricsInv
<1>3. ASSUME NEW w \in Workers, Uncounted(w) PROVE MetricsInv'
  <2>1. /\ InitializeOk(w) \/ InitializeFails(w) \/ SpawnInference(w) \/ FinishRequest(w)
        /\ Owes(w, {})
    BY <1>3 DEF Uncounted
  <2>2. PoolTypeOK' /\ \A v \in Workers : v # w => wstate'[v] = wstate[v]
    BY <1>0, <2>1, PoolTypeStep
    DEF PoolNext, InitializeOk, InitializeFails, SpawnInference, FinishRequest, Goto, PoolTypeOK
  <2>3. MetricsTypeOK' /\ OwedAgrees' /\ SnapshotAgrees'
    BY <1>0, <2>1, <2>2, OwesKeeps
  <2>4. \A c \in Counter : Counted(c)' = Counted(c)
    BY <1>0, <2>1, OwesCounts
  <2>5. Cardinality(InFlight)' = Cardinality(InFlight)
    BY <1>0, <2>1, InFlightSteps
  <2>6. CountersBalance'
    BY <1>0, <2>4, <2>5 DEF CountersBalance, Counter
  <2>. QED
    BY <2>3, <2>6 DEF MetricsInv
<1>4. ASSUME NEW w \in Workers, NEW c \in Counter, Increment(w, c) PROVE MetricsInv'
  <2>1. /\ owed' = [owed EXCEPT ![w] = owed[w] \ {c}]
        /\ counters' = [counters EXCEPT ![c] = counters[c] + 1]
        /\ UNCHANGED <<poolVars, snapshot, startedBefore>>
    BY <1>4 DEF Increment
  <2>2. \A d \in Counter : counters'[d] \in {counters[d], counters[d] + 1}
    BY <1>0, <2>1 DEF MetricsTypeOK
  <2>3. MetricsTypeOK'
    BY <1>0, <1>00, <2>1 DEF MetricsTypeOK, PoolTypeOK, poolVars
  <2>4. OwedAgrees'
    BY <1>0, <2>1 DEF MetricsTypeOK, OwedAgrees, poolVars
  <2>5. \A d \in Counter : Counted(d)' = Counted(d)
    BY <1>0, <1>4, IncrementCounts
  <2>6. InFlight' = InFlight
    BY <2>1 DEF InFlight, poolVars
  <2>7. CountersBalance'
    BY <1>0, <2>5, <2>6 DEF CountersBalance, Counter
  <2>8. \A d \in Gauge : Low(d)' \in Nat /\ Low(d) \in Nat /\ Low(d) <= Low(d)'
                           /\ Low(d)' <= counters'[d] /\ counters[d] <= counters'[d]
    <3>1. TAKE d \in Gauge
    <3>2. /\ counters[d] \in Nat /\ counters'[d] \in {counters[d], counters[d] + 1}
          /\ snapshot'[d] = snapshot[d] /\ Low(d) <= counters[d]
          /\ snapshot[d] \in Nat \cup {Unread}
      BY <1>0, <1>00, <2>1, <2>2 DEF Gauge, Counter, MetricsTypeOK, SnapshotAgrees
    <3>. QED
      BY <3>2 DEF Low
  <2>9. SnapshotAgrees'
    <3>1. startedBefore \in Nat /\ startedBefore' = startedBefore
      BY <1>0, <2>1 DEF MetricsTypeOK
    <3>2. counters["started"] \in Nat /\ counters'["started"] \in Nat
      BY <1>00, <2>2 DEF Counter
    <3>. QED
      BY <1>0, <1>00, <2>8, <3>1, <3>2 DEF SnapshotAgrees, Gauge
  <2>. QED
    BY <2>3, <2>4, <2>7, <2>9 DEF MetricsInv
<1>5. ASSUME NEW c \in Gauge, ReadCounter(c) PROVE MetricsInv'
  <2>1. /\ snapshot[c] = Unread /\ snapshot' = [snapshot EXCEPT ![c] = counters[c]]
        /\ startedBefore' \in {startedBefore, counters["started"]}
        /\ snapshot # Nothing => startedBefore' = startedBefore
        /\ snapshot = Nothing => startedBefore' = counters["started"]
        /\ UNCHANGED <<poolVars, counters, owed>>
    BY <1>5 DEF ReadCounter
  <2>2. \A d \in Gauge : d \in Counter /\ counters[d] \in Nat
    BY <1>00 DEF Gauge, Counter
  <2>3. MetricsTypeOK'
    BY <1>0, <2>1, <2>2 DEF MetricsTypeOK, PoolTypeOK, poolVars, Gauge
  <2>4. OwedAgrees' /\ CountersBalance'
    BY <1>0, <2>1 DEF OwedAgrees, CountersBalance, Counted, InFlight, poolVars
  <2>5. \A d \in Gauge : Low(d)' = Low(d) /\ Low(d) \in Nat
    BY <1>0, <2>1, <2>2, MetricsAssumption DEF Low, MetricsTypeOK
  <2>6. snapshot = Nothing => \A d \in Gauge : Low(d) = counters[d]
    BY DEF Low, Nothing
  <2>7. SnapshotAgrees'
    BY <1>0, <2>1, <2>2, <2>5, <2>6, <1>00, VisibleGauge DEF SnapshotAgrees, Gauge
  <2>. QED
    BY <2>3, <2>4, <2>7 DEF MetricsInv
<1>6. ASSUME AnswerMetrics PROVE MetricsInv'
  <2>1. /\ snapshot' = [c \in Gauge |-> Unread] /\ startedBefore' = 0
        /\ UNCHANGED <<poolVars, counters, owed>>
    BY <1>6 DEF AnswerMetrics, Nothing
  <2>2. MetricsTypeOK'
    BY <1>0, <2>1 DEF MetricsTypeOK, PoolTypeOK, poolVars
  <2>3. OwedAgrees' /\ CountersBalance'
    BY <1>0, <2>1 DEF OwedAgrees, CountersBalance, Counted, InFlight, poolVars
  <2>4. \A c \in Gauge : Low(c)' = counters'[c] /\ counters'[c] \in Nat
    BY <1>00, <2>1 DEF Low, Gauge, Counter
  <2>5. SnapshotAgrees'
    BY <1>00, <2>1, <2>4 DEF SnapshotAgrees, Gauge
  <2>. QED
    BY <2>2, <2>3, <2>5 DEF MetricsInv
<1>7. ASSUME MetricsStop PROVE MetricsInv'
  <2>1. Init'
    BY <1>7 DEF MetricsStop, PoolStops, Init, PoolInit
  <2>. QED
    BY <2>1, InitMetrics, PTL
<1>8. ASSUME UNCHANGED vars PROVE MetricsInv'
  BY <1>8 DEF vars, poolVars, metricsVars, MetricsInv, MetricsTypeOK, PoolTypeOK, OwedAgrees,
     CountersBalance, SnapshotAgrees, Low, Counted, InFlight
<1>. QED
  BY <1>1, <1>2, <1>3, <1>4, <1>5, <1>6, <1>7, <1>8 DEF Next

\* The counters, what is owed to them and what was read keep to the invariant.
THEOREM MetricsInvariance == Spec => []MetricsInv
  BY InitMetrics, MetricsStep, PTL DEF Spec

\* Type of AppMetrics, its readers and the pool that raises it (state.rs).
THEOREM MetricsTypeCorrect == Spec => []MetricsTypeOK
<1>1. MetricsInv => MetricsTypeOK
  BY DEF MetricsInv
<1>. QED
  BY <1>1, MetricsInvariance, PTL

\* Whatever results, errors, panics, timeouts and reloads happen, a request is
\* counted as started once and as succeeded or failed once, every timeout as a
\* restart and every restart as a failure (worker.rs wait_for_inference).
THEOREM CountersBalanceCorrect == Spec => []CountersBalance
<1>1. MetricsInv => CountersBalance
  BY DEF MetricsInv
<1>. QED
  BY <1>1, MetricsInvariance, PTL

\* The running jobs a dashboard derives from one GET /metrics response are off
\* by no more than the jobs that started while it was read, in whatever order
\* the relaxed loads and increments take place (state.rs AppMetrics::snapshot).
THEOREM SnapshotGaugeCorrect == Spec => []SnapshotGauge
<1>1. MetricsInv => SnapshotGauge
  <2>. SUFFICES ASSUME MetricsInv, \A c \in Gauge : snapshot[c] # Unread
                PROVE  LET gained == counters["started"] - startedBefore IN
                       /\ snapshot["started"] <=
                            snapshot["succeeded"] + snapshot["failed"] + Cardinality(Workers) + gained
                       /\ snapshot["succeeded"] + snapshot["failed"] <= snapshot["started"] + gained
    BY DEF SnapshotGauge
  <2>1. \A c \in Gauge : snapshot[c] \in Nat /\ Low(c) = snapshot[c] /\ counters[c] \in Nat
    BY DEF MetricsInv, MetricsTypeOK, Low, Gauge, Counter
  <2>2. /\ counters["succeeded"] + counters["failed"] <= counters["started"]
        /\ startedBefore \in Nat /\ Cardinality(Workers) \in Nat
    BY VisibleGauge, CountedType DEF MetricsInv, MetricsTypeOK
  <2>. QED
    BY <2>1, <2>2 DEF MetricsInv, SnapshotAgrees, Gauge
<1>. QED
  BY <1>1, MetricsInvariance, PTL

=============================================================================
