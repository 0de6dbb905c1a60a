-------------------------- MODULE WorkerPoolProofs --------------------------
(***************************************************************************)
(* Proofs about WorkerPool, for every finite set of workers.               *)
(***************************************************************************)
EXTENDS WorkerPool, FiniteSetTheorems, TLAPS

\* The inductive invariant.  The two counters are equal to the sizes of two
\* sets of workers only together with the type of wstate; that a worker which
\* takes requests owns its sessions is only kept by FinishRequest because
\* `restart` says exactly whether they were lost.
PoolInv ==
    /\ PoolTypeOK
    /\ ReadyCount
    /\ failed = Cardinality(Dead)
    /\ RestartIffSessionsLost
    /\ OwnsSessionsToServe

-----------------------------------------------------------------------------

\* The sets the counters count are finite, and their sizes are numbers.
LEMMA CountsAreNumbers ==
    /\ IsFiniteSet(Serving) /\ Cardinality(Serving) \in Nat
    /\ IsFiniteSet(Dead) /\ Cardinality(Dead) \in Nat
<1>1. Serving \subseteq Workers /\ Dead \subseteq Workers
  BY DEF Serving, Dead
<1>2. IsFiniteSet(Serving) /\ IsFiniteSet(Dead)
  BY <1>1, WorkersAssumption, FS_Subset
<1>. QED
  BY <1>2, FS_CardinalityType

\* A worker that starts serving adds one to the size of Serving.
LEMMA ServingGrows ==
    ASSUME NEW w \in Workers, w \notin Serving, Serving' = Serving \cup {w}
    PROVE  Cardinality(Serving') = Cardinality(Serving) + 1
  BY CountsAreNumbers, FS_AddElement

\* A worker that stops serving takes one away, and there was one to take.
LEMMA ServingShrinks ==
    ASSUME NEW w \in Workers, w \in Serving, Serving' = Serving \ {w}
    PROVE  /\ Cardinality(Serving) > 0
           /\ Cardinality(Serving') = Cardinality(Serving) - 1
<1>1. Cardinality(Serving \ {w}) = Cardinality(Serving) - 1
  BY CountsAreNumbers, FS_RemoveElement
<1>2. Cardinality(Serving) # 0
  BY CountsAreNumbers, FS_EmptySet
<1>. QED
  BY <1>1, <1>2, CountsAreNumbers

\* A worker that ends adds one to the size of Dead.
LEMMA DeadGrows ==
    ASSUME NEW w \in Workers, w \notin Dead, Dead' = Dead \cup {w}
    PROVE  Cardinality(Dead') = Cardinality(Dead) + 1
  BY CountsAreNumbers, FS_AddElement

-----------------------------------------------------------------------------

\* What PoolInit and every step of the pool establish.
LEMMA PoolInitInv == PoolInit => PoolInv
<1>. SUFFICES ASSUME PoolInit PROVE PoolInv
  OBVIOUS
<1>1. PoolTypeOK
  BY DEF PoolInit, PoolTypeOK, WorkerState
<1>2. Serving = {} /\ Dead = {}
  BY DEF PoolInit, Serving, Dead
<1>3. ReadyCount /\ failed = Cardinality(Dead)
  BY <1>2, FS_EmptySet DEF PoolInit, ReadyCount
<1>4. RestartIffSessionsLost /\ OwnsSessionsToServe
  BY DEF PoolInit, RestartIffSessionsLost, OwnsSessionsToServe
<1>. QED
  BY <1>1, <1>3, <1>4 DEF PoolInv

\* One step per action: the counters first, then what it does to the sessions.
LEMMA PoolStepInv == PoolInv /\ [PoolNext]_poolVars => PoolInv'
<1>. SUFFICES ASSUME PoolInv, [PoolNext]_poolVars PROVE PoolInv'
  OBVIOUS
<1>. USE DEF PoolInv, PoolTypeOK, WorkerState, ReadyCount,
             RestartIffSessionsLost, OwnsSessionsToServe
<1>1. ASSUME NEW w \in Workers, InitializeOk(w) PROVE PoolInv'
  <2>1. w \notin Serving /\ Serving' = Serving \cup {w} /\ Dead' = Dead
    BY <1>1 DEF InitializeOk, Goto, Serving, Dead
  <2>2. ready' = Cardinality(Serving')
    BY <1>1, <2>1, ServingGrows DEF InitializeOk
  <2>. QED
    BY <1>1, <2>1, <2>2 DEF InitializeOk, Goto
<1>2. ASSUME NEW w \in Workers, InitializeFails(w) PROVE PoolInv'
  <2>1. w \notin Dead /\ Dead' = Dead \cup {w} /\ Serving' = Serving
    BY <1>2 DEF InitializeFails, Goto, Serving, Dead
  <2>2. failed' = Cardinality(Dead')
    BY <1>2, <2>1, DeadGrows DEF InitializeFails
  <2>. QED
    BY <1>2, <2>1, <2>2 DEF InitializeFails, Goto
<1>3. ASSUME NEW w \in Workers, Receive(w) PROVE PoolInv'
  <2>1. Serving' = Serving /\ Dead' = Dead
    BY <1>3 DEF Receive, Goto, Serving, Dead
  <2>. QED
    BY <1>3, <2>1 DEF Receive, Goto
<1>4. ASSUME NEW w \in Workers, SpawnInference(w) PROVE PoolInv'
  <2>1. Serving' = Serving /\ Dead' = Dead
    BY <1>4 DEF SpawnInference, Goto, Serving, Dead
  <2>. QED
    BY <1>4, <2>1 DEF SpawnInference, Goto
<1>5. ASSUME NEW w \in Workers, InferenceReturns(w) PROVE PoolInv'
  <2>1. Serving' = Serving /\ Dead' = Dead
    BY <1>5 DEF InferenceReturns, Goto, Serving, Dead
  <2>. QED
    BY <1>5, <2>1 DEF InferenceReturns, Goto
<1>6. ASSUME NEW w \in Workers, InferencePanics(w) \/ InferenceTimesOut(w) PROVE PoolInv'
  <2>1. Serving' = Serving /\ Dead' = Dead
    BY <1>6 DEF InferencePanics, InferenceTimesOut, Goto, Serving, Dead
  <2>. QED
    BY <1>6, <2>1 DEF InferencePanics, InferenceTimesOut, Goto
<1>7. ASSUME NEW w \in Workers, FinishRequest(w) PROVE PoolInv'
  <2>1. CASE restart[w]
    <3>1. w \in Serving /\ Serving' = Serving \ {w} /\ Dead' = Dead
      BY <1>7, <2>1 DEF FinishRequest, Goto, Serving, Dead
    <3>2. ready > 0 /\ Cardinality(Serving') = ready - 1
      BY <3>1, ServingShrinks
    <3>3. ready' \in Nat /\ ready' = Cardinality(Serving')
      BY <1>7, <2>1, <3>2 DEF FinishRequest, MarkStopped
    <3>. QED
      BY <1>7, <2>1, <3>1, <3>3 DEF FinishRequest, Goto
  <2>2. CASE ~restart[w]
    <3>1. Serving' = Serving /\ Dead' = Dead
      BY <1>7, <2>2 DEF FinishRequest, Goto, Serving, Dead
    <3>2. sessions[w] = "worker"
      BY <1>7, <2>2 DEF FinishRequest
    <3>. QED
      BY <1>7, <2>2, <3>1, <3>2 DEF FinishRequest, Goto
  <2>. QED
    BY <2>1, <2>2
<1>8. ASSUME PoolStops PROVE PoolInv'
  <2>1. Serving' = {} /\ Dead' = {}
    BY <1>8 DEF PoolStops, Serving, Dead
  <2>. QED
    BY <1>8, <2>1, FS_EmptySet DEF PoolStops
<1>9. ASSUME UNCHANGED poolVars PROVE PoolInv'
  BY <1>9 DEF poolVars, Serving, Dead
<1>. QED
  BY <1>1, <1>2, <1>3, <1>4, <1>5, <1>6, <1>7, <1>8, <1>9 DEF PoolNext

-----------------------------------------------------------------------------

\* Reachable pool states satisfy the inductive invariant.
THEOREM PoolInvariance == PoolSpec => []PoolInv
  BY PoolInitInv, PoolStepInv, PTL DEF PoolSpec

\* The counters and sessions of the pool (state.rs WorkerPoolState) keep their
\* types; in particular ready and failed never go below zero.
THEOREM PoolTypeCorrect == PoolSpec => []PoolTypeOK
<1>1. PoolInv => PoolTypeOK
  BY DEF PoolInv
<1>. QED
  BY <1>1, PoolInvariance, PTL

\* state.rs WorkerPoolState.ready, which /ready and ensure_workers_ready trust,
\* is the number of serving workers, for any number of workers and any order
\* of loads, panics, timeouts and reloads.
THEOREM ReadyCountCorrect == PoolSpec => []ReadyCount
<1>1. PoolInv => ReadyCount
  BY DEF PoolInv
<1>. QED
  BY <1>1, PoolInvariance, PTL

\* The failed counter counts the ended workers and the two counters together
\* never exceed the number of workers.
THEOREM FailedCountCorrect == PoolSpec => []FailedCount
<1>1. PoolInv => FailedCount
  <2>. SUFFICES ASSUME PoolInv PROVE FailedCount
    OBVIOUS
  <2>1. Serving \cap Dead = {} /\ Serving \cup Dead \in SUBSET Workers
    BY DEF Serving, Dead
  <2>2. Cardinality(Serving \cup Dead) = Cardinality(Serving) + Cardinality(Dead)
    <3>1. Cardinality(Serving \cup Dead)
            = Cardinality(Serving) + Cardinality(Dead) - Cardinality(Serving \cap Dead)
      BY CountsAreNumbers, FS_Union
    <3>2. Cardinality(Serving \cap Dead) = 0
      BY <2>1, FS_EmptySet
    <3>. QED
      BY <3>1, <3>2, CountsAreNumbers
  <2>3. Cardinality(Serving \cup Dead) <= Cardinality(Workers)
    BY <2>1, WorkersAssumption, FS_Subset
  <2>. QED
    BY <2>2, <2>3 DEF PoolInv, ReadyCount, FailedCount
<1>. QED
  BY <1>1, PoolInvariance, PTL

\* take_for_blocking (inference.rs) always finds its sessions: a worker about to
\* run an inference owns them.
THEOREM OwnsSessionsCorrect == PoolSpec => []OwnsSessionsToServe
<1>1. PoolInv => OwnsSessionsToServe
  BY DEF PoolInv
<1>. QED
  BY <1>1, PoolInvariance, PTL

=============================================================================
