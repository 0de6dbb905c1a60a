--------------------------- MODULE FrontDoorProofs ---------------------------
(***************************************************************************)
(* Proofs about the rate limiter of FrontDoor, for any finite set of        *)
(* requests, any limit, any window and any resolution of the clock.         *)
(***************************************************************************)
EXTENDS FrontDoor, FiniteSetTheorems, TLAPS

\* A request is admitted or refused at most once.
FreshIsUnseen ==
    \A r \in Requests :
        stage[r] \in {"new", "limit"} => admittedAt[r] = Never /\ refusedAt[r] = Never

AdmittedSince(from) == {r \in Requests : admittedAt[r] # Never /\ admittedAt[r] >= from}

\* Nothing was admitted after the end of the current window, ...
WindowCoversAdmitted ==
    \A r \in Requests :
        admittedAt[r] # Never => admittedAt[r] <= now /\ admittedAt[r] < startedAt + Window

\* ... the counter holds what was admitted in it, ...
CountIsAdmitted ==
    LimitPerMinute > 0 => count = Cardinality(AdmittedSince(startedAt))

\* ... and the time of one window before it saw no more than the limit.
PreviousWithinLimit ==
    LimitPerMinute > 0 =>
        Cardinality(AdmittedWithin(startedAt - Window, startedAt - 1)) <= LimitPerMinute

\* The window that refused a request is the current one, which ends by the
\* time that Retry-After and one second have passed, or an earlier one.
RefusalEnds ==
    \A r \in Requests :
        refusedAt[r] # Never =>
            /\ retryAfter[r] \in 1..WindowSeconds
            /\ refusedAt[r] <= now /\ refusedAt[r] < startedAt + Window
            /\ \/ startedAt > refusedAt[r]
               \/ startedAt + Window <= refusedAt[r] + (retryAfter[r] + 1) * TicksPerSecond

\* A window that refused a request was spent by what it admitted, ...
SpentByAdmitted ==
    \A r \in Requests :
        refusedAt[r] # Never =>
            Cardinality(AdmittedWithin(refusedAt[r] - Window + 1, refusedAt[r])) >= LimitPerMinute

\* ... and only clients are admitted, since only they and probes get as far as
\* the limiter.
ClientsAsk ==
    \A r \in Requests :
        /\ stage[r] = "limit" => IsProbe(r) \/ r \in Clients
        /\ admittedAt[r] # Never => r \in Clients

\* The inductive invariant.
DoorInv ==
    /\ TypeOK /\ FreshIsUnseen /\ ClientsAsk
    /\ WindowCoversAdmitted /\ CountIsAdmitted /\ PreviousWithinLimit
    /\ AtMostTwiceTheLimit /\ SpentByAdmitted /\ RefusalEnds

-----------------------------------------------------------------------------

\* The window lasts at least one tick.
LEMMA WindowPositive == Window \in Nat \ {0}
<1>1. \A s, d \in Nat \ {0} : s * d \in Nat \ {0}
  OBVIOUS
<1>. QED
  BY <1>1, FrontDoorAssumption DEF Window

\* Dividing ticks by ticks per second drops less than a second and never gives
\* more seconds than there are in the window.
LEMMA WholeSeconds ==
    ASSUME NEW x \in 1..Window
    PROVE  /\ x \div TicksPerSecond \in 0..WindowSeconds
           /\ x < (x \div TicksPerSecond + 1) * TicksPerSecond
<1>. DEFINE d == TicksPerSecond
            q == x \div d
<1>1. x \in Nat /\ d \in Nat \ {0} /\ WindowSeconds \in Nat /\ x <= WindowSeconds * d
  BY WindowPositive, FrontDoorAssumption DEF Window
<1>2. q \in Nat /\ x < (q + 1) * d /\ q * d <= x
  BY <1>1
<1>3. q <= WindowSeconds
  <2>. SUFFICES ASSUME q >= WindowSeconds + 1 PROVE FALSE
    BY <1>1, <1>2
  <2>1. \A a, b \in Nat : a >= b => a * d >= b * d
    BY <1>1
  <2>2. q * d >= (WindowSeconds + 1) * d
    BY <1>1, <1>2, <2>1
  <2>3. (WindowSeconds + 1) * d = WindowSeconds * d + d
    BY <1>1
  <2>. HIDE DEF q, d
  <2>. QED
    BY <1>1, <1>2, <2>2, <2>3
<1>. QED
  BY <1>2, <1>3

\* Some of the requests are finitely many, and fewer of them are not more.
LEMMA FewerRequests ==
    ASSUME NEW S \in SUBSET Requests, NEW T \in SUBSET S
    PROVE  /\ IsFiniteSet(S) /\ IsFiniteSet(T)
           /\ Cardinality(S) \in Nat /\ Cardinality(T) \in Nat
           /\ Cardinality(T) <= Cardinality(S)
<1>1. IsFiniteSet(S)
  BY FrontDoorAssumption, FS_Subset
<1>2. IsFiniteSet(T) /\ Cardinality(T) <= Cardinality(S)
  BY <1>1, FS_Subset
<1>. QED
  BY <1>1, <1>2, FS_CardinalityType

\* Two sets of requests together are no more than their sum.
LEMMA TwoWindows ==
    ASSUME NEW S \in SUBSET Requests, NEW T \in SUBSET Requests
    PROVE  Cardinality(S \cup T) <= Cardinality(S) + Cardinality(T)
<1>1. /\ IsFiniteSet(S) /\ IsFiniteSet(T) /\ S \cap T \in SUBSET S
      /\ Cardinality(S) \in Nat /\ Cardinality(T) \in Nat /\ Cardinality(S \cap T) \in Nat
  BY FewerRequests
<1>2. Cardinality(S \cup T) = Cardinality(S) + Cardinality(T) - Cardinality(S \cap T)
  BY <1>1, FS_Union
<1>. QED
  BY <1>1, <1>2

-----------------------------------------------------------------------------

\* A limiter that has checked nothing satisfies the invariant.
LEMMA DoorInitInv == Init => DoorInv
<1>. SUFFICES ASSUME Init PROVE DoorInv
  OBVIOUS
<1>. USE FrontDoorAssumption, WindowPositive DEF Init
<1>1. TypeOK
  BY DEF TypeOK, Times
<1>2. AdmittedSince(startedAt) = {} /\ \A f, t : AdmittedWithin(f, t) = {}
  BY DEF AdmittedSince, AdmittedWithin
<1>3. /\ Cardinality(AdmittedSince(startedAt)) = 0
      /\ \A f, t : Cardinality(AdmittedWithin(f, t)) = 0
  BY <1>2, FS_EmptySet, Zenon
<1>5. CountIsAdmitted /\ PreviousWithinLimit /\ AtMostTwiceTheLimit
  BY <1>3 DEF CountIsAdmitted, PreviousWithinLimit, AtMostTwiceTheLimit
<1>4. FreshIsUnseen /\ ClientsAsk /\ WindowCoversAdmitted /\ SpentByAdmitted /\ RefusalEnds
  BY DEF FreshIsUnseen, ClientsAsk, WindowCoversAdmitted, SpentByAdmitted, RefusalEnds
<1>. QED
  BY <1>1, <1>4, <1>5 DEF DoorInv

\* The clock and the layers that do not ask the limiter.
LEMMA UncheckedInv ==
    ASSUME DoorInv, UNCHANGED <<limiterVars, historyVars>>,
           now' \in now..MaxTime, stage' \in [Requests -> {"new", "limit", "handler", "over"}],
           \A r \in Requests : stage'[r] \in {"new", "limit"} => stage[r] \in {"new", "limit"},
           \A r \in Requests : stage'[r] = "limit" => IsProbe(r) \/ r \in Clients
    PROVE  DoorInv'
<1>. USE FrontDoorAssumption, WindowPositive DEF DoorInv, limiterVars, historyVars
<1>1. TypeOK'
  BY DEF TypeOK, Times
<1>2. FreshIsUnseen' /\ ClientsAsk'
  BY DEF FreshIsUnseen, ClientsAsk, Clients, IsProbe
<1>3. WindowCoversAdmitted' /\ RefusalEnds'
  BY DEF WindowCoversAdmitted, RefusalEnds, TypeOK, Times
<1>4. CountIsAdmitted' /\ PreviousWithinLimit' /\ AtMostTwiceTheLimit' /\ SpentByAdmitted'
  BY DEF CountIsAdmitted, PreviousWithinLimit, AtMostTwiceTheLimit, SpentByAdmitted,
         AdmittedSince, AdmittedWithin
<1>. QED
  BY <1>1, <1>2, <1>3, <1>4

\* check counts a request: in the current window, or as the first of a new one.
LEMMA AdmittedInv ==
    ASSUME DoorInv, NEW r \in Requests, Admitted(r)
    PROVE  DoorInv'
<1>. USE FrontDoorAssumption, WindowPositive DEF DoorInv
<1>1. /\ LimitPerMinute > 0 /\ stage[r] = "limit"
      /\ admittedAt[r] = Never /\ refusedAt[r] = Never
      /\ stage' = [stage EXCEPT ![r] = "handler"]
      /\ admittedAt' = [admittedAt EXCEPT ![r] = now]
      /\ UNCHANGED <<now, refusedAt, retryAfter>>
  BY DEF Admitted, Limited, Move, FreshIsUnseen
<1>2. \/ /\ now >= startedAt + Window /\ startedAt' = now /\ count' = 1
      \/ /\ now < startedAt + Window /\ startedAt' = startedAt
         /\ count' = count + 1 /\ count < LimitPerMinute
  BY DEF Admitted, Spent, WindowStart, WindowIsOver, TypeOK, Times
<1>3. TypeOK'
  BY <1>1, <1>2 DEF TypeOK, Times
<1>4. FreshIsUnseen' /\ ClientsAsk'
  <2>1. r \in Clients
    BY <1>1 DEF Admitted, Limited, ClientsAsk
  <2>. QED
    BY <1>1, <2>1 DEF FreshIsUnseen, ClientsAsk, Clients, IsProbe, TypeOK
<1>5. WindowCoversAdmitted' /\ RefusalEnds'
  BY <1>1, <1>2 DEF WindowCoversAdmitted, RefusalEnds, TypeOK, Times
<1>6. CountIsAdmitted'
  <2>1. CASE now >= startedAt + Window
    <3>1. AdmittedSince(startedAt)' = {r}
      BY <1>1, <1>2, <2>1 DEF AdmittedSince, WindowCoversAdmitted, TypeOK, Times
    <3>2. Cardinality({} \cup {r}) = 0 + 1
      <4>1. IsFiniteSet({}) /\ Cardinality({}) = 0 /\ r \notin {}
        BY FS_EmptySet
      <4>. QED
        BY <4>1, FS_AddElement
    <3>3. {} \cup {r} = {r}
      OBVIOUS
    <3>. QED
      BY <1>2, <2>1, <3>1, <3>2, <3>3 DEF CountIsAdmitted, TypeOK, Times
  <2>2. CASE now < startedAt + Window
    <3>1. AdmittedSince(startedAt)' = AdmittedSince(startedAt) \cup {r}
          /\ r \notin AdmittedSince(startedAt)
      BY <1>1, <1>2, <2>2 DEF AdmittedSince, TypeOK, Times
    <3>2. IsFiniteSet(AdmittedSince(startedAt))
      BY FewerRequests DEF AdmittedSince
    <3>3. Cardinality(AdmittedSince(startedAt) \cup {r})
            = Cardinality(AdmittedSince(startedAt)) + 1
      BY <3>1, <3>2, FS_AddElement
    <3>. QED
      BY <1>1, <1>2, <2>2, <3>1, <3>3 DEF CountIsAdmitted, TypeOK, Times
  <2>. QED
    BY <2>1, <2>2 DEF TypeOK, Times
<1>7. PreviousWithinLimit'
  <2>1. CASE now >= startedAt + Window
    <3>1. AdmittedWithin(startedAt - Window, startedAt - 1)' \subseteq AdmittedSince(startedAt)
      BY <1>1, <1>2, <2>1 DEF AdmittedWithin, AdmittedSince, TypeOK, Times
    <3>2. Cardinality(AdmittedWithin(startedAt - Window, startedAt - 1)')
            <= Cardinality(AdmittedSince(startedAt))
          /\ Cardinality(AdmittedWithin(startedAt - Window, startedAt - 1)') \in Nat
      BY <3>1, FewerRequests DEF AdmittedSince
    <3>. QED
      BY <1>1, <3>2 DEF PreviousWithinLimit, CountIsAdmitted, TypeOK
  <2>2. CASE now < startedAt + Window
    <3>1. AdmittedWithin(startedAt - Window, startedAt - 1)'
            = AdmittedWithin(startedAt - Window, startedAt - 1)
      BY <1>1, <1>2, <2>2 DEF AdmittedWithin, TypeOK, Times
    <3>. QED
      BY <3>1 DEF PreviousWithinLimit
  <2>. QED
    BY <2>1, <2>2 DEF TypeOK, Times
<1>8. AtMostTwiceTheLimit'
  <2>. SUFFICES ASSUME NEW t \in Times
                PROVE  Cardinality(AdmittedWithin(t, t + Window - 1)') <= 2 * LimitPerMinute
    BY DEF AtMostTwiceTheLimit
  <2>1. CASE now >= t /\ now <= t + Window - 1
    <3>. DEFINE S == AdmittedSince(startedAt)'
                P == AdmittedWithin(startedAt - Window, startedAt - 1)'
                A == AdmittedWithin(t, t + Window - 1)'
    <3>1. A \subseteq P \cup S /\ P \cup S \subseteq Requests
      BY <1>1, <1>2, <1>3, <2>1 DEF AdmittedWithin, AdmittedSince, TypeOK, Times
    <3>2. /\ Cardinality(A) <= Cardinality(P \cup S)
          /\ Cardinality(A) \in Nat /\ Cardinality(P \cup S) \in Nat
          /\ Cardinality(P) \in Nat /\ Cardinality(S) \in Nat
      BY <3>1, FewerRequests DEF AdmittedWithin, AdmittedSince
    <3>3. Cardinality(P \cup S) <= Cardinality(P) + Cardinality(S)
      BY <3>1, TwoWindows
    <3>4. Cardinality(P) <= LimitPerMinute /\ Cardinality(S) <= LimitPerMinute
      BY <1>1, <1>3, <1>6, <1>7 DEF PreviousWithinLimit, CountIsAdmitted, TypeOK
    <3>. QED
      BY <3>2, <3>3, <3>4
  <2>2. CASE ~(now >= t /\ now <= t + Window - 1)
    <3>1. AdmittedWithin(t, t + Window - 1)' = AdmittedWithin(t, t + Window - 1)
      BY <1>1, <2>2 DEF AdmittedWithin, TypeOK, Times
    <3>. QED
      BY <1>1, <3>1 DEF AtMostTwiceTheLimit
  <2>. QED
    BY <2>1, <2>2
<1>9. SpentByAdmitted'
  <2>. SUFFICES ASSUME NEW q \in Requests, refusedAt[q] # Never
                PROVE  Cardinality(AdmittedWithin(refusedAt[q] - Window + 1, refusedAt[q])')
                         >= LimitPerMinute
    BY <1>1 DEF SpentByAdmitted
  <2>. DEFINE B == AdmittedWithin(refusedAt[q] - Window + 1, refusedAt[q])
  <2>1. B \subseteq B' /\ B' \subseteq Requests
    BY <1>1 DEF AdmittedWithin, TypeOK
  <2>2. Cardinality(B) <= Cardinality(B') /\ Cardinality(B) \in Nat /\ Cardinality(B') \in Nat
    BY <2>1, FewerRequests
  <2>3. Cardinality(B) >= LimitPerMinute
    BY DEF SpentByAdmitted
  <2>. QED
    BY <2>2, <2>3
<1>. QED
  BY <1>3, <1>4, <1>5, <1>6, <1>7, <1>8, <1>9

\* check turns a request away: its window is not over and its count is spent.
LEMMA RefusedInv ==
    ASSUME DoorInv, NEW r \in Requests, Refused(r)
    PROVE  DoorInv'
<1>. USE FrontDoorAssumption, WindowPositive DEF DoorInv
<1>1. /\ LimitPerMinute > 0 /\ stage[r] = "limit"
      /\ admittedAt[r] = Never /\ refusedAt[r] = Never
      /\ stage' = [stage EXCEPT ![r] = "over"]
      /\ refusedAt' = [refusedAt EXCEPT ![r] = now]
      /\ retryAfter' = [retryAfter EXCEPT ![r] = RetryAfter]
      /\ UNCHANGED <<now, admittedAt>>
  BY DEF Refused, Limited, Respond, Move, FreshIsUnseen
<1>2. /\ now < startedAt + Window /\ count >= LimitPerMinute
      /\ startedAt' = startedAt /\ count' = count /\ WindowStart = startedAt
  BY <1>1 DEF Refused, Spent, WindowStart, WindowIsOver, TypeOK, Times
<1>3. /\ RetryAfter \in 1..WindowSeconds
      /\ startedAt + Window <= now + (RetryAfter + 1) * TicksPerSecond
  <2>. DEFINE left == Window - (now - startedAt)
              seconds == left \div TicksPerSecond
  <2>1. left \in 1..Window
    BY <1>2 DEF TypeOK, Times
  <2>2. seconds \in 0..WindowSeconds /\ left < (seconds + 1) * TicksPerSecond
    BY <2>1, WholeSeconds
  <2>3. RetryAfter = IF seconds = 0 THEN 1 ELSE seconds
    BY <1>2 DEF RetryAfter
  <2>4. (1 + 1) * TicksPerSecond >= (0 + 1) * TicksPerSecond
    BY FrontDoorAssumption
  <2>5. left < (RetryAfter + 1) * TicksPerSecond
    <3>1. CASE seconds = 0
      <4>1. left < (0 + 1) * TicksPerSecond /\ RetryAfter = 1
        BY <2>2, <2>3, <3>1
      <4>. QED
        BY <2>1, <2>4, <4>1
    <3>2. CASE seconds # 0
      BY <2>2, <2>3, <3>2
    <3>. QED
      BY <3>1, <3>2
  <2>6. RetryAfter \in 1..WindowSeconds
    BY <2>2, <2>3
  <2>7. (RetryAfter + 1) * TicksPerSecond \in Nat
    BY <2>6
  <2>8. left = startedAt + Window - now
    BY DEF TypeOK, Times
  <2>. HIDE DEF left, seconds
  <2>. QED
    BY <2>1, <2>5, <2>6, <2>7, <2>8 DEF TypeOK, Times
<1>4. TypeOK'
  BY <1>1, <1>2, <1>3 DEF TypeOK, Times
<1>5. FreshIsUnseen' /\ ClientsAsk' /\ WindowCoversAdmitted'
  BY <1>1, <1>2 DEF FreshIsUnseen, ClientsAsk, Clients, IsProbe, WindowCoversAdmitted, TypeOK
<1>6. RefusalEnds'
  BY <1>1, <1>2, <1>3 DEF RefusalEnds, TypeOK, Times
<1>7. CountIsAdmitted' /\ PreviousWithinLimit' /\ AtMostTwiceTheLimit'
  BY <1>1, <1>2 DEF CountIsAdmitted, PreviousWithinLimit, AtMostTwiceTheLimit,
                    AdmittedSince, AdmittedWithin
<1>8. SpentByAdmitted'
  <2>. SUFFICES ASSUME NEW q \in Requests, NEW at, at = refusedAt'[q], at # Never
                PROVE  Cardinality(AdmittedWithin(at - Window + 1, at)') >= LimitPerMinute
    BY DEF SpentByAdmitted
  <2>1. AdmittedWithin(at - Window + 1, at)' = AdmittedWithin(at - Window + 1, at)
    BY <1>1 DEF AdmittedWithin
  <2>2. CASE q = r
    <3>1. at = now
      BY <1>1, <2>2 DEF TypeOK
    <3>2. /\ AdmittedSince(startedAt) \subseteq AdmittedWithin(at - Window + 1, at)
          /\ AdmittedWithin(at - Window + 1, at) \subseteq Requests
      BY <1>2, <3>1 DEF AdmittedSince, AdmittedWithin, WindowCoversAdmitted, TypeOK, Times
    <3>3. /\ Cardinality(AdmittedSince(startedAt))
               <= Cardinality(AdmittedWithin(at - Window + 1, at))
          /\ Cardinality(AdmittedWithin(at - Window + 1, at)) \in Nat
      BY <3>2, FewerRequests
    <3>. QED
      BY <1>1, <1>2, <2>1, <3>3 DEF CountIsAdmitted, TypeOK
  <2>3. CASE q # r
    <3>1. at = refusedAt[q]
      BY <1>1, <2>3 DEF TypeOK
    <3>. QED
      BY <2>1, <3>1 DEF SpentByAdmitted
  <2>. QED
    BY <2>2, <2>3
<1>. QED
  BY <1>4, <1>5, <1>6, <1>7, <1>8

\* Every step of the clock, the layers and the handlers keeps the invariant.
LEMMA DoorStepInv == DoorInv /\ [Next]_vars => DoorInv'
<1>. SUFFICES ASSUME DoorInv, [Next]_vars PROVE DoorInv'
  OBVIOUS
<1>0. TypeOK
  BY DEF DoorInv
<1>1. CASE Tick
  BY <1>0, <1>1, UncheckedInv, FrontDoorAssumption DEF Tick, TypeOK, Times, DoorInv, ClientsAsk
<1>2. ASSUME NEW r \in Requests, Arrive(r) \/ NotLimited(r) \/ RequestTimesOut(r)
                                 \/ HandlerReturns(r) \/ ClientLeaves(r)
      PROVE  DoorInv'
  <2>1. UNCHANGED <<now, limiterVars, historyVars>>
    BY <1>2 DEF Arrive, KeyAccepted, KeyMissing, NotLimited, RequestTimesOut, HandlerReturns,
                ClientLeaves
  <2>2. \/ Move(r, "new", "limit") \/ Move(r, "new", "over")
        \/ Move(r, "limit", "handler") \/ Move(r, "handler", "over")
    BY <1>2 DEF Arrive, KeyAccepted, KeyMissing, NotLimited, RequestTimesOut, HandlerReturns,
                ClientLeaves, Respond
  <2>3. /\ stage' \in [Requests -> {"new", "limit", "handler", "over"}]
        /\ \A q \in Requests : stage'[q] \in {"new", "limit"} => stage[q] \in {"new", "limit"}
    BY <1>0, <2>2 DEF Move, TypeOK
  <2>4. now' \in now..MaxTime
    BY <1>0, <2>1, FrontDoorAssumption DEF TypeOK, Times
  <2>5. ASSUME NEW q \in Requests, stage'[q] = "limit" PROVE IsProbe(q) \/ q \in Clients
    <3>1. CASE q = r /\ KeyAccepted(r)
      BY <3>1 DEF KeyAccepted, Clients
    <3>2. CASE ~(q = r /\ KeyAccepted(r))
      <4>1. stage[q] = "limit"
        BY <1>0, <1>2, <2>5, <3>2 DEF Arrive, KeyMissing, KeyAccepted, NotLimited, RequestTimesOut,
           HandlerReturns, ClientLeaves, Respond, Move, TypeOK
      <4>. QED
        BY <4>1 DEF DoorInv, ClientsAsk
    <3>. QED
      BY <3>1, <3>2
  <2>. QED
    BY <2>1, <2>3, <2>4, <2>5, UncheckedInv
<1>3. ASSUME NEW r \in Requests, Admitted(r) PROVE DoorInv'
  BY <1>3, AdmittedInv
<1>4. ASSUME NEW r \in Requests, Refused(r) PROVE DoorInv'
  BY <1>4, RefusedInv
<1>5. CASE UNCHANGED vars
  BY <1>0, <1>5, UncheckedInv, FrontDoorAssumption DEF vars, TypeOK, Times, DoorInv, ClientsAsk
<1>. QED
  BY <1>1, <1>2, <1>3, <1>4, <1>5 DEF Next, Pass

\* The invariant holds in every state.
LEMMA DoorInvariance == Spec => []DoorInv
  BY DoorInitInv, DoorStepInv, PTL DEF Spec

\* The limiter's window, counter and answers stay in their types: the counter
\* never passes the limit and Retry-After never says more than a window.
THEOREM DoorTypeCorrect == Spec => []TypeOK
<1>1. DoorInv => TypeOK
  BY DEF DoorInv
<1>. QED
  BY <1>1, DoorInvariance, PTL

\* A fixed window that only the next check moves lets at most twice the limit
\* through in any time of one window.
THEOREM AtMostTwiceTheLimitCorrect == Spec => []AtMostTwiceTheLimit
<1>1. DoorInv => AtMostTwiceTheLimit
  BY DEF DoorInv
<1>. QED
  BY <1>1, DoorInvariance, PTL

\* A 429 means that the limit was used up within the last window by requests
\* that had a key where one is needed, and by no probes.
THEOREM RefusedOnlyWhenSpentCorrect == Spec => []RefusedOnlyWhenSpent
<1>1. DoorInv => RefusedOnlyWhenSpent
  <2>1. DoorInv => \A from, to : Clients \cap AdmittedWithin(from, to) = AdmittedWithin(from, to)
    BY DEF DoorInv, ClientsAsk, AdmittedWithin
  <2>. QED
    BY <2>1 DEF DoorInv, SpentByAdmitted, RefusedOnlyWhenSpent
<1>. QED
  BY <1>1, DoorInvariance, PTL

\* Waiting Retry-After and one second is enough, whatever the resolution of
\* the clock and however much of a second as_secs dropped.
THEOREM RetryAfterCoversWindowCorrect == Spec => []RetryAfterCoversWindow
<1>1. DoorInv => RetryAfterCoversWindow
  <2>. SUFFICES ASSUME DoorInv, NEW r \in Requests, refusedAt[r] # Never
                PROVE  /\ retryAfter[r] \in 1..WindowSeconds
                       /\ now >= refusedAt[r] + (retryAfter[r] + 1) * TicksPerSecond
                            => WindowIsOver \/ startedAt > refusedAt[r]
    BY DEF RetryAfterCoversWindow
  <2>1. TypeOK /\ RefusalEnds
    BY DEF DoorInv
  <2>2. retryAfter[r] \in 1..WindowSeconds
    BY <2>1 DEF RefusalEnds
  <2>3. (retryAfter[r] + 1) * TicksPerSecond \in Nat
    BY <2>2, FrontDoorAssumption
  <2>. QED
    BY <2>1, <2>2, <2>3, WindowPositive, FrontDoorAssumption
    DEF RefusalEnds, WindowIsOver, TypeOK, Times
<1>. QED
  BY <1>1, DoorInvariance, PTL

=============================================================================
