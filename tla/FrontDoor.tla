----------------------------- MODULE FrontDoor -----------------------------
(***************************************************************************)
(* The layers a request passes before its handler (api.rs router): the 408 *)
(* timeout, the API key, the process-wide rate limit.                      *)
(* The rate limiter is state.rs RateLimiter: a window that is moved only   *)
(* by the first check after it ended.                                      *)
(*                                                                         *)
(* Time is counted in ticks, TicksPerSecond to a second, so that an        *)
(* Instant can fall between two seconds.  Left out: CORS, the body limit,  *)
(* the response headers, the request counters, and what the handlers do.   *)
(***************************************************************************)
EXTENDS Integers, FiniteSets

CONSTANTS
    Requests,               \* the requests that may arrive
    Probes,                 \* those for /health or /ready
    KeyHolders,             \* those that present a configured API key
    ApiKeysConfigured,      \* config.api_keys is not empty
    RequestTimeoutSeconds,  \* config.request_timeout_seconds; 0 = no timeout
    LimitPerMinute,         \* config.rate_limit_requests_per_minute; 0 = off
    WindowSeconds,          \* 60 in the code
    TicksPerSecond,         \* resolution of the clock
    MaxTime,                \* bound on the clock
    Never                   \* no time

ASSUME FrontDoorAssumption ==
    /\ IsFiniteSet(Requests) /\ Probes \subseteq Requests /\ KeyHolders \subseteq Requests
    /\ ApiKeysConfigured \in BOOLEAN
    /\ RequestTimeoutSeconds \in Nat /\ LimitPerMinute \in Nat
    /\ WindowSeconds \in Nat \ {0} /\ TicksPerSecond \in Nat \ {0}
    /\ MaxTime \in Nat /\ Never \notin Nat

VARIABLES
    now,            \* the clock
    startedAt,      \* RateLimitWindow.started_at
    count,          \* RateLimitWindow.count
    stage,          \* the layer a request has reached
    admittedAt,     \* history: when a request got past the rate limit
    refusedAt,      \* history: when it was answered 429 ...
    retryAfter      \* ... and the Retry-After it was given

limiterVars == <<startedAt, count>>
historyVars == <<admittedAt, refusedAt, retryAfter>>
vars == <<now, limiterVars, stage, historyVars>>

Window == WindowSeconds * TicksPerSecond

\* is_probe_path
IsProbe(r) == r \in Probes

Init ==
    /\ now = 0
    /\ startedAt = 0
    /\ count = 0
    /\ stage = [r \in Requests |-> "new"]
    /\ admittedAt = [r \in Requests |-> Never]
    /\ refusedAt = [r \in Requests |-> Never]
    /\ retryAfter = [r \in Requests |-> 0]

Move(r, from, to) ==
    /\ stage[r] = from
    /\ stage' = [stage EXCEPT ![r] = to]

\* A layer or the handler has produced the response: the request is over.
Respond(r, from) == Move(r, from, "over")

-----------------------------------------------------------------------------

Tick ==
    /\ now < MaxTime
    /\ now' = now + 1
    /\ UNCHANGED <<limiterVars, stage, historyVars>>

\* Mutant of KeyAccepted: the rate limit is the outer layer, and sees the
\* requests that are then answered 401.
KeyAcceptedLater(r) ==
    /\ Move(r, "new", "limit")
    /\ UNCHANGED <<now, limiterVars, historyVars>>

\* require_api_key passes the request on.
KeyAccepted(r) ==
    /\ ~ApiKeysConfigured \/ IsProbe(r) \/ r \in KeyHolders
    /\ Move(r, "new", "limit")
    /\ UNCHANGED <<now, limiterVars, historyVars>>

\* require_api_key answers 401.
KeyMissing(r) ==
    /\ ApiKeysConfigured /\ ~IsProbe(r) /\ r \notin KeyHolders
    /\ Respond(r, "new")
    /\ UNCHANGED <<now, limiterVars, historyVars>>

\* rate_limit does not look at the limiter: a probe, or the limit is off.
NotLimited(r) ==
    /\ IsProbe(r) \/ LimitPerMinute = 0
    /\ Move(r, "limit", "handler")
    /\ UNCHANGED <<now, limiterVars, historyVars>>

Limited(r) == stage[r] = "limit" /\ ~IsProbe(r) /\ LimitPerMinute > 0

\* RateLimiter::check, under its mutex: first the window is moved if it is
\* over, then the request is counted or turned away.
WindowIsOver == now - startedAt >= Window
WindowStart  == IF WindowIsOver THEN now ELSE startedAt

Spent == IF WindowIsOver THEN 0 ELSE count

\* Mutant of Admitted: <= instead of <.
AdmittedOneTooMany(r) ==
    /\ Limited(r)
    /\ Spent <= LimitPerMinute
    /\ startedAt' = WindowStart /\ count' = Spent + 1
    /\ Move(r, "limit", "handler")
    /\ admittedAt' = [admittedAt EXCEPT ![r] = now]
    /\ UNCHANGED <<now, refusedAt, retryAfter>>

Admitted(r) ==
    /\ Limited(r)
    /\ Spent < LimitPerMinute
    /\ startedAt' = WindowStart /\ count' = Spent + 1
    /\ Move(r, "limit", "handler")
    /\ admittedAt' = [admittedAt EXCEPT ![r] = now]
    /\ UNCHANGED <<now, refusedAt, retryAfter>>

\* Mutant of RetryAfter: measured from the start of the window.
RetryAfterElapsed ==
    LET seconds == (now - WindowStart) \div TicksPerSecond
    IN  IF seconds = 0 THEN 1 ELSE seconds

\* What is left of the window in whole seconds (as_secs), at least one.
RetryAfter ==
    LET seconds == (Window - (now - WindowStart)) \div TicksPerSecond
    IN  IF seconds = 0 THEN 1 ELSE seconds

Refused(r) ==
    /\ Limited(r)
    /\ Spent >= LimitPerMinute
    /\ startedAt' = WindowStart /\ count' = Spent
    /\ Respond(r, "limit")
    /\ refusedAt' = [refusedAt EXCEPT ![r] = now]
    /\ retryAfter' = [retryAfter EXCEPT ![r] = RetryAfter]
    /\ UNCHANGED <<now, admittedAt>>

\* The handler answers, whatever the status.
HandlerReturns(r) ==
    /\ Respond(r, "handler")
    /\ UNCHANGED <<now, limiterVars, historyVars>>

\* TimeoutLayer answers 408: the handler is dropped at an await.
RequestTimesOut(r) ==
    /\ RequestTimeoutSeconds > 0
    /\ Respond(r, "handler")
    /\ UNCHANGED <<now, limiterVars, historyVars>>

\* The client goes away while the handler runs.
ClientLeaves(r) ==
    /\ Move(r, "handler", "over")
    /\ UNCHANGED <<now, limiterVars, historyVars>>

Arrive(r) == KeyAccepted(r) \/ KeyMissing(r)
Pass(r)   == NotLimited(r) \/ Admitted(r) \/ Refused(r) \/ RequestTimesOut(r)

Next ==
    \/ Tick
    \/ \E r \in Requests : Arrive(r) \/ Pass(r) \/ HandlerReturns(r) \/ ClientLeaves(r)

Spec == Init /\ [][Next]_vars

-----------------------------------------------------------------------------

Times == 0..MaxTime

\* Type invariant of the layers (state.rs RateLimitWindow, AppMetrics).
TypeOK ==
    /\ now \in Times
    /\ startedAt \in 0..now
    /\ count \in 0..LimitPerMinute
    /\ stage \in [Requests -> {"new", "limit", "handler", "over"}]
    /\ admittedAt \in [Requests -> Times \cup {Never}]
    /\ refusedAt \in [Requests -> Times \cup {Never}]
    /\ retryAfter \in [Requests -> 0..WindowSeconds]

AdmittedWithin(from, to) ==
    {r \in Requests : admittedAt[r] # Never /\ admittedAt[r] >= from /\ admittedAt[r] <= to}

\* Whatever moment one starts at, at most twice the limit gets past the rate
\* limiter in the time of one window: the window is fixed, not sliding, and is
\* only moved by the next check.
AtMostTwiceTheLimit ==
    LimitPerMinute > 0 =>
        \A t \in Times :
            Cardinality(AdmittedWithin(t, t + Window - 1)) <= 2 * LimitPerMinute

\* The requests that may cost the limit something: no probes, and with a key
\* where one is needed.
Clients == {r \in Requests : ~IsProbe(r) /\ (~ApiKeysConfigured \/ r \in KeyHolders)}

\* A 429 means that other requests, with a key where one is needed, used up
\* the limit within the last window: probes, requests answered 401 (the key
\* layer is the outer one) and requests that were themselves refused cost
\* nothing.
RefusedOnlyWhenSpent ==
    \A r \in Requests :
        refusedAt[r] # Never =>
            Cardinality(Clients \cap AdmittedWithin(refusedAt[r] - Window + 1, refusedAt[r]))
                >= LimitPerMinute

\* A client that waits one second longer than Retry-After says finds the
\* window that refused it over, and it is never told to wait longer than a
\* whole window or not at all.  (Waiting exactly Retry-After is not enough
\* when as_secs dropped a fraction.)
RetryAfterCoversWindow ==
    \A r \in Requests :
        refusedAt[r] # Never =>
            /\ retryAfter[r] \in 1..WindowSeconds
            /\ now >= refusedAt[r] + (retryAfter[r] + 1) * TicksPerSecond
                 => WindowIsOver \/ startedAt > refusedAt[r]

=============================================================================
