-------------------------- MODULE WebhookDelivery --------------------------
(***************************************************************************)
(* send_webhook (jobs/webhook.rs): one event per finished job, sent up to  *)
(* max_attempts times over a network that loses and delays requests and    *)
(* replies, then written to the dead-letter file.  JobServer takes this    *)
(* whole call as its step SendWebhook.                                     *)
(*                                                                         *)
(* The receiver is the one docs/http-api.md asks for: it treats the event  *)
(* id as an idempotency key.  Several workers may be delivering at once,   *)
(* each its own job.  Left out: the length of a backoff, zero included, and *)
(* jobs without a webhook_url, which return at once (JobServer has them).   *)
(***************************************************************************)
EXTENDS Naturals, FiniteSets

CONSTANTS
    Jobs,               \* finished jobs with a webhook_url, announced once each
    WebhookMaxAttempts, \* config.webhook_max_attempts
    TimeoutSeconds,     \* config.webhook_timeout_seconds; 0 = no timeout
    Faults              \* subset of {"net", "reject", "disk", "stop"}

ASSUME DeliveryAssumption ==
    /\ IsFiniteSet(Jobs)
    /\ WebhookMaxAttempts \in Nat
    /\ TimeoutSeconds \in Nat
    /\ Faults \subseteq {"net", "reject", "disk", "stop"}

\* WebhookClient::new
MaxAttempts == IF WebhookMaxAttempts = 0 THEN 1 ELSE WebhookMaxAttempts

VARIABLES
    up,             \* the process runs
    step,           \* where the delivery of a job stands
    attempt,        \* the attempt it is at
    eventId,        \* WebhookEvent.event_id; 0 before there is one
    lastId,         \* the event ids handed out (Uuid::new_v4: all distinct)
    verdict,        \* the WebhookDeliveryResult
    deadLetters,    \* event ids with a line in webhooks_dead_letter.jsonl
    failures,       \* AppMetrics.webhook_failures
    wire,           \* requests the receiver has not read
    reply,          \* the response to the current attempt, if it came back
    seen,           \* receiver: event ids it has processed
    applied         \* receiver: how often it acted on a job

clientVars == <<up, step, attempt, eventId, lastId, verdict, deadLetters, failures>>
vars == <<clientVars, wire, reply, seen, applied>>

Init ==
    /\ up = TRUE
    /\ step = [j \in Jobs |-> "finished"]
    /\ attempt = [j \in Jobs |-> 0]
    /\ eventId = [j \in Jobs |-> 0]
    /\ lastId = 0
    /\ verdict = [j \in Jobs |-> "none"]
    /\ deadLetters = {}
    /\ failures = 0
    /\ wire = {}
    /\ reply = [j \in Jobs |-> "none"]
    /\ seen = {}
    /\ applied = [j \in Jobs |-> 0]

-----------------------------------------------------------------------------
(* The worker: send_webhook and deliver.                                   *)

At(j, s)   == up /\ step[j] = s
Goto(j, s) == step' = [step EXCEPT ![j] = s]

\* deliver returned and send_webhook matched on its result.
Conclude(j, v) ==
    /\ Goto(j, "done")
    /\ verdict' = [verdict EXCEPT ![j] = v]
    /\ failures' = failures + IF v \in {"failed", "dead_letter_failed"} THEN 1 ELSE 0

\* send: one POST of the event, numbered by the attempt.
Send(j, id) ==
    /\ Goto(j, "sending")
    /\ attempt' = [attempt EXCEPT ![j] = @ + 1]
    /\ wire' = wire \cup {[job |-> j, id |-> id, attempt |-> attempt[j] + 1]}
    /\ reply' = [reply EXCEPT ![j] = "none"]

\* WebhookEvent::from_job, and the first attempt.
FirstAttempt(j) ==
    /\ At(j, "finished")
    /\ lastId' = lastId + 1
    /\ eventId' = [eventId EXCEPT ![j] = lastId + 1]
    /\ Send(j, lastId + 1)
    /\ UNCHANGED <<up, verdict, deadLetters, failures, seen, applied>>

\* Mutant of NextAttempt: the event is built anew for every attempt.
NextAttemptNewEvent(j) ==
    /\ At(j, "backoff")
    /\ lastId' = lastId + 1
    /\ eventId' = [eventId EXCEPT ![j] = lastId + 1]
    /\ Send(j, lastId + 1)
    /\ UNCHANGED <<up, verdict, deadLetters, failures, seen, applied>>

\* The backoff is over: the same event again.
NextAttempt(j) ==
    /\ At(j, "backoff")
    /\ Send(j, eventId[j])
    /\ UNCHANGED <<up, eventId, lastId, verdict, deadLetters, failures, seen, applied>>

\* Mutant of AfterError: the loop ends one attempt early.
AfterErrorEarly(j) ==
    Goto(j, IF attempt[j] + 1 < MaxAttempts THEN "backoff" ELSE "dead_letter")

\* The attempt was an error: try again after the backoff, or give up.
AfterError(j) ==
    Goto(j, IF attempt[j] < MaxAttempts THEN "backoff" ELSE "dead_letter")

\* Mutant of Delivered: any response will do.
DeliveredByAnyReply(j) ==
    /\ At(j, "sending") /\ reply[j] # "none"
    /\ Conclude(j, "delivered")
    /\ UNCHANGED <<up, attempt, eventId, lastId, deadLetters, wire, reply, seen, applied>>

\* A 2xx response.
Delivered(j) ==
    /\ At(j, "sending") /\ reply[j] = "2xx"
    /\ Conclude(j, "delivered")
    /\ UNCHANGED <<up, attempt, eventId, lastId, deadLetters, wire, reply, seen, applied>>

\* Any other response; redirects are not followed.
Rejected(j) ==
    /\ At(j, "sending") /\ reply[j] = "other"
    /\ AfterError(j)
    /\ UNCHANGED <<up, attempt, eventId, lastId, verdict, deadLetters, failures,
                   wire, reply, seen, applied>>

\* The connection is refused, or breaks before the response.
ConnectionBreaks(j) ==
    /\ "net" \in Faults
    /\ At(j, "sending")
    /\ AfterError(j)
    /\ UNCHANGED <<up, attempt, eventId, lastId, verdict, deadLetters, failures,
                   wire, reply, seen, applied>>

\* Mutant of AttemptTimesOut: only connecting is limited.
AttemptTimesOutConnecting(j) ==
    /\ TimeoutSeconds > 0
    /\ At(j, "sending") /\ \E r \in wire : r.job = j /\ r.attempt = attempt[j]
    /\ AfterError(j)
    /\ UNCHANGED <<up, attempt, eventId, lastId, verdict, deadLetters, failures,
                   wire, reply, seen, applied>>

\* The timeout of reqwest, whether or not the receiver read the request.
AttemptTimesOut(j) ==
    /\ TimeoutSeconds > 0
    /\ At(j, "sending")
    /\ AfterError(j)
    /\ UNCHANGED <<up, attempt, eventId, lastId, verdict, deadLetters, failures,
                   wire, reply, seen, applied>>

\* The dead letter is appended.
Bury(j) ==
    /\ At(j, "dead_letter")
    /\ deadLetters' = deadLetters \cup {eventId[j]}
    /\ Conclude(j, "failed")
    /\ UNCHANGED <<up, attempt, eventId, lastId, wire, reply, seen, applied>>

BuryFails(j) ==
    /\ "disk" \in Faults
    /\ At(j, "dead_letter")
    /\ Conclude(j, "dead_letter_failed")
    /\ UNCHANGED <<up, attempt, eventId, lastId, deadLetters, wire, reply, seen, applied>>

\* The process stops.  The next one does not take the deliveries up again
\* (load_jobs), so nothing more is sent.
Stop ==
    /\ "stop" \in Faults /\ up
    /\ up' = FALSE
    /\ UNCHANGED <<step, attempt, eventId, lastId, verdict, deadLetters, failures,
                   wire, reply, seen, applied>>

-----------------------------------------------------------------------------
(* The network and the receiver.                                           *)

\* The receiver reads a request, acts on an event it has not seen, and
\* answers; the answer reaches a client that still waits for this attempt.
Receive(r, status) ==
    /\ r \in wire
    /\ wire' = wire \ {r}
    /\ seen' = seen \cup {r.id}
    /\ applied' = [applied EXCEPT ![r.job] = @ + IF r.id \in seen THEN 0 ELSE 1]
    /\ reply' = IF step[r.job] = "sending" /\ attempt[r.job] = r.attempt
                  THEN [reply EXCEPT ![r.job] = status] ELSE reply
    /\ UNCHANGED clientVars

\* The receiver answers an error or a redirect, and does nothing.
Refuse(r) ==
    /\ "reject" \in Faults
    /\ r \in wire
    /\ wire' = wire \ {r}
    /\ reply' = IF step[r.job] = "sending" /\ attempt[r.job] = r.attempt
                  THEN [reply EXCEPT ![r.job] = "other"] ELSE reply
    /\ UNCHANGED <<clientVars, seen, applied>>

\* The request is lost; or it is read, and its answer is lost.
Lose(r) ==
    /\ "net" \in Faults
    /\ r \in wire
    /\ wire' = wire \ {r}
    /\ UNCHANGED <<clientVars, reply, seen, applied>>

Deliver(j) ==
    \/ FirstAttempt(j) \/ NextAttempt(j)
    \/ Delivered(j) \/ Rejected(j) \/ ConnectionBreaks(j) \/ AttemptTimesOut(j)
    \/ Bury(j) \/ BuryFails(j)

\* "none" stands for an answer that never arrives.
Receiver ==
    \E r \in wire :
        \/ \E status \in {"2xx", "other", "none"} : Receive(r, status)
        \/ Refuse(r)
        \/ Lose(r)

Next == (\E j \in Jobs : Deliver(j)) \/ Receiver \/ Stop

\* The worker takes its steps and the timeout fires.  Nothing is assumed of the
\* network or the receiver: no connection need break, no answer need come.
Advancing(j) ==
    \/ FirstAttempt(j) \/ NextAttempt(j)
    \/ Delivered(j) \/ Rejected(j) \/ AttemptTimesOut(j)
    \/ Bury(j)

Fairness == \A j \in Jobs : WF_vars(Advancing(j))

Spec == Init /\ [][Next]_vars /\ Fairness

-----------------------------------------------------------------------------

\* Type invariant of a delivery (webhook.rs WebhookDeliveryResult).
TypeOK ==
    /\ up \in BOOLEAN
    /\ step \in [Jobs -> {"finished", "sending", "backoff", "dead_letter", "done"}]
    /\ attempt \in [Jobs -> 0..MaxAttempts]
    /\ eventId \in [Jobs -> 0..lastId]
    /\ lastId \in Nat
    /\ verdict \in [Jobs -> {"none", "delivered", "failed", "dead_letter_failed"}]
    /\ deadLetters \subseteq 1..lastId
    /\ failures \in Nat
    /\ wire \subseteq [job : Jobs, id : 1..lastId, attempt : 1..MaxAttempts]
    /\ reply \in [Jobs -> {"none", "2xx", "other"}]
    /\ seen \subseteq 1..lastId
    /\ applied \in [Jobs -> Nat]

\* A receiver that treats the event id as an idempotency key acts once on a
\* job, although a request whose answer was lost or late is sent again and may
\* itself arrive late (deliver builds the event before its loop).
AppliedOnce == \A j \in Jobs : applied[j] <= 1

\* An event is written off only after every configured attempt, and an event
\* written off is in the dead-letter file unless appending to it failed; one
\* that was delivered is not.  The metric counts exactly the ones written off.
DeadLetterIsLast ==
    /\ \A j \in Jobs :
        verdict[j] \in {"failed", "dead_letter_failed"} => attempt[j] = MaxAttempts
    /\ \A j \in Jobs : eventId[j] \in deadLetters <=> verdict[j] = "failed"
    /\ failures = Cardinality({j \in Jobs : verdict[j] \in {"failed", "dead_letter_failed"}})

\* A worker is not kept in send_webhook for ever: with a timeout, every
\* delivery ends, whatever the receiver does (or the process stops).
DeliveryEnds == \A j \in Jobs : step[j] = "sending" ~> step[j] = "done" \/ ~up

\* What the server says of a job: how far it is, or the WebhookDeliveryResult.
FateOf(j) ==
    IF step[j] = "finished"    THEN "due"
    ELSE IF verdict[j] = "none" THEN "begun"
    ELSE [delivered |-> "delivered", failed |-> "dead_letter",
          dead_letter_failed |-> "logged"][verdict[j]]

Promise == INSTANCE Announcement WITH fate <- [j \in Jobs |-> FateOf(j)], acted <- applied

\* Attempts, retries, lost answers and late requests implement one
\* announcement: acted on once, settled once, and delivered only if acted on.
ImplementsAnnouncement == Promise!Spec

=============================================================================
