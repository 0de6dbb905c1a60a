------------------------ MODULE WebhookDeliveryProofs ------------------------
(***************************************************************************)
(* Proofs about WebhookDelivery, for every finite set of jobs, any number   *)
(* of attempts and any faults.                                              *)
(***************************************************************************)
EXTENDS WebhookDelivery, FiniteSetTheorems, TLAPS

\* How far a delivery is agrees with its event, its attempts and its result.
StepsAgree ==
    \A j \in Jobs :
        /\ step[j] = "finished" <=> eventId[j] = 0
        /\ step[j] = "finished" => attempt[j] = 0
        /\ step[j] = "backoff" => attempt[j] < MaxAttempts
        /\ step[j] = "dead_letter" => attempt[j] = MaxAttempts
        /\ step[j] = "done" <=> verdict[j] # "none"

\* Event ids tell jobs apart, and a request carries the one of its job.
OwnEvent ==
    /\ \A j, k \in Jobs : eventId[j] = eventId[k] /\ eventId[j] # 0 => j = k
    /\ \A r \in wire : r.id = eventId[r.job]

\* The receiver acted once on the events it has seen, and a 2xx says that it
\* has seen the event.
ActedOnSeen ==
    \A j \in Jobs :
        /\ applied[j] = IF eventId[j] \in seen THEN 1 ELSE 0
        /\ reply[j] = "2xx" => eventId[j] \in seen

\* The inductive invariant.
DeliveryInv ==
    TypeOK /\ StepsAgree /\ OwnEvent /\ ActedOnSeen /\ DeadLetterIsLast

WrittenOff == {j \in Jobs : verdict[j] \in {"failed", "dead_letter_failed"}}

-----------------------------------------------------------------------------

\* A delivery has at least one attempt, also with retries off.
LEMMA MaxAttemptsPositive == MaxAttempts \in Nat /\ MaxAttempts >= 1
  BY DeliveryAssumption DEF MaxAttempts

\* The jobs written off are finitely many, so they can be counted.
LEMMA WrittenOffCount ==
    IsFiniteSet(WrittenOff) /\ Cardinality(WrittenOff) \in Nat
<1>1. IsFiniteSet(WrittenOff)
  BY DeliveryAssumption, FS_Subset DEF WrittenOff
<1>. QED
  BY <1>1, FS_CardinalityType

\* Writing off a job that was not adds one to their number.
LEMMA WrittenOffGrows ==
    ASSUME NEW j \in Jobs, j \notin WrittenOff, WrittenOff' = WrittenOff \cup {j}
    PROVE  Cardinality(WrittenOff') = Cardinality(WrittenOff) + 1
  BY WrittenOffCount, FS_AddElement

-----------------------------------------------------------------------------

\* A process that has announced nothing satisfies the invariant.
LEMMA DeliveryInitInv == Init => DeliveryInv
<1>. SUFFICES ASSUME Init PROVE DeliveryInv
  OBVIOUS
<1>. USE MaxAttemptsPositive DEF Init
<1>1. TypeOK
  BY DEF TypeOK
<1>2. StepsAgree /\ OwnEvent /\ ActedOnSeen
  BY DEF StepsAgree, OwnEvent, ActedOnSeen
<1>3. WrittenOff = {}
  BY DEF WrittenOff
<1>4. failures = Cardinality(WrittenOff)
  BY <1>3, FS_EmptySet
<1>5. DeadLetterIsLast
  BY <1>4 DEF DeadLetterIsLast, WrittenOff
<1>. QED
  BY <1>1, <1>2, <1>5 DEF DeliveryInv

\* A step that gives no result and writes no dead letter keeps DeadLetterIsLast.
LEMMA NoVerdict ==
    ASSUME DeliveryInv, UNCHANGED <<verdict, failures, deadLetters>>,
           \A j \in Jobs : step[j] = "done" => attempt'[j] = attempt[j],
           \A j \in Jobs : eventId'[j] \in deadLetters <=> eventId[j] \in deadLetters
    PROVE  DeadLetterIsLast'
  BY DEF DeliveryInv, DeadLetterIsLast, StepsAgree

\* A new event: its id is that of no job, no request and no dead letter.
LEMMA FirstAttemptInv ==
    ASSUME DeliveryInv, NEW j \in Jobs, FirstAttempt(j)
    PROVE  DeliveryInv'
<1>. USE MaxAttemptsPositive DEF DeliveryInv
<1>0. /\ step[j] = "finished" /\ eventId[j] = 0 /\ attempt[j] = 0
      /\ verdict[j] = "none"
  BY DEF FirstAttempt, At, StepsAgree
<1>1. /\ step' = [step EXCEPT ![j] = "sending"]
      /\ attempt' = [attempt EXCEPT ![j] = 1]
      /\ eventId' = [eventId EXCEPT ![j] = lastId + 1]
      /\ wire' = wire \cup {[job |-> j, id |-> lastId + 1, attempt |-> 1]}
      /\ reply' = [reply EXCEPT ![j] = "none"]
  <2>1. Send(j, lastId + 1) /\ eventId' = [eventId EXCEPT ![j] = lastId + 1]
    BY DEF FirstAttempt
  <2>2. attempt[j] + 1 = 1
    BY <1>0
  <2>. QED
    BY <2>1, <2>2 DEF Send, Goto
<1>2. /\ lastId' = lastId + 1
      /\ UNCHANGED <<up, verdict, deadLetters, failures, seen, applied>>
  BY DEF FirstAttempt
<1>3. TypeOK'
  BY <1>1, <1>2 DEF TypeOK
<1>4. lastId + 1 \notin seen /\ lastId + 1 \notin deadLetters /\ 0 \notin seen
      /\ 0 \notin deadLetters
  BY DEF TypeOK
<1>5. StepsAgree'
  BY <1>0, <1>1, <1>2 DEF StepsAgree, TypeOK
<1>6. OwnEvent'
  <2>1. \A k \in Jobs : eventId[k] # lastId + 1
    BY DEF TypeOK
  <2>2. \A r \in wire : r.job # j
    BY <1>0 DEF OwnEvent, TypeOK
  <2>. QED
    BY <1>1, <2>1, <2>2 DEF OwnEvent, TypeOK
<1>7. ActedOnSeen'
  BY <1>0, <1>1, <1>2, <1>4 DEF ActedOnSeen, TypeOK
<1>8. DeadLetterIsLast'
  <2>1. \A k \in Jobs : step[k] = "done" => attempt'[k] = attempt[k]
    BY <1>0, <1>1 DEF TypeOK
  <2>2. \A k \in Jobs : eventId'[k] \in deadLetters <=> eventId[k] \in deadLetters
    BY <1>0, <1>1, <1>4 DEF TypeOK
  <2>. QED
    BY <1>2, <2>1, <2>2, NoVerdict
<1>. QED
  BY <1>3, <1>5, <1>6, <1>7, <1>8

\* The same event again.
LEMMA NextAttemptInv ==
    ASSUME DeliveryInv, NEW j \in Jobs, NextAttempt(j)
    PROVE  DeliveryInv'
<1>. USE MaxAttemptsPositive DEF DeliveryInv
<1>1. /\ step[j] = "backoff" /\ eventId[j] # 0 /\ attempt[j] < MaxAttempts
      /\ step' = [step EXCEPT ![j] = "sending"]
      /\ attempt' = [attempt EXCEPT ![j] = @ + 1]
      /\ wire' = wire \cup {[job |-> j, id |-> eventId[j], attempt |-> attempt[j] + 1]}
      /\ reply' = [reply EXCEPT ![j] = "none"]
  BY DEF NextAttempt, At, Send, Goto, StepsAgree
<1>2. UNCHANGED <<up, eventId, lastId, verdict, deadLetters, failures, seen, applied>>
  BY DEF NextAttempt
<1>3. TypeOK'
  <2>1. attempt[j] + 1 \in 1..MaxAttempts /\ eventId[j] \in 1..lastId
    BY <1>1 DEF TypeOK
  <2>. QED
    BY <1>1, <1>2, <2>1 DEF TypeOK
<1>4. StepsAgree'
  BY <1>1, <1>2 DEF StepsAgree, TypeOK
<1>5. OwnEvent'
  BY <1>1, <1>2 DEF OwnEvent, TypeOK
<1>6. ActedOnSeen'
  BY <1>1, <1>2 DEF ActedOnSeen, TypeOK
<1>7. DeadLetterIsLast'
  <2>1. \A k \in Jobs : step[k] = "done" => attempt'[k] = attempt[k]
    BY <1>1 DEF TypeOK
  <2>. QED
    BY <1>2, <2>1, NoVerdict
<1>. QED
  BY <1>3, <1>4, <1>5, <1>6, <1>7

\* A failed attempt: only the step changes, to backoff or to dead_letter.
LEMMA AfterErrorInv ==
    ASSUME DeliveryInv, NEW j \in Jobs, step[j] = "sending", AfterError(j),
           UNCHANGED <<up, attempt, eventId, lastId, verdict, deadLetters, failures,
                       wire, reply, seen, applied>>
    PROVE  DeliveryInv'
<1>. USE MaxAttemptsPositive DEF DeliveryInv
<1>1. step' = [step EXCEPT ![j] = IF attempt[j] < MaxAttempts THEN "backoff" ELSE "dead_letter"]
  BY DEF AfterError, Goto
<1>2. TypeOK'
  BY <1>1 DEF TypeOK
<1>3. StepsAgree'
  BY <1>1 DEF StepsAgree, TypeOK
<1>4. OwnEvent' /\ ActedOnSeen'
  BY DEF OwnEvent, ActedOnSeen
<1>5. DeadLetterIsLast'
  BY NoVerdict
<1>. QED
  BY <1>2, <1>3, <1>4, <1>5

\* A delivery ends with a result, after its last attempt when it is written
\* off, and with a dead letter when that could be written.
LEMMA ConcludeInv ==
    ASSUME DeliveryInv, NEW j \in Jobs,
           NEW v \in {"delivered", "failed", "dead_letter_failed"},
           v = "delivered" => step[j] = "sending",
           v # "delivered" => step[j] = "dead_letter",
           Conclude(j, v),
           deadLetters' = IF v = "failed" THEN deadLetters \cup {eventId[j]} ELSE deadLetters,
           UNCHANGED <<up, attempt, eventId, lastId, wire, reply, seen, applied>>
    PROVE  DeliveryInv'
<1>. USE DEF DeliveryInv
<1>1. /\ step' = [step EXCEPT ![j] = "done"]
      /\ verdict' = [verdict EXCEPT ![j] = v]
      /\ failures' = failures + IF v \in {"failed", "dead_letter_failed"} THEN 1 ELSE 0
  BY DEF Conclude, Goto
<1>2. verdict[j] = "none" /\ eventId[j] \in 1..lastId
  BY DEF StepsAgree, TypeOK
<1>3. TypeOK'
  <2>1. failures' \in Nat
    BY <1>1 DEF TypeOK
  <2>2. deadLetters' \subseteq 1..lastId
    BY <1>2 DEF TypeOK
  <2>3. verdict' \in [Jobs -> {"none", "delivered", "failed", "dead_letter_failed"}]
    BY <1>1 DEF TypeOK
  <2>. QED
    BY <1>1, <2>1, <2>2, <2>3 DEF TypeOK
<1>4. StepsAgree'
  BY <1>1 DEF StepsAgree, TypeOK
<1>5. OwnEvent' /\ ActedOnSeen'
  BY DEF OwnEvent, ActedOnSeen
<1>6. DeadLetterIsLast'
  <2>1. \A k \in Jobs : verdict'[k] \in {"failed", "dead_letter_failed"} =>
                          attempt'[k] = MaxAttempts
    BY <1>1 DEF StepsAgree, DeadLetterIsLast, TypeOK
  <2>2. \A k \in Jobs : eventId'[k] \in deadLetters' <=> verdict'[k] = "failed"
    BY <1>1, <1>2 DEF OwnEvent, DeadLetterIsLast, TypeOK
  <2>3. failures' = Cardinality(WrittenOff')
    <3>1. failures = Cardinality(WrittenOff) /\ j \notin WrittenOff
      BY <1>2 DEF DeadLetterIsLast, WrittenOff
    <3>2. CASE v = "delivered"
      <4>1. WrittenOff' = WrittenOff
        BY <1>1, <1>2, <3>2 DEF WrittenOff, TypeOK
      <4>. QED
        BY <1>1, <3>1, <3>2, <4>1, WrittenOffCount
    <3>3. CASE v # "delivered"
      <4>1. WrittenOff' = WrittenOff \cup {j}
        BY <1>1, <3>3 DEF WrittenOff, TypeOK
      <4>. QED
        BY <1>1, <3>1, <3>3, <4>1, WrittenOffGrows
    <3>. QED
      BY <3>2, <3>3
  <2>. QED
    BY <2>1, <2>2, <2>3 DEF DeadLetterIsLast, WrittenOff
<1>. QED
  BY <1>3, <1>4, <1>5, <1>6

\* The receiver reads a request: it acts if the event is new to it.
LEMMA ReceiveInv ==
    ASSUME DeliveryInv, NEW r \in wire, NEW status \in {"2xx", "other", "none"},
           Receive(r, status)
    PROVE  DeliveryInv'
<1>. USE DEF DeliveryInv
<1>1. r.job \in Jobs /\ r.id = eventId[r.job] /\ r.id \in 1..lastId
  BY DEF OwnEvent, TypeOK
<1>2. /\ wire' = wire \ {r}
      /\ seen' = seen \cup {r.id}
      /\ applied' = [applied EXCEPT ![r.job] = @ + IF r.id \in seen THEN 0 ELSE 1]
      /\ reply' = reply \/ reply' = [reply EXCEPT ![r.job] = status]
      /\ UNCHANGED <<up, step, attempt, eventId, lastId, verdict, deadLetters, failures>>
  BY DEF Receive, clientVars
<1>3. TypeOK'
  <2>1. applied[r.job] + (IF r.id \in seen THEN 0 ELSE 1) \in Nat
    BY <1>1 DEF TypeOK
  <2>2. applied' \in [Jobs -> Nat] /\ seen' \subseteq 1..lastId
    BY <1>1, <1>2, <2>1 DEF TypeOK
  <2>3. reply' \in [Jobs -> {"none", "2xx", "other"}]
    BY <1>2 DEF TypeOK
  <2>. QED
    BY <1>2, <2>2, <2>3 DEF TypeOK
<1>4. StepsAgree' /\ OwnEvent'
  BY <1>2 DEF StepsAgree, OwnEvent
<1>5. ActedOnSeen'
  <2>. SUFFICES ASSUME NEW k \in Jobs
                PROVE  /\ applied'[k] = IF eventId[k] \in seen' THEN 1 ELSE 0
                       /\ reply'[k] = "2xx" => eventId[k] \in seen'
    BY <1>2 DEF ActedOnSeen
  <2>1. CASE k = r.job
    BY <1>1, <1>2, <2>1 DEF ActedOnSeen, TypeOK
  <2>2. CASE k # r.job
    <3>1. eventId[k] # r.id
      BY <1>1, <2>2 DEF OwnEvent
    <3>. QED
      BY <1>1, <1>2, <2>2, <3>1 DEF ActedOnSeen, TypeOK
  <2>. QED
    BY <2>1, <2>2
<1>6. DeadLetterIsLast'
  BY <1>2, NoVerdict
<1>. QED
  BY <1>3, <1>4, <1>5, <1>6

\* A request is refused or lost.
LEMMA UnreadInv ==
    ASSUME DeliveryInv, NEW r \in wire, wire' = wire \ {r},
           reply' = reply \/ reply' = [reply EXCEPT ![r.job] = "other"],
           UNCHANGED <<clientVars, seen, applied>>
    PROVE  DeliveryInv'
<1>. USE DEF DeliveryInv, clientVars
<1>1. TypeOK'
  BY DEF TypeOK
<1>2. StepsAgree' /\ OwnEvent'
  BY DEF StepsAgree, OwnEvent
<1>3. ActedOnSeen'
  BY DEF ActedOnSeen, TypeOK
<1>4. DeadLetterIsLast'
  BY NoVerdict
<1>. QED
  BY <1>1, <1>2, <1>3, <1>4

-----------------------------------------------------------------------------

\* Every step of a delivery, the network or the receiver keeps the invariant.
LEMMA DeliveryStepInv == DeliveryInv /\ [Next]_vars => DeliveryInv'
<1>. SUFFICES ASSUME DeliveryInv, [Next]_vars PROVE DeliveryInv'
  OBVIOUS
<1>1. ASSUME NEW j \in Jobs, FirstAttempt(j) \/ NextAttempt(j) PROVE DeliveryInv'
  BY <1>1, FirstAttemptInv, NextAttemptInv
<1>2. ASSUME NEW j \in Jobs, Rejected(j) \/ ConnectionBreaks(j) \/ AttemptTimesOut(j)
      PROVE  DeliveryInv'
  BY <1>2, AfterErrorInv DEF Rejected, ConnectionBreaks, AttemptTimesOut, At
<1>3. ASSUME NEW j \in Jobs, Delivered(j) PROVE DeliveryInv'
  BY <1>3, ConcludeInv DEF Delivered, At
<1>4. ASSUME NEW j \in Jobs, Bury(j) PROVE DeliveryInv'
  BY <1>4, ConcludeInv DEF Bury, At
<1>5. ASSUME NEW j \in Jobs, BuryFails(j) PROVE DeliveryInv'
  BY <1>5, ConcludeInv DEF BuryFails, At
<1>6. ASSUME NEW r \in wire, NEW status \in {"2xx", "other", "none"}, Receive(r, status)
      PROVE  DeliveryInv'
  BY <1>6, ReceiveInv
<1>7. ASSUME NEW r \in wire, Refuse(r) PROVE DeliveryInv'
  BY <1>7, UnreadInv DEF Refuse
<1>8. ASSUME NEW r \in wire, Lose(r) PROVE DeliveryInv'
  BY <1>8, UnreadInv DEF Lose
<1>9. CASE Stop
  BY <1>9 DEF Stop, DeliveryInv, TypeOK, StepsAgree, OwnEvent, ActedOnSeen, DeadLetterIsLast
<1>10. CASE UNCHANGED vars
  BY <1>10 DEF vars, clientVars, DeliveryInv, TypeOK, StepsAgree, OwnEvent, ActedOnSeen,
               DeadLetterIsLast
<1>. QED
  BY <1>1, <1>2, <1>3, <1>4, <1>5, <1>6, <1>7, <1>8, <1>9, <1>10
     DEF Next, Deliver, Receiver

\* The invariant holds in every state.
LEMMA DeliveryInvariance == Spec => []DeliveryInv
  BY DeliveryInitInv, DeliveryStepInv, PTL DEF Spec

\* What deliver_once, the dead-letter file and the receiver keep stays in its
\* types through any faults of the network.
THEOREM DeliveryTypeCorrect == Spec => []TypeOK
<1>1. DeliveryInv => TypeOK
  BY DEF DeliveryInv
<1>. QED
  BY <1>1, DeliveryInvariance, PTL

\* A receiver that treats the event id as an idempotency key acts once on a
\* job, however many attempts deliver makes and whatever the network does.
THEOREM AppliedOnceCorrect == Spec => []AppliedOnce
<1>1. DeliveryInv => AppliedOnce
  BY DEF DeliveryInv, ActedOnSeen, AppliedOnce
<1>. QED
  BY <1>1, DeliveryInvariance, PTL

\* Events are written off after the last configured attempt and no sooner, and
\* dead letters and metric agree with the results of deliver.
THEOREM DeadLetterIsLastCorrect == Spec => []DeadLetterIsLast
<1>1. DeliveryInv => DeadLetterIsLast
  BY DEF DeliveryInv
<1>. QED
  BY <1>1, DeliveryInvariance, PTL

-----------------------------------------------------------------------------
(* The refinement of Announcement.                                          *)

\* A step that ends no delivery and begins none leaves every fate alone.
LEMMA SameFates ==
    ASSUME UNCHANGED <<verdict, applied>>,
           \A j \in Jobs : step[j] = "finished" <=> step'[j] = "finished"
    PROVE  UNCHANGED <<[j \in Jobs |-> FateOf(j)], applied>>
<1>1. \A j \in Jobs : FateOf(j)' = FateOf(j)
  BY DEF FateOf
<1>. QED
  BY <1>1

\* No announcement has an outcome before the first delivery.
LEMMA DeliveryInitRefines == Init => Promise!Init
  BY DEF Init, Promise!Init, FateOf

\* The first attempt begins the announcement, a result settles it, and the
\* receiver acts when it reads the event for the first time.
LEMMA DeliveryStepRefines ==
    DeliveryInv /\ [Next]_vars => [Promise!Next]_(Promise!vars)
<1>. SUFFICES ASSUME DeliveryInv, [Next]_vars
              PROVE  Promise!Next \/ UNCHANGED <<[j \in Jobs |-> FateOf(j)], applied>>
  BY DEF Promise!vars
<1>. USE DEF DeliveryInv
<1>1. ASSUME NEW j \in Jobs, FirstAttempt(j) PROVE Promise!Begin(j)
  <2>1. /\ step[j] = "finished" /\ verdict[j] = "none"
        /\ step' = [step EXCEPT ![j] = "sending"]
        /\ UNCHANGED <<verdict, applied>>
    BY <1>1 DEF FirstAttempt, At, Send, Goto, StepsAgree
  <2>2. FateOf(j) = "due" /\ FateOf(j)' = "begun"
    BY <2>1 DEF FateOf, TypeOK
  <2>3. \A k \in Jobs \ {j} : FateOf(k)' = FateOf(k)
    BY <2>1 DEF FateOf, TypeOK
  <2>. QED
    BY <2>1, <2>2, <2>3 DEF Promise!Begin
<1>2. ASSUME NEW j \in Jobs,
             NextAttempt(j) \/ Rejected(j) \/ ConnectionBreaks(j) \/ AttemptTimesOut(j)
      PROVE  UNCHANGED <<[k \in Jobs |-> FateOf(k)], applied>>
  <2>1. step[j] # "finished" /\ UNCHANGED <<verdict, applied>>
    BY <1>2 DEF NextAttempt, Rejected, ConnectionBreaks, AttemptTimesOut, At
  <2>2. PICK s \in {"sending", "backoff", "dead_letter"} : step' = [step EXCEPT ![j] = s]
    BY <1>2 DEF NextAttempt, Rejected, ConnectionBreaks, AttemptTimesOut, AfterError, Send, Goto
  <2>. QED
    BY <2>1, <2>2, SameFates DEF TypeOK
<1>3. ASSUME NEW j \in Jobs, Delivered(j) \/ Bury(j) \/ BuryFails(j)
      PROVE  Promise!Settle(j)
  <2>1. PICK v \in {"delivered", "failed", "dead_letter_failed"} :
          verdict' = [verdict EXCEPT ![j] = v] /\ (v = "delivered" => reply[j] = "2xx")
    BY <1>3 DEF Delivered, Bury, BuryFails, Conclude
  <2>2. /\ step[j] \in {"sending", "dead_letter"} /\ verdict[j] = "none"
        /\ step' = [step EXCEPT ![j] = "done"]
        /\ UNCHANGED applied
    BY <1>3 DEF Delivered, Bury, BuryFails, Conclude, Goto, At, StepsAgree
  <2>. DEFINE f == CASE v = "delivered" -> "delivered"
                     [] v = "failed" -> "dead_letter"
                     [] OTHER -> "logged"
  <2>3. f \in Promise!Settled /\ (f = "delivered" => applied[j] = 1)
    BY <2>1 DEF Promise!Settled, ActedOnSeen
  <2>4. FateOf(j) = "begun" /\ FateOf(j)' = f
    BY <2>1, <2>2 DEF FateOf, TypeOK
  <2>5. \A k \in Jobs \ {j} : FateOf(k)' = FateOf(k)
    BY <2>1, <2>2 DEF FateOf, TypeOK
  <2>. HIDE DEF f
  <2>. QED
    BY <2>2, <2>3, <2>4, <2>5 DEF Promise!Settle
<1>4. ASSUME NEW r \in wire, NEW status \in {"2xx", "other", "none"}, Receive(r, status)
      PROVE  Promise!Next \/ UNCHANGED <<[j \in Jobs |-> FateOf(j)], applied>>
  <2>1. /\ UNCHANGED <<verdict, step>>
        /\ applied' = [applied EXCEPT ![r.job] = @ + IF r.id \in seen THEN 0 ELSE 1]
    BY <1>4 DEF Receive, clientVars
  <2>2. r.job \in Jobs /\ r.id = eventId[r.job] /\ eventId[r.job] # 0
    BY DEF OwnEvent, TypeOK
  <2>3. \A k \in Jobs : FateOf(k)' = FateOf(k)
    BY <2>1 DEF FateOf
  <2>4. CASE r.id \in seen
    BY <2>1, <2>2, <2>3, <2>4 DEF TypeOK
  <2>5. CASE r.id \notin seen
    <3>0. applied[r.job] = 0
      BY <2>2, <2>5 DEF ActedOnSeen
    <3>1. applied' = [applied EXCEPT ![r.job] = 1]
      BY <2>1, <2>2, <2>5, <3>0
    <3>2. FateOf(r.job) # "due"
      <4>1. step[r.job] # "finished"
        BY <2>2 DEF StepsAgree
      <4>2. verdict[r.job] \in {"none", "delivered", "failed", "dead_letter_failed"}
        BY <2>2 DEF TypeOK
      <4>. QED
        BY <4>1, <4>2 DEF FateOf
    <3>. QED
      BY <2>2, <2>3, <3>0, <3>1, <3>2 DEF Promise!Act, Promise!Next
  <2>. QED
    BY <2>4, <2>5
<1>5. ASSUME NEW r \in wire, Refuse(r) \/ Lose(r)
      PROVE  UNCHANGED <<[j \in Jobs |-> FateOf(j)], applied>>
  BY <1>5, SameFates DEF Refuse, Lose, clientVars
<1>6. CASE Stop
  BY <1>6, SameFates DEF Stop
<1>7. CASE UNCHANGED vars
  BY <1>7, SameFates DEF vars, clientVars
<1>. QED
  BY <1>1, <1>2, <1>3, <1>4, <1>5, <1>6, <1>7 DEF Next, Deliver, Receiver, Promise!Next

\* Attempts, retries, late requests and lost answers implement one
\* announcement per job: send_webhook keeps what Announcement promises.
THEOREM DeliveryImplementsAnnouncement == Spec => ImplementsAnnouncement
  BY DeliveryInitRefines, DeliveryInvariance, DeliveryStepRefines, PTL
     DEF Spec, ImplementsAnnouncement, Promise!Spec

=============================================================================
