----------------------- MODULE ClaimProcessingProofs -----------------------
(***************************************************************************)
(* Safety of ClaimProcessing for any number of claims, workers, operators, *)
(* watchdogs, tokens and faults.                                           *)
(***************************************************************************)
EXTENDS ClaimProcessing, TLAPS

-----------------------------------------------------------------------------
(* Types.                                                                  *)

LEMMA FreshTokenIsFresh ==
    ASSUME Token \ issued # {}
    PROVE  FreshToken \in Token /\ FreshToken \notin issued
BY DEF FreshToken

\* What the steps of a task do to the task itself.
LEMMA TaskTypes ==
    ASSUME TypeOK, NEW t \in tasks
    PROVE  /\ t.msg \in Message /\ t.msg.job \in Job /\ t.msg.job.claim \in Claim
           /\ t.msg.job.attempt \in Nat
           /\ \A pc \in Pc : GoTo(t, pc) => tasks' \subseteq Task
           /\ \A b \in BOOLEAN : Throw(t, b) => tasks' \subseteq Task
           /\ Finish(t) => tasks' \subseteq Task
<1>1. t \in Task /\ tasks \subseteq Task
  BY DEF TypeOK
<1>2. t.msg \in Message /\ t.msg.job \in Job /\ t.msg.job.claim \in Claim
      /\ t.msg.job.attempt \in Nat
  BY <1>1 DEF Task, Message, Job
<1>3. \A pc \in Pc : [t EXCEPT !.pc = pc] \in Task
  BY <1>1 DEF Task
<1>4. \A b \in BOOLEAN : [t EXCEPT !.pc = "failing", !.retryable = b] \in Task
  BY <1>1 DEF Task, Pc
<1> QED
  BY <1>1, <1>2, <1>3, <1>4 DEF GoTo, Throw, Finish

LEMMA UpdateTypes ==
    ASSUME TypeOK, NEW c \in Claim, NEW row \in Row, Update(c, row)
    PROVE  claim' \in [Claim -> Row] /\ staleFor' \in [Claim -> SUBSET Actor]
BY DEF TypeOK, Update

LEMMA RecordTypes ==
    ASSUME TypeOK, NEW c \in Claim, NEW from \in Status, NEW to \in Status, NEW n \in Nat,
           RecordTransition(c, from, to, n)
    PROVE  events' \in [Claim -> Seq(Event)]
<1>1. events[c] \in Seq(Event)
  BY DEF TypeOK
<1>2. [from |-> from, to |-> to, attempt |-> n] \in Event
  BY <1>1 DEF Event
<1> QED
  BY <1>1, <1>2 DEF TypeOK, RecordTransition

LEMMA FaultTypes == ASSUME TypeOK, NEW k, Fault(k) PROVE faults' \in Nat
BY DEF TypeOK, Fault

LEMMA RequestTypes ==
    ASSUME TypeOK, Next, NEW r \in requests
    PROVE  r \in Request /\ r.by \in Actor /\ r.claim \in Claim /\ r.attempt \in Nat
BY DEF TypeOK, Request

LEMMA InitTypeOK == Init => TypeOK
BY TokenAssumption DEF Init, TypeOK, Row, Status, Failure

\* Web requests, watchdog, outbox and queue.
LEMMA RequestStepTypes ==
    ASSUME TypeOK,
           \/ \E a \in Actor, c \in Claim :
                 ReadForEnqueue(a, c) \/ ReadForRetry(a, c) \/ ReadForRecovery(a, c)
           \/ \E r \in requests : StartAttempt(r) \/ LoseRace(r) \/ AbandonRequest(r)
    PROVE  TypeOK'
<1>1. ASSUME NEW a \in Actor, NEW c \in Claim, NEW op \in {"enqueue", "retry", "recover"},
             BeginRequest(a, op, c),
             UNCHANGED staleFor \/ staleFor' = [staleFor EXCEPT ![c] = @ \cup {a}]
      PROVE  TypeOK'
  <2>1. claim[c].attempt \in Nat
    BY DEF TypeOK, Row
  <2>2. requests' \subseteq Request
    BY <1>1, <2>1 DEF BeginRequest, Request, TypeOK
  <2>3. staleFor' \in [Claim -> SUBSET Actor]
    BY <1>1 DEF TypeOK
  <2> QED
    BY <1>1, <2>2, <2>3 DEF TypeOK, BeginRequest, sqs
<1>2. ASSUME NEW r \in requests, StartAttempt(r)
      PROVE  TypeOK'
  <2> DEFINE c == r.claim
             n == r.attempt + 1
             row == [claim[c] EXCEPT !.status = "PROCESSING", !.attempt = n,
                                     !.token = FreshToken, !.leased = FALSE]
  <2>1. c \in Claim /\ n \in Nat /\ FreshToken \in Token
    <3>1. Token \ issued # {}
      BY <1>2 DEF StartAttempt
    <3> QED
      BY <3>1, FreshTokenIsFresh DEF TypeOK, Request
  <2>2. row \in Row /\ NewJob(c, n) \in Job
    <3>1. claim[c] \in Row
      BY <2>1 DEF TypeOK
    <3>2. ASSUME NEW k \in Nat PROVE NewJob(c, k) \in Job
      BY <2>1 DEF NewJob, Job
    <3> HIDE DEF n, c
    <3>3. row \in Row
      BY <2>1, <3>1 DEF Row, Status
    <3> QED
      BY <2>1, <3>2, <3>3
  <2>3. Update(c, row) /\ RecordTransition(c, FromStatus(r), "PROCESSING", n)
    BY <1>2 DEF StartAttempt
  <2>4. claim' \in [Claim -> Row] /\ staleFor' \in [Claim -> SUBSET Actor]
    BY <2>1, <2>2, <2>3, UpdateTypes
  <2>5. events' \in [Claim -> Seq(Event)]
    <3>1. FromStatus(r) \in Status /\ "PROCESSING" \in Status
      BY DEF TypeOK, Request, FromStatus, Status, Outcome
    <3> HIDE DEF c, n
    <3> QED
      BY <2>1, <2>3, <3>1, RecordTypes
  <2>6. outbox' \subseteq Job /\ issued' \subseteq Token /\ requests' \subseteq Request
    BY <1>2, <2>1, <2>2 DEF TypeOK, StartAttempt
  <2> QED
    BY <1>2, <2>4, <2>5, <2>6 DEF TypeOK, StartAttempt, sqs
<1>3. ASSUME NEW r \in requests, LoseRace(r) \/ AbandonRequest(r)
      PROVE  TypeOK'
  BY <1>3, FaultTypes DEF TypeOK, LoseRace, AbandonRequest, sqs, db
<1> QED
  BY <1>1, <1>2, <1>3 DEF ReadForEnqueue, ReadForRetry, ReadForRecovery

LEMMA QueueStepTypes ==
    ASSUME TypeOK,
           \/ \E j \in outbox : Dispatch(j)
           \/ \E m \in inFlight : VisibilityTimeout(m)
           \/ \E w \in Worker, m \in queue : Receive(w, m)
    PROVE  TypeOK'
<1>1. ASSUME NEW j \in outbox, Dispatch(j)
      PROVE  TypeOK'
  <2>1. [id |-> sent + 1, job |-> j, receives |-> 0] \in Message
    BY DEF TypeOK, Message
  <2>2. faults' \in Nat
    BY <1>1, FaultTypes DEF Dispatch, TypeOK
  <2> QED
    BY <1>1, <2>1, <2>2 DEF TypeOK, Dispatch, db
<1>2. ASSUME NEW m \in inFlight, VisibilityTimeout(m)
      PROVE  TypeOK'
  <2>1. faults' \in Nat
    BY <1>2, FaultTypes DEF VisibilityTimeout, TypeOK
  <2> QED
    BY <1>2, <2>1 DEF TypeOK, VisibilityTimeout, db
<1>3. ASSUME NEW w \in Worker, NEW m \in queue, Receive(w, m)
      PROVE  TypeOK'
  <2> DEFINE received == [m EXCEPT !.receives = IF @ < MaxReceiveCount THEN @ + 1 ELSE @]
  <2>1. received \in Message
    BY ConfigAssumption DEF TypeOK, Message
  <2>2. [worker |-> w, msg |-> received, pc |-> "reading", retryable |-> TRUE] \in Task
    BY <2>1 DEF Task, Pc
  <2>3. inFlight' \subseteq Message /\ tasks' \subseteq Task /\ queue' \subseteq Message
    BY <1>3, <2>1, <2>2 DEF Receive, TypeOK
  <2> QED
    BY <1>3, <2>3 DEF TypeOK, Receive, db
<1> QED
  BY <1>1, <1>2, <1>3

\* The two updates of a claim by a worker that keep its types.
LEMMA WorkerRowTypes ==
    ASSUME TypeOK, NEW c \in Claim, NEW s \in Status, NEW f \in Failure, NEW b \in BOOLEAN
    PROVE  Settled(claim[c], s, f) \in Row /\ [claim[c] EXCEPT !.leased = b] \in Row
BY DEF TypeOK, Row, Settled

LEMMA TaskStepTypes ==
    ASSUME TypeOK, NEW t \in tasks, TaskStep(t) \/ TaskFault(t)
    PROVE  TypeOK'
<1> USE TaskTypes
<1> DEFINE c == t.msg.job.claim
<1>1. CASE ReadClaim(t)
  BY <1>1 DEF TypeOK, ReadClaim, Pc, db, sqs
<1>2. CASE ClaimLease(t)
  <2>1. [claim[c] EXCEPT !.leased = TRUE] \in Row
    BY WorkerRowTypes DEF TypeOK, Row
  <2>2. claim' \in [Claim -> Row] /\ staleFor' \in [Claim -> SUBSET Actor]
    BY <1>2, <2>1, UpdateTypes DEF ClaimLease, TypeOK
  <2>3. tasks' \subseteq Task /\ faults' \in Nat
    BY <1>2, FaultTypes DEF ClaimLease, Answer, TypeOK, Pc
  <2> QED
    BY <1>2, <2>2, <2>3 DEF TypeOK, ClaimLease, sqs
<1>3. CASE PersistOutcome(t)
  <2>1. claim' \in [Claim -> Row] /\ staleFor' \in [Claim -> SUBSET Actor]
        /\ events' \in [Claim -> Seq(Event)]
    <3>1. CASE UNCHANGED db
      BY <3>1 DEF TypeOK, db
    <3>2. ASSUME NEW s \in {"READY", "REVIEW_REQUIRED"},
                 Update(c, Settled(claim[c], s, claim[c].failure)),
                 RecordTransition(c, "PROCESSING", s, t.msg.job.attempt)
          PROVE  /\ claim' \in [Claim -> Row] /\ staleFor' \in [Claim -> SUBSET Actor]
                 /\ events' \in [Claim -> Seq(Event)]
      <4>1. s \in Status /\ "PROCESSING" \in Status /\ claim[c].failure \in Failure
        BY DEF Status, Outcome, TypeOK, Row
      <4>2. Settled(claim[c], s, claim[c].failure) \in Row
        BY <4>1, WorkerRowTypes
      <4> QED
        BY <3>2, <4>1, <4>2, UpdateTypes, RecordTypes
    <3> QED
      BY <1>3, <3>1, <3>2 DEF PersistOutcome
  <2>2. tasks' \subseteq Task /\ faults' \in Nat
    BY <1>3, FaultTypes DEF PersistOutcome, Answer, TypeOK, Pc
  <2> QED
    BY <1>3, <2>1, <2>2 DEF TypeOK, PersistOutcome, sqs
<1>4. CASE ExtractionFails(t) \/ DatabaseError(t) \/ WorkerDies(t) \/ RetryLater(t)
          \/ DlqPublishFails(t)
  <2>1. tasks' \subseteq Task
    BY <1>4 DEF ExtractionFails, DatabaseError, WorkerDies, RetryLater, DlqPublishFails, ReleaseLease
  <2>2. faults' \in Nat
    BY <1>4, FaultTypes DEF ExtractionFails, DatabaseError, WorkerDies, RetryLater,
                            DlqPublishFails, TypeOK
  <2>3. claim' \in [Claim -> Row] /\ staleFor' \in [Claim -> SUBSET Actor]
        /\ events' \in [Claim -> Seq(Event)]
    <3>1. CASE ReleaseLease(t)
      <4>1. [claim[c] EXCEPT !.leased = FALSE] \in Row
        BY WorkerRowTypes DEF TypeOK, Row
      <4> QED
        BY <3>1, <4>1, UpdateTypes DEF ReleaseLease, TypeOK
    <3> QED
      BY <1>4, <3>1 DEF ExtractionFails, DatabaseError, WorkerDies, RetryLater,
                        DlqPublishFails, TypeOK, db
  <2>4. requests' = requests /\ issued' = issued /\ outbox' = outbox
        /\ sent' = sent /\ queue' = queue /\ inFlight' = inFlight
        /\ (dlq' = dlq \/ dlq' = dlq \cup {t.msg})
    BY <1>4 DEF ExtractionFails, DatabaseError, WorkerDies, RetryLater,
                DlqPublishFails, ReleaseLease, sqs
  <2> QED
    BY <2>1, <2>2, <2>3, <2>4 DEF TypeOK
<1>5. CASE MarkClaimAsError(t)
  <2>1. claim' \in [Claim -> Row] /\ staleFor' \in [Claim -> SUBSET Actor]
        /\ events' \in [Claim -> Seq(Event)]
    <3>1. CASE UNCHANGED db
      BY <3>1 DEF TypeOK, db
    <3>2. CASE Current(t.msg.job)
      <4> DEFINE f == IF t.retryable THEN "retryable" ELSE "fatal"
      <4>1. "ERROR" \in Status /\ "PROCESSING" \in Status /\ f \in Failure
        BY DEF Status, Outcome, Failure
      <4>2. Settled(claim[c], "ERROR", f) \in Row
        BY <4>1, WorkerRowTypes
      <4>3. Update(c, Settled(claim[c], "ERROR", f)) /\ RecordTransition(c, "PROCESSING", "ERROR", t.msg.job.attempt)
        BY <1>5, <3>2 DEF MarkClaimAsError
      <4> HIDE DEF f
      <4> QED
        BY <4>1, <4>2, <4>3, UpdateTypes, RecordTypes
    <3> QED
      BY <1>5, <3>1, <3>2 DEF MarkClaimAsError
  <2>2. tasks' \subseteq Task
    BY <1>5 DEF MarkClaimAsError, Pc
  <2> QED
    BY <1>5, <2>1, <2>2 DEF TypeOK, MarkClaimAsError, sqs
<1>6. CASE MoveToDlq(t)
  BY <1>6 DEF TypeOK, MoveToDlq, Pc, db
<1>7. CASE DeleteMessage(t) \/ DropMessage(t)
  BY <1>7 DEF TypeOK, DeleteMessage, DropMessage, DeleteFromQueue, db
<1>8. CASE DeleteMessageFails(t)
  <2>1. faults' \in Nat
    BY <1>8, FaultTypes DEF DeleteMessageFails
  <2> QED
    BY <1>8, <2>1 DEF TypeOK, DeleteMessageFails, DeleteFromQueue, db
<1> QED
  BY <1>1, <1>2, <1>3, <1>4, <1>5, <1>6, <1>7, <1>8 DEF TaskStep, TaskFault

LEMMA NextTypeOK == TypeOK /\ [Next]_vars => TypeOK'
<1> SUFFICES ASSUME TypeOK, [Next]_vars PROVE TypeOK'
  OBVIOUS
<1>1. CASE Next
  BY <1>1, RequestStepTypes, QueueStepTypes, TaskStepTypes DEF Next, Actor
<1>2. CASE UNCHANGED vars
  BY <1>2 DEF TypeOK, vars, db, sqs
<1> QED
  BY <1>1, <1>2

\* Every behaviour of the pipeline stays within the types of the schema.
THEOREM ProcessingTypeOK == Spec => []TypeOK
BY InitTypeOK, NextTypeOK, PTL DEF Spec
-----------------------------------------------------------------------------
(* The ways in which a step can change a claim.                            *)

Unclaimed == UNCHANGED <<claim, events, issued>>

\* A worker takes or gives back the lease of its current attempt.
Leases(t, b) ==
    /\ Current(t.msg.job)
    /\ Update(t.msg.job.claim, [claim[t.msg.job.claim] EXCEPT !.leased = b])
    /\ UNCHANGED <<events, issued>>

\* A worker settles its current attempt.
Settles(t, s, f) ==
    /\ Current(t.msg.job)
    /\ Update(t.msg.job.claim, Settled(claim[t.msg.job.claim], s, f))
    /\ RecordTransition(t.msg.job.claim, "PROCESSING", s, t.msg.job.attempt)
    /\ UNCHANGED issued
    /\ \/ s \in {"READY", "REVIEW_REQUIRED"} /\ f = claim[t.msg.job.claim].failure
       \/ /\ s = "ERROR" /\ f = (IF t.retryable THEN "retryable" ELSE "fatal")
          /\ ReadyToMark(t)

\* A task step changes no other task, and only a claim whose attempt is its own.
TaskKind(t) ==
    /\ tasks \ {t} \subseteq tasks'
    /\ \/ Unclaimed
       \/ \E b \in BOOLEAN : Leases(t, b)
       \/ \E s \in Outcome, f \in Failure : Settles(t, s, f)

LEMMA TaskKinds ==
    ASSUME TypeOK, NEW t \in tasks, TaskStep(t) \/ TaskFault(t)
    PROVE  TaskKind(t) /\ UNCHANGED requests /\ UNCHANGED outbox
<1> DEFINE c == t.msg.job.claim
<1>1. UNCHANGED requests /\ UNCHANGED outbox
  BY DEF TaskStep, TaskFault, ReadClaim, ClaimLease, PersistOutcome, ExtractionFails,
         DeleteMessage, MoveToDlq, MarkClaimAsError, DropMessage, RetryLater, DatabaseError,
         DeleteMessageFails, DlqPublishFails, WorkerDies, ReleaseLease
<1>2. tasks \ {t} \subseteq tasks'
  <2>1. /\ \A pc : GoTo(t, pc) => tasks \ {t} \subseteq tasks'
        /\ \A b : Throw(t, b) => tasks \ {t} \subseteq tasks'
        /\ Finish(t) => tasks \ {t} \subseteq tasks'
    BY DEF GoTo, Throw, Finish
  <2> QED
    BY <2>1 DEF TaskStep, TaskFault, ReadClaim, ClaimLease, PersistOutcome, ExtractionFails,
         DeleteMessage, MoveToDlq, MarkClaimAsError, DropMessage, RetryLater, DatabaseError,
         DeleteMessageFails, DlqPublishFails, WorkerDies, ReleaseLease, Answer
<1>3. CASE ClaimLease(t) \/ RetryLater(t) \/ DlqPublishFails(t)
  <2>1. Unclaimed \/ \E b \in BOOLEAN : Leases(t, b)
    BY <1>3 DEF ClaimLease, RetryLater, DlqPublishFails, ReleaseLease, LeaseFree, Leases, Unclaimed
  <2> QED
    BY <1>1, <1>2, <2>1 DEF TaskKind
<1>4. CASE PersistOutcome(t)
  <2>1. claim[c].failure \in Failure
    BY TaskTypes DEF TypeOK, Row
  <2>2. Unclaimed \/ \E s \in Outcome, f \in Failure : Settles(t, s, f)
    BY <1>4, <2>1 DEF PersistOutcome, Settles, Unclaimed, Outcome, db
  <2> QED
    BY <1>1, <1>2, <2>2 DEF TaskKind
<1>5. CASE MarkClaimAsError(t)
  <2> DEFINE g == IF t.retryable THEN "retryable" ELSE "fatal"
  <2>1. g \in Failure /\ "ERROR" \in Outcome
    BY DEF Failure, Outcome
  <2>2. Unclaimed \/ Settles(t, "ERROR", g)
    BY <1>5 DEF MarkClaimAsError, Settles, Unclaimed, db
  <2> QED
    BY <1>1, <1>2, <2>1, <2>2 DEF TaskKind
<1>6. CASE ReadClaim(t) \/ ExtractionFails(t) \/ DeleteMessage(t) \/ MoveToDlq(t)
          \/ DropMessage(t) \/ DatabaseError(t) \/ DeleteMessageFails(t) \/ WorkerDies(t)
  <2>1. Unclaimed
    BY <1>6 DEF ReadClaim, ExtractionFails, DeleteMessage, MoveToDlq, DropMessage, DatabaseError,
                DeleteMessageFails, WorkerDies, Unclaimed, db
  <2> QED
    BY <1>1, <1>2, <2>1 DEF TaskKind
<1> QED
  BY <1>3, <1>4, <1>5, <1>6 DEF TaskStep, TaskFault

LEMMA StepKinds ==
    ASSUME TypeOK, Next
    PROVE  \/ Unclaimed /\ tasks \subseteq tasks'
           \/ \E r \in requests : StartAttempt(r)
           \/ \E t \in tasks : TaskKind(t) /\ UNCHANGED requests
BY TaskKinds DEF Next, Unclaimed, ReadForEnqueue, ReadForRetry, ReadForRecovery, BeginRequest,
   LoseRace, AbandonRequest, Dispatch, VisibilityTimeout, Receive, db

\* The message bodies after a step are those before it, or that of a new attempt.
LEMMA JobsStep ==
    ASSUME TypeOK, Next, NEW j \in Jobs'
    PROVE  \/ j \in Jobs
           \/ \E r \in requests : StartAttempt(r) /\ j = NewJob(r.claim, r.attempt + 1)
<1> DEFINE Bodies(b, q, i, d, ts) == b \cup {m.job : m \in q \cup i \cup d} \cup {t.msg.job : t \in ts}
<1>1. Jobs = Bodies(outbox, queue, inFlight, dlq, tasks)
  BY DEF Jobs
<1>2. Jobs' = Bodies(outbox', queue', inFlight', dlq', tasks')
  BY DEF Jobs
<1>3. CASE \E a \in Actor, c \in Claim :
              ReadForEnqueue(a, c) \/ ReadForRetry(a, c) \/ ReadForRecovery(a, c)
  BY <1>1, <1>2, <1>3 DEF ReadForEnqueue, ReadForRetry, ReadForRecovery, BeginRequest, sqs
<1>4. CASE \E r \in requests : LoseRace(r) \/ AbandonRequest(r)
  BY <1>1, <1>2, <1>4 DEF LoseRace, AbandonRequest, sqs
<1>5. ASSUME NEW r \in requests, StartAttempt(r)
      PROVE  j \in Jobs \/ j = NewJob(r.claim, r.attempt + 1)
  <2>1. /\ outbox' = outbox \cup {NewJob(r.claim, r.attempt + 1)}
        /\ queue' = queue /\ inFlight' = inFlight /\ dlq' = dlq /\ tasks' = tasks
    BY <1>5 DEF StartAttempt, sqs
  <2> QED
    BY <1>1, <1>2, <2>1
<1>6. CASE \E k \in outbox : Dispatch(k)
  <2>1. PICK k \in outbox : Dispatch(k)
    BY <1>6
  <2>2. /\ outbox' \subseteq outbox /\ inFlight' = inFlight /\ dlq' = dlq /\ tasks' = tasks
        /\ \A m \in queue' : m \in queue \/ m.job = k
    BY <2>1 DEF Dispatch
  <2> QED
    BY <1>1, <1>2, <2>2
<1>7. CASE \E m \in inFlight : VisibilityTimeout(m)
  BY <1>1, <1>2, <1>7 DEF VisibilityTimeout
<1>8. CASE \E w \in Worker, m \in queue : Receive(w, m)
  <2>1. PICK w \in Worker, m \in queue : Receive(w, m)
    BY <1>8
  <2>2. m \in Message
    BY DEF TypeOK
  <2> DEFINE received == [m EXCEPT !.receives = IF @ < MaxReceiveCount THEN @ + 1 ELSE @]
  <2>3. received.job = m.job
    BY <2>2 DEF Message
  <2>4. /\ outbox' = outbox /\ queue' \subseteq queue /\ dlq' = dlq
        /\ inFlight' = inFlight \cup {received}
        /\ \A t \in tasks' : t \in tasks \/ t.msg = received
    BY <2>1 DEF Receive
  <2> HIDE DEF received
  <2> QED
    BY <1>1, <1>2, <2>3, <2>4
<1>9. CASE \E t \in tasks : TaskStep(t) \/ TaskFault(t)
  <2>1. PICK t \in tasks : TaskStep(t) \/ TaskFault(t)
    BY <1>9
  <2>2. outbox' = outbox
    BY <2>1, TaskKinds
  <2>3. queue' \subseteq queue /\ inFlight' \subseteq inFlight /\ dlq' \subseteq dlq \cup {t.msg}
    BY <2>1 DEF TaskStep, TaskFault, ReadClaim, ClaimLease, PersistOutcome, ExtractionFails,
         DeleteMessage, MoveToDlq, MarkClaimAsError, DropMessage, RetryLater, DatabaseError,
         DeleteMessageFails, DlqPublishFails, WorkerDies, ReleaseLease, DeleteFromQueue, sqs
  <2>4. \A u \in tasks' : \E v \in tasks : u.msg = v.msg
    <3>1. t \in Task
      BY DEF TypeOK
    <3>2. /\ \A pc : [t EXCEPT !.pc = pc].msg = t.msg
          /\ \A b : [t EXCEPT !.pc = "failing", !.retryable = b].msg = t.msg
      BY <3>1 DEF Task
    <3>3. /\ \A pc : GoTo(t, pc) => \A u \in tasks' : \E v \in tasks : u.msg = v.msg
          /\ \A b : Throw(t, b) => \A u \in tasks' : \E v \in tasks : u.msg = v.msg
          /\ Finish(t) => \A u \in tasks' : \E v \in tasks : u.msg = v.msg
      BY <3>2 DEF GoTo, Throw, Finish
    <3> QED
      BY <2>1, <3>3 DEF TaskStep, TaskFault, ReadClaim, ClaimLease, PersistOutcome, ExtractionFails,
         DeleteMessage, MoveToDlq, MarkClaimAsError, DropMessage, RetryLater, DatabaseError,
         DeleteMessageFails, DlqPublishFails, WorkerDies, ReleaseLease, Answer
  <2> QED
    BY <1>1, <1>2, <2>2, <2>3, <2>4
<1> QED
  BY <1>3, <1>4, <1>5, <1>6, <1>7, <1>8, <1>9 DEF Next, Actor

-----------------------------------------------------------------------------
(* Fencing.                                                                *)

\* What an actor still knows when its transaction runs: nothing if the claim has
\* moved to another attempt, and that the retry is allowed if it has not.
RequestsFenced == \A r \in requests :
    /\ r.attempt <= claim[r.claim].attempt
    /\ (r.op = "retry" /\ r.attempt = claim[r.claim].attempt) =>
          claim[r.claim].status = "ERROR" /\ claim[r.claim].failure = "retryable"

\* RowConsistent needs the attempts of the rows, JobsFenced the tokens and the
\* freshness of new ones (RowConsistent), RequestsFenced the statuses.
Fenced == TypeOK /\ RowConsistent /\ JobsFenced /\ RequestsFenced

LEMMA InitFenced == Init => Fenced
<1> SUFFICES ASSUME Init PROVE Fenced
  OBVIOUS
<1>1. TypeOK
  BY InitTypeOK
<1>2. RowConsistent
  BY DEF Init, RowConsistent
<1>3. JobsFenced /\ RequestsFenced
  BY DEF Init, JobsFenced, Jobs, RequestsFenced
<1> QED
  BY <1>1, <1>2, <1>3 DEF Fenced

\* The new row of a claim whose attempt starts.
Started(r) ==
    /\ r.claim \in Claim /\ r.attempt = claim[r.claim].attempt /\ r.attempt \in Nat
    /\ claim[r.claim].status \in {"NEW", "ERROR", "PROCESSING"}
    /\ claim'[r.claim].status = "PROCESSING"
    /\ claim'[r.claim].attempt = r.attempt + 1
    /\ claim'[r.claim].token = FreshToken
    /\ claim'[r.claim].leased = FALSE
    /\ claim'[r.claim].failure = claim[r.claim].failure
    /\ \A d \in Claim : d # r.claim => claim'[d] = claim[d]
    /\ FreshToken \in Token /\ FreshToken \notin issued
    /\ issued' = issued \cup {FreshToken}
    /\ requests' \subseteq requests

LEMMA StartedRow ==
    ASSUME Fenced, NEW r \in requests, StartAttempt(r)
    PROVE  Started(r)
<1> DEFINE c == r.claim
           row == [claim[c] EXCEPT !.status = "PROCESSING", !.attempt = r.attempt + 1,
                                   !.token = FreshToken, !.leased = FALSE]
<1>1. c \in Claim /\ r.attempt \in Nat /\ claim[c] \in Row /\ claim \in [Claim -> Row]
      /\ r.op \in {"enqueue", "retry", "recover"}
  BY DEF Fenced, TypeOK, Request
<1>2. claim' = [claim EXCEPT ![c] = row]
  BY DEF StartAttempt, Update
<1>3. r.attempt = claim[c].attempt /\ claim[c].status \in {"NEW", "ERROR", "PROCESSING"}
  BY <1>1 DEF StartAttempt, IsCurrent, StartIsCurrent, RecoveryIsCurrent, FromStatus
<1>4. /\ Token \ issued # {} /\ issued' = issued \cup {FreshToken} /\ requests' \subseteq requests
  BY DEF StartAttempt
<1>5. /\ row.status = "PROCESSING" /\ row.attempt = r.attempt + 1 /\ row.token = FreshToken
      /\ row.leased = FALSE /\ row.failure = claim[c].failure
  BY <1>1 DEF Row
<1>6. claim'[c] = row /\ \A d \in Claim : d # c => claim'[d] = claim[d]
  BY <1>1, <1>2
<1> HIDE DEF row
<1> QED
  BY <1>1, <1>3, <1>4, <1>5, <1>6, FreshTokenIsFresh DEF Started

\* The row of a claim whose worker changes it.
Worked(t, c) ==
    /\ c \in Claim /\ Current(t.msg.job)
    /\ claim'[c].attempt = claim[c].attempt
    /\ issued' = issued
    /\ \A d \in Claim : d # c => claim'[d] = claim[d]
    /\ \/ /\ claim'[c].status = "PROCESSING" /\ claim'[c].token = claim[c].token
          /\ claim'[c].failure = claim[c].failure
       \/ /\ claim'[c].status \in Outcome /\ claim'[c].token = NoToken
          /\ claim'[c].leased = FALSE
          /\ claim'[c].status = "ERROR" => claim'[c].failure # "none"

LEMMA WorkedRow ==
    ASSUME TypeOK, NEW t \in tasks, TaskKind(t), ~Unclaimed
    PROVE  Worked(t, t.msg.job.claim)
<1> DEFINE c == t.msg.job.claim
<1>1. c \in Claim /\ claim[c] \in Row /\ claim \in [Claim -> Row]
  BY TaskTypes DEF TypeOK
<1>2. ASSUME NEW b \in BOOLEAN, Leases(t, b)
      PROVE  /\ Current(t.msg.job) /\ issued' = issued
             /\ \A d \in Claim : d # c => claim'[d] = claim[d]
             /\ claim'[c].status = "PROCESSING" /\ claim'[c].token = claim[c].token
             /\ claim'[c].failure = claim[c].failure /\ claim'[c].attempt = claim[c].attempt
  <2> DEFINE row == [claim[c] EXCEPT !.leased = b]
  <2>1. claim' = [claim EXCEPT ![c] = row] /\ claim[c].status = "PROCESSING"
        /\ Current(t.msg.job) /\ issued' = issued
    BY <1>2 DEF Leases, Update, Current
  <2>2. row.status = claim[c].status /\ row.token = claim[c].token
        /\ row.failure = claim[c].failure /\ row.attempt = claim[c].attempt
    BY <1>1 DEF Row
  <2>3. claim'[c] = row /\ \A d \in Claim : d # c => claim'[d] = claim[d]
    BY <1>1, <2>1
  <2> HIDE DEF row
  <2> QED
    BY <2>1, <2>2, <2>3
<1>3. ASSUME NEW s \in Outcome, NEW f \in Failure, Settles(t, s, f)
      PROVE  /\ Current(t.msg.job) /\ issued' = issued
             /\ \A d \in Claim : d # c => claim'[d] = claim[d]
             /\ claim'[c].status \in Outcome /\ claim'[c].token = NoToken
             /\ claim'[c].leased = FALSE /\ claim'[c].attempt = claim[c].attempt
             /\ claim'[c].status = "ERROR" => claim'[c].failure # "none"
  <2> DEFINE row == Settled(claim[c], s, f)
  <2>1. claim' = [claim EXCEPT ![c] = row]
        /\ Current(t.msg.job) /\ issued' = issued /\ (s = "ERROR" => f # "none")
    BY <1>3 DEF Settles, Update
  <2>2. row.status = s /\ row.token = NoToken /\ row.leased = FALSE
        /\ row.failure = f /\ row.attempt = claim[c].attempt
    BY <1>1 DEF Row, Settled
  <2>3. claim'[c] = row /\ \A d \in Claim : d # c => claim'[d] = claim[d]
    BY <1>1, <2>1
  <2> HIDE DEF row
  <2> QED
    BY <2>1, <2>2, <2>3
<1> QED
  BY <1>1, <1>2, <1>3 DEF TaskKind, Worked

LEMMA NextRowConsistent == ASSUME Fenced, Next PROVE RowConsistent'
<1>0. TypeOK /\ RowConsistent
  BY DEF Fenced
<1>1. CASE Unclaimed
  BY <1>0, <1>1 DEF RowConsistent, Unclaimed
<1>2. ASSUME NEW r \in requests, StartAttempt(r)
      PROVE  RowConsistent'
  <2>1. Started(r)
    BY <1>2, StartedRow
  <2>2. NoToken # FreshToken /\ r.attempt + 1 # 0
    BY <2>1, TokenAssumption DEF Started
  <2> QED
    BY <1>0, <2>1, <2>2 DEF RowConsistent, Started
<1>3. ASSUME NEW t \in tasks, TaskKind(t), ~Unclaimed
      PROVE  RowConsistent'
  <2> DEFINE c == t.msg.job.claim
  <2>1. Worked(t, c) /\ claim[c].status = "PROCESSING"
    BY <1>0, <1>3, WorkedRow DEF Worked, Current
  <2> HIDE DEF c
  <2> QED
    BY <1>0, <2>1 DEF RowConsistent, Worked, Outcome
<1> QED
  <2>1. CASE \E r \in requests : StartAttempt(r)
    BY <1>2, <2>1
  <2>2. CASE \E t \in tasks : TaskKind(t) /\ UNCHANGED requests
    BY <1>1, <1>3, <2>2
  <2> QED
    BY <1>0, <1>1, <2>1, <2>2, StepKinds

LEMMA NextJobsFenced == ASSUME Fenced, Next PROVE JobsFenced'
<1> DEFINE Ok(j, row, tokens) ==
             /\ ~FailsClosed(row, j)
             /\ 0 < j.attempt /\ j.attempt <= row.attempt /\ j.token \in tokens
             /\ (row.status = "PROCESSING" /\ row.attempt = j.attempt) => row.token = j.token
<1> SUFFICES ASSUME NEW j \in Jobs' PROVE Ok(j, claim'[j.claim], issued')
  BY DEF JobsFenced, FailsClosed
<1>0. TypeOK /\ RowConsistent
  BY DEF Fenced
<1>1. ASSUME j \in Jobs
      PROVE  /\ j.claim \in Claim /\ j.attempt \in Nat /\ claim[j.claim].attempt \in Nat
             /\ Ok(j, claim[j.claim], issued)
  <2>1. j \in Job
    BY <1>0, <1>1 DEF TypeOK, Jobs, Message, Task
  <2>2. claim[j.claim] \in Row
    BY <1>0, <2>1 DEF TypeOK, Job
  <2> QED
    BY <1>1, <2>1, <2>2 DEF Fenced, JobsFenced, Job, Row
<1>2. CASE j \in Jobs /\ Unclaimed
  BY <1>1, <1>2 DEF Unclaimed
<1>3. ASSUME j \in Jobs, NEW r \in requests, StartAttempt(r)
      PROVE  Ok(j, claim'[j.claim], issued')
  <2>0. Started(r)
    BY <1>3, StartedRow
  <2>1. CASE j.claim = r.claim
    BY <1>1, <1>3, <2>0, <2>1 DEF FailsClosed, Started
  <2>2. CASE j.claim # r.claim
    BY <1>1, <1>3, <2>0, <2>2 DEF FailsClosed, Started
  <2> QED
    BY <2>1, <2>2
<1>4. ASSUME j \in Jobs, NEW t \in tasks, TaskKind(t), ~Unclaimed
      PROVE  Ok(j, claim'[j.claim], issued')
  <2>0. Worked(t, t.msg.job.claim)
    BY <1>0, <1>4, WorkedRow
  <2>1. CASE j.claim = t.msg.job.claim
    BY <1>1, <1>4, <2>0, <2>1 DEF FailsClosed, Current, Outcome, Worked
  <2>2. CASE j.claim # t.msg.job.claim
    BY <1>1, <1>4, <2>0, <2>2 DEF FailsClosed, Worked
  <2> QED
    BY <2>1, <2>2
<1>5. ASSUME NEW r \in requests, StartAttempt(r), j = NewJob(r.claim, r.attempt + 1)
      PROVE  Ok(j, claim'[j.claim], issued')
  <2>1. j.claim = r.claim /\ j.attempt = r.attempt + 1 /\ j.token = FreshToken
    BY <1>5 DEF NewJob
  <2>2. Started(r)
    BY <1>5, StartedRow
  <2> QED
    BY <2>1, <2>2 DEF FailsClosed, Started
<1> QED
  BY <1>0, <1>2, <1>3, <1>4, <1>5, StepKinds, JobsStep

LEMMA NextRequestsFenced == ASSUME Fenced, Next PROVE RequestsFenced'
<1> DEFINE Ok(r, row) ==
             /\ r.attempt <= row.attempt
             /\ (r.op = "retry" /\ r.attempt = row.attempt) =>
                   row.status = "ERROR" /\ row.failure = "retryable"
<1>0. TypeOK
  BY DEF Fenced
<1>1. ASSUME NEW r \in requests
      PROVE  /\ r.claim \in Claim /\ r.attempt \in Nat /\ claim[r.claim].attempt \in Nat
             /\ Ok(r, claim[r.claim])
  BY DEF Fenced, RequestsFenced, TypeOK, Request, Row
<1>2. ASSUME NEW a \in Actor, NEW c \in Claim,
             ReadForEnqueue(a, c) \/ ReadForRetry(a, c) \/ ReadForRecovery(a, c)
      PROVE  RequestsFenced'
  <2>1. PICK op \in {"enqueue", "retry", "recover"} :
           /\ BeginRequest(a, op, c)
           /\ op = "retry" => claim[c].status = "ERROR" /\ claim[c].failure = "retryable"
    BY <1>2 DEF ReadForEnqueue, ReadForRetry, ReadForRecovery
  <2> DEFINE q == [by |-> a, op |-> op, claim |-> c, attempt |-> claim[c].attempt]
  <2>2. claim' = claim /\ requests' = requests \cup {q}
    BY <2>1 DEF BeginRequest
  <2>3. claim[c].attempt \in Nat
    BY <1>0 DEF TypeOK, Row
  <2>4. Ok(q, claim[q.claim])
    BY <2>1, <2>3
  <2> HIDE DEF q
  <2> QED
    BY <1>1, <2>2, <2>4 DEF RequestsFenced
<1>3. ASSUME requests' \subseteq requests, Unclaimed
      PROVE  RequestsFenced'
  BY <1>1, <1>3 DEF RequestsFenced, Unclaimed
<1>4. ASSUME NEW r \in requests, StartAttempt(r)
      PROVE  RequestsFenced'
  <2> SUFFICES ASSUME NEW q \in requests' PROVE Ok(q, claim'[q.claim])
    BY DEF RequestsFenced
  <2>0. Started(r)
    BY <1>4, StartedRow
  <2>1. q \in requests
    BY <2>0 DEF Started
  <2>2. CASE q.claim = r.claim
    BY <1>1, <2>0, <2>1, <2>2 DEF Started
  <2>3. CASE q.claim # r.claim
    BY <1>1, <2>0, <2>1, <2>3 DEF Started
  <2> QED
    BY <2>2, <2>3
<1>5. ASSUME NEW t \in tasks, TaskKind(t), ~Unclaimed, requests' = requests
      PROVE  RequestsFenced'
  <2> SUFFICES ASSUME NEW q \in requests PROVE Ok(q, claim'[q.claim])
    BY <1>5 DEF RequestsFenced
  <2>0. Worked(t, t.msg.job.claim)
    BY <1>0, <1>5, WorkedRow
  <2>1. CASE q.claim = t.msg.job.claim
    BY <1>1, <2>0, <2>1 DEF Current, Worked
  <2>2. CASE q.claim # t.msg.job.claim
    BY <1>1, <2>0, <2>2 DEF Worked
  <2> QED
    BY <2>1, <2>2
<1>6. \/ \E a \in Actor, c \in Claim :
            ReadForEnqueue(a, c) \/ ReadForRetry(a, c) \/ ReadForRecovery(a, c)
      \/ requests' \subseteq requests
  BY DEF Next, Actor, StartAttempt, LoseRace, AbandonRequest, Dispatch, VisibilityTimeout,
         Receive, TaskStep, TaskFault, ReadClaim, ClaimLease, PersistOutcome, ExtractionFails,
         DeleteMessage, MoveToDlq, MarkClaimAsError, DropMessage, RetryLater, DatabaseError,
         DeleteMessageFails, DlqPublishFails, WorkerDies, ReleaseLease
<1> QED
  BY <1>0, <1>2, <1>3, <1>4, <1>5, <1>6, StepKinds

LEMMA NextFenced == Fenced /\ [Next]_vars => Fenced'
<1> SUFFICES ASSUME Fenced, [Next]_vars PROVE Fenced'
  OBVIOUS
<1>1. CASE Next
  <2>1. TypeOK'
    BY NextTypeOK DEF Fenced
  <2> QED
    BY <1>1, <2>1, NextRowConsistent, NextJobsFenced, NextRequestsFenced DEF Fenced
<1>2. CASE UNCHANGED vars
  BY <1>2 DEF vars, db, sqs, Fenced, TypeOK, RowConsistent, JobsFenced, Jobs, RequestsFenced,
              FailsClosed
<1> QED
  BY <1>1, <1>2

LEMMA SpecFenced == Spec => []Fenced
BY InitFenced, NextFenced, PTL DEF Spec

\* Whatever races, crashes and errors happen, the columns of a claim agree.
THEOREM ProcessingRowConsistent == Spec => []RowConsistent
BY SpecFenced, PTL DEF Fenced

\* No message body anywhere is ahead of its claim or disagrees with its token.
THEOREM ProcessingJobsFenced == Spec => []JobsFenced
BY SpecFenced, PTL DEF Fenced

\* A retry commits only while the failure that allowed it is the latest.
THEOREM ProcessingRetryStillAllowed == Spec => []RetryStillAllowed
<1>1. Fenced => RetryStillAllowed
  BY DEF Fenced, RequestsFenced, RetryStillAllowed, StartIsCurrent
<1> QED
  BY SpecFenced, <1>1, PTL

-----------------------------------------------------------------------------
(* Superseded workers, and the dead-letter queue.                          *)

\* A worker of an earlier attempt never writes the claim.
THEOREM ProcessingSuperseded == Spec => SupersededNeverWrites
<1>1. ASSUME TypeOK, [Next]_vars, NEW t \in tasks,
             t.msg.job.attempt < claim[t.msg.job.claim].attempt, t \notin tasks'
      PROVE  claim'[t.msg.job.claim] = claim[t.msg.job.claim]
             /\ events'[t.msg.job.claim] = events[t.msg.job.claim]
  <2> DEFINE c == t.msg.job.claim
  <2>1. Next
    BY <1>1 DEF vars
  <2>2. CASE Unclaimed
    BY <2>2 DEF Unclaimed
  <2>3. CASE \E r \in requests : StartAttempt(r)
    BY <1>1, <2>3 DEF StartAttempt
  <2>4. CASE \E u \in tasks : TaskKind(u)
    <3>1. PICK u \in tasks : TaskKind(u)
      BY <2>4
    <3>2. u = t
      BY <1>1, <3>1 DEF TaskKind
    <3>3. t.msg.job.attempt \in Nat /\ claim[c].attempt \in Nat
      BY <1>1, TaskTypes DEF TypeOK, Row
    <3>4. ~Current(t.msg.job)
      BY <1>1, <3>3 DEF Current
    <3>5. Unclaimed
      BY <3>1, <3>2, <3>4 DEF TaskKind, Leases, Settles
    <3> QED
      BY <3>5 DEF Unclaimed
  <2> QED
    BY <1>1, <2>1, <2>2, <2>3, <2>4, StepKinds
<1>2. TypeOK /\ [Next]_vars =>
         [\A t \in tasks : LET c == t.msg.job.claim IN
            (t.msg.job.attempt < claim[c].attempt /\ t \notin tasks') =>
                claim'[c] = claim[c] /\ events'[c] = events[c]]_vars
  BY <1>1
<1> QED
  BY InitTypeOK, NextTypeOK, <1>2, PTL DEF Spec, SupersededNeverWrites

\* A handler that is about to mark a claim has published its message, and does
\* so only if there is a dead-letter queue.
MarkingHasEvidence == \A t \in tasks :
    t.pc = "marking" => DlqConfigured /\ t.msg \in dlq

Evidence == TypeOK /\ MarkingHasEvidence /\ ErrorHasDlqEvidence /\ RetryNeedsDlq

LEMMA InitEvidence == Init => MarkingHasEvidence /\ ErrorHasDlqEvidence /\ RetryNeedsDlq
BY DEF Init, MarkingHasEvidence, ErrorHasDlqEvidence, RetryNeedsDlq

LEMMA DlqGrows == ASSUME TypeOK, Next PROVE dlq \subseteq dlq'
BY DEF Next, ReadForEnqueue, ReadForRetry, ReadForRecovery, BeginRequest, StartAttempt,
   LoseRace, AbandonRequest, Dispatch, VisibilityTimeout, Receive, TaskStep, TaskFault,
   ReadClaim, ClaimLease, PersistOutcome, ExtractionFails, DeleteMessage, MoveToDlq,
   MarkClaimAsError, DropMessage, RetryLater, DatabaseError, DeleteMessageFails,
   DlqPublishFails, WorkerDies, sqs

LEMMA NextMarking == ASSUME TypeOK, MarkingHasEvidence, Next PROVE MarkingHasEvidence'
<1>1. dlq \subseteq dlq'
  BY DlqGrows
<1>2. ASSUME NEW u \in tasks', u.pc = "marking", u \notin tasks
      PROVE  DlqConfigured /\ u.msg \in dlq'
  <2>1. CASE \E w \in Worker, m \in queue : Receive(w, m)
    BY <1>2, <2>1 DEF Receive
  <2>2. ASSUME NEW t \in tasks, TaskStep(t) \/ TaskFault(t)
        PROVE  DlqConfigured /\ u.msg \in dlq'
    <3>1. t \in Task
      BY DEF TypeOK
    <3>2. /\ \A pc : [t EXCEPT !.pc = pc].pc = pc /\ [t EXCEPT !.pc = pc].msg = t.msg
          /\ \A b : [t EXCEPT !.pc = "failing", !.retryable = b].pc = "failing"
      BY <3>1 DEF Task
    <3>3. /\ \A pc : pc # "marking" => ~GoTo(t, pc)
          /\ \A b : ~Throw(t, b)
          /\ ~Finish(t)
          /\ GoTo(t, "marking") => u.msg = t.msg
      <4>1. ASSUME NEW pc, GoTo(t, pc)
            PROVE  u = [t EXCEPT !.pc = pc]
        BY <1>2, <4>1 DEF GoTo
      <4>2. ASSUME NEW b, Throw(t, b)
            PROVE  u = [t EXCEPT !.pc = "failing", !.retryable = b]
        BY <1>2, <4>2 DEF Throw
      <4>3. ~Finish(t)
        BY <1>2 DEF Finish
      <4> QED
        BY <1>2, <3>2, <4>1, <4>2, <4>3
    <3>4. MoveToDlq(t)
      BY <2>2, <3>3 DEF TaskStep, TaskFault, ReadClaim, ClaimLease, PersistOutcome,
         ExtractionFails, DeleteMessage, MarkClaimAsError, DropMessage, RetryLater, DatabaseError,
         DeleteMessageFails, DlqPublishFails, WorkerDies, ReleaseLease, Answer
    <3> QED
      BY <3>3, <3>4 DEF MoveToDlq, ShouldMoveToDlq
  <2> QED
    BY <1>2, <2>1, <2>2 DEF Next, ReadForEnqueue, ReadForRetry, ReadForRecovery, BeginRequest,
       StartAttempt, LoseRace, AbandonRequest, Dispatch, VisibilityTimeout
<1> QED
  BY <1>1, <1>2 DEF MarkingHasEvidence

LEMMA NextEvidence == ASSUME Evidence, Next PROVE (ErrorHasDlqEvidence /\ RetryNeedsDlq)'
<1> DEFINE Ok(row, q, c) ==
      /\ (DlqConfigured /\ row.status = "ERROR") =>
            \E m \in q : m.job.claim = c /\ m.job.attempt = row.attempt
      /\ ~DlqConfigured => row.failure # "retryable"
<1> SUFFICES ASSUME NEW c \in Claim PROVE Ok(claim'[c], dlq', c)
  BY DEF ErrorHasDlqEvidence, RetryNeedsDlq
<1>0. TypeOK /\ claim \in [Claim -> Row] /\ claim[c] \in Row
  BY DEF Evidence, TypeOK
<1>1. Ok(claim[c], dlq, c) /\ dlq \subseteq dlq'
  BY <1>0, DlqGrows DEF Evidence, ErrorHasDlqEvidence, RetryNeedsDlq
<1>2. CASE claim'[c] = claim[c]
  BY <1>1, <1>2
<1>3. ASSUME NEW r \in requests, StartAttempt(r)
      PROVE  Ok(claim'[c], dlq', c)
  <2> DEFINE row == [claim[r.claim] EXCEPT !.status = "PROCESSING", !.attempt = r.attempt + 1,
                                           !.token = FreshToken, !.leased = FALSE]
  <2>1. claim' = [claim EXCEPT ![r.claim] = row]
    BY <1>3 DEF StartAttempt, Update
  <2>2. CASE c = r.claim
    <3>1. row.status = "PROCESSING" /\ row.failure = claim[c].failure
      BY <1>0, <2>2 DEF Row
    <3>2. claim'[c] = row
      BY <1>0, <2>1, <2>2
    <3> HIDE DEF row
    <3> QED
      BY <1>1, <3>1, <3>2
  <2>3. CASE c # r.claim
    BY <1>0, <1>2, <2>1, <2>3
  <2> QED
    BY <2>2, <2>3
<1>4. ASSUME NEW t \in tasks, NEW b \in BOOLEAN, Leases(t, b)
      PROVE  Ok(claim'[c], dlq', c)
  <2> DEFINE row == [claim[t.msg.job.claim] EXCEPT !.leased = b]
  <2>1. claim' = [claim EXCEPT ![t.msg.job.claim] = row]
    BY <1>4 DEF Leases, Update
  <2>2. CASE c = t.msg.job.claim
    <3>1. row.status = claim[c].status /\ row.failure = claim[c].failure
          /\ row.attempt = claim[c].attempt
      BY <1>0, <2>2 DEF Row
    <3>2. claim'[c] = row
      BY <1>0, <2>1, <2>2
    <3> HIDE DEF row
    <3> QED
      BY <1>1, <3>1, <3>2
  <2>3. CASE c # t.msg.job.claim
    BY <1>0, <1>2, <2>1, <2>3
  <2> QED
    BY <2>2, <2>3
<1>5. ASSUME NEW t \in tasks, NEW s \in Outcome, NEW f \in Failure, Settles(t, s, f)
      PROVE  Ok(claim'[c], dlq', c)
  <2> DEFINE row == Settled(claim[t.msg.job.claim], s, f)
  <2>1. claim' = [claim EXCEPT ![t.msg.job.claim] = row]
    BY <1>5 DEF Settles, Update
  <2>2. CASE c = t.msg.job.claim
    <3>1. row.status = s /\ row.failure = f /\ row.attempt = claim[c].attempt
      BY <1>0, <2>2 DEF Row, Settled
    <3>2. claim'[c] = row
      BY <1>0, <2>1, <2>2
    <3>3. CASE s = "ERROR" /\ f = (IF t.retryable THEN "retryable" ELSE "fatal") /\ ReadyToMark(t)
      <4>1. t.msg.job.attempt = claim[c].attempt
        BY <1>5, <2>2 DEF Settles, Current
      <4>2. CASE t.pc = "marking"
        <5>1. t.msg \in dlq' /\ DlqConfigured
          BY <1>1, <4>2 DEF Evidence, MarkingHasEvidence
        <5> HIDE DEF row
        <5> QED
          BY <2>2, <3>1, <3>2, <4>1, <5>1
      <4>3. CASE t.pc # "marking"
        <5>1. ~DlqConfigured /\ ~t.retryable
          BY <3>3, <4>3 DEF ReadyToMark
        <5> HIDE DEF row
        <5> QED
          BY <3>1, <3>2, <3>3, <5>1
      <4> QED
        BY <4>2, <4>3
    <3>4. CASE s \in {"READY", "REVIEW_REQUIRED"} /\ f = claim[c].failure
      <4> HIDE DEF row
      <4> QED
        BY <1>1, <3>1, <3>2, <3>4
    <3> QED
      BY <1>5, <2>2, <3>3, <3>4 DEF Settles
  <2>3. CASE c # t.msg.job.claim
    BY <1>0, <1>2, <2>1, <2>3
  <2> QED
    BY <2>2, <2>3
<1>6. CASE Unclaimed
  BY <1>2, <1>6 DEF Unclaimed
<1>7. CASE \E t \in tasks : TaskKind(t)
  BY <1>4, <1>5, <1>6, <1>7 DEF TaskKind
<1> QED
  BY <1>0, <1>3, <1>6, <1>7, StepKinds

LEMMA SpecEvidence == Spec => []Evidence
<1>1. Init => Evidence
  BY InitTypeOK, InitEvidence DEF Evidence
<1>2. Evidence /\ [Next]_vars => Evidence'
  <2> SUFFICES ASSUME Evidence, [Next]_vars PROVE Evidence'
    OBVIOUS
  <2>1. TypeOK'
    BY NextTypeOK DEF Evidence
  <2>2. CASE Next
    <3>1. MarkingHasEvidence'
      BY <2>2, NextMarking DEF Evidence
    <3>2. (ErrorHasDlqEvidence /\ RetryNeedsDlq)'
      BY <2>2, NextEvidence
    <3> QED
      BY <2>1, <3>1, <3>2 DEF Evidence
  <2>3. CASE UNCHANGED vars
    BY <2>1, <2>3 DEF vars, db, sqs, Evidence, MarkingHasEvidence, ErrorHasDlqEvidence, RetryNeedsDlq
  <2> QED
    BY <2>2, <2>3
<1> QED
  BY <1>1, <1>2, PTL DEF Spec

\* With a dead-letter queue, every claim in ERROR left its message there.
THEOREM ProcessingDlqEvidence == Spec => []ErrorHasDlqEvidence
BY SpecEvidence, PTL DEF Evidence

\* Without one, no failure is ever retryable by an operator.
THEOREM ProcessingRetryNeedsDlq == Spec => []RetryNeedsDlq
BY SpecEvidence, PTL DEF Evidence

-----------------------------------------------------------------------------
(* The lease.  A handler that fails on a database or queue error without   *)
(* having claimed it releases it all the same, so these errors are left    *)
(* out; crashes, early redeliveries and duplicated messages are not.       *)

LeaseFaults == Faults \subseteq {"crash", "visibility", "resend"}

\* From the claim of the lease to the end of the attempt.
Owning == {"extracting", "failing", "marking"}
Owns(t) == t.pc \in Owning /\ Current(t.msg.job)

\* Whoever works for the current attempt of a claim does so alone and under its lease.
OwnedOnce ==
    /\ \A t \in tasks : Owns(t) => claim[t.msg.job.claim].leased
    /\ \A t, u \in tasks : Owns(t) /\ Owns(u) /\ t.msg.job.claim = u.msg.job.claim => t = u

\* The ways in which a task step can change who owns what: it passes ownership on to the
\* next point of its own work, or to nobody, ...
Passes(t) ==
    /\ claim' = claim
    /\ \/ \A u \in tasks' : u \in tasks \/ u.pc \notin Owning
       \/ /\ t.pc \in Owning
          /\ \E v : tasks' = (tasks \ {t}) \cup {v} /\ v.msg = t.msg

\* ... takes the lease while it is free, ...
Takes(t) ==
    /\ LeaseFree(t.msg.job)
    /\ claim' = [claim EXCEPT ![t.msg.job.claim] = [claim[t.msg.job.claim] EXCEPT !.leased = TRUE]]
    /\ \E v : tasks' = (tasks \ {t}) \cup {v} /\ v.msg = t.msg

\* ... or ends the attempt or its part of it, as its owner.
Ends(t) ==
    /\ Owns(t) /\ t \notin tasks'
    /\ \A u \in tasks' : u \in tasks \/ u.pc \notin Owning
    /\ \E row \in Row : /\ row.attempt = claim[t.msg.job.claim].attempt
                        /\ claim' = [claim EXCEPT ![t.msg.job.claim] = row]

LEMMA OwnKinds ==
    ASSUME LeaseFaults, Fenced, NEW t \in tasks, TaskStep(t) \/ TaskFault(t)
    PROVE  Passes(t) \/ Takes(t) \/ Ends(t)
<1> DEFINE c == t.msg.job.claim
<1>1. t \in Task /\ TypeOK /\ c \in Claim /\ claim[c] \in Row /\ claim \in [Claim -> Row]
  BY TaskTypes DEF Fenced, TypeOK
<1>2. ~Fault("db") /\ ~Fault("sqs")
  BY DEF Fault, LeaseFaults
<1>3. /\ \A pc : [t EXCEPT !.pc = pc].pc = pc /\ [t EXCEPT !.pc = pc].msg = t.msg
      /\ \A b : [t EXCEPT !.pc = "failing", !.retryable = b].msg = t.msg
  BY <1>1 DEF Task
<1>4. ASSUME NEW pc, pc \notin Owning, GoTo(t, pc)
      PROVE  \A u \in tasks' : u \in tasks \/ u.pc \notin Owning
  BY <1>3, <1>4 DEF GoTo
<1>5. ASSUME Finish(t)
      PROVE  t \notin tasks' /\ \A u \in tasks' : u \in tasks \/ u.pc \notin Owning
  BY <1>5 DEF Finish
<1>6. ASSUME NEW pc, pc # t.pc, GoTo(t, pc)
      PROVE  t \notin tasks'
  BY <1>3, <1>6 DEF GoTo
<1>7. CASE ReadClaim(t)
  <2>1. ~FailsClosed(claim[c], t.msg.job)
    BY DEF Fenced, JobsFenced, Jobs
  <2>2. claim' = claim /\ (GoTo(t, "claiming") \/ GoTo(t, "deleting"))
    BY <1>7, <2>1 DEF ReadClaim, db
  <2> QED
    BY <1>4, <2>2 DEF Passes, Owning
<1>8. CASE ClaimLease(t)
  <2>1. CASE LeaseFree(t.msg.job) /\ Update(c, [claim[c] EXCEPT !.leased = TRUE])
             /\ Answer(t, "extracting")
    <3>1. GoTo(t, "extracting")
      BY <1>2, <2>1 DEF Answer
    <3>2. \E v : tasks' = (tasks \ {t}) \cup {v} /\ v.msg = t.msg
      BY <1>3, <3>1 DEF GoTo
    <3> QED
      BY <2>1, <3>2 DEF Takes, Update
  <2>2. CASE GoTo(t, "deleting") /\ UNCHANGED claim
    BY <1>4, <2>2 DEF Passes, Owning
  <2> QED
    BY <1>8, <2>1, <2>2 DEF ClaimLease
<1>9. CASE PersistOutcome(t)
  <2>1. GoTo(t, "deleting") /\ t.pc = "extracting"
    BY <1>2, <1>9 DEF PersistOutcome, Answer
  <2>2. /\ t \notin tasks'
        /\ \A u \in tasks' : u \in tasks \/ u.pc \notin Owning
    BY <1>4, <1>6, <2>1 DEF Owning
  <2>3. CASE ~Current(t.msg.job)
    BY <1>9, <2>2, <2>3 DEF PersistOutcome, Passes, db
  <2>4. CASE Current(t.msg.job)
    <3>1. PICK s \in {"READY", "REVIEW_REQUIRED"} :
              claim' = [claim EXCEPT ![c] = Settled(claim[c], s, claim[c].failure)]
      BY <1>9, <2>4 DEF PersistOutcome, Update
    <3>2. /\ Settled(claim[c], s, claim[c].failure) \in Row
          /\ Settled(claim[c], s, claim[c].failure).attempt = claim[c].attempt
      BY <1>1 DEF Settled, Row, Status, Outcome
    <3> QED
      BY <2>1, <2>2, <2>4, <3>1, <3>2 DEF Ends, Owns, Owning
  <2> QED
    BY <2>3, <2>4
<1>10. CASE ExtractionFails(t) \/ MoveToDlq(t)
  <2>1. t.pc \in Owning /\ claim' = claim
    BY <1>10 DEF ExtractionFails, MoveToDlq, Owning, db
  <2>2. \E v : tasks' = (tasks \ {t}) \cup {v} /\ v.msg = t.msg
    BY <1>3, <1>10 DEF ExtractionFails, MoveToDlq, GoTo, Throw
  <2> QED
    BY <2>1, <2>2 DEF Passes
<1>11. CASE DeleteMessage(t) \/ DropMessage(t) \/ WorkerDies(t)
  BY <1>5, <1>11 DEF DeleteMessage, DropMessage, WorkerDies, Passes, db
<1>12. CASE MarkClaimAsError(t)
  <2>1. GoTo(t, "dropping") /\ t.pc \in {"failing", "marking"}
    BY <1>12 DEF MarkClaimAsError, ReadyToMark
  <2>2. /\ t \notin tasks'
        /\ \A u \in tasks' : u \in tasks \/ u.pc \notin Owning
    BY <1>4, <1>6, <2>1 DEF Owning
  <2>3. CASE ~Current(t.msg.job)
    BY <1>12, <2>2, <2>3 DEF MarkClaimAsError, Passes, db
  <2>4. CASE Current(t.msg.job)
    <3> DEFINE f == IF t.retryable THEN "retryable" ELSE "fatal"
    <3>1. claim' = [claim EXCEPT ![c] = Settled(claim[c], "ERROR", f)]
      BY <1>12, <2>4 DEF MarkClaimAsError, Update
    <3>2. f \in Failure
      BY DEF Failure
    <3> HIDE DEF f
    <3>3. /\ Settled(claim[c], "ERROR", f) \in Row
          /\ Settled(claim[c], "ERROR", f).attempt = claim[c].attempt
      BY <1>1, <3>2 DEF Settled, Row, Status, Outcome
    <3> QED
      BY <2>1, <2>2, <2>4, <3>1, <3>3 DEF Ends, Owns, Owning
  <2> QED
    BY <2>3, <2>4
<1>13. CASE RetryLater(t)
  <2>1. t.pc = "failing" /\ ReleaseLease(t) /\ Finish(t)
    BY <1>13 DEF RetryLater, ReleaseLease
  <2>2. CASE Current(t.msg.job) /\ claim[c].leased
    <3>1. claim' = [claim EXCEPT ![c] = [claim[c] EXCEPT !.leased = FALSE]]
      BY <2>1, <2>2 DEF ReleaseLease, Update
    <3>2. /\ [claim[c] EXCEPT !.leased = FALSE] \in Row
          /\ [claim[c] EXCEPT !.leased = FALSE].attempt = claim[c].attempt
      BY <1>1 DEF Row
    <3> QED
      BY <1>5, <2>1, <2>2, <3>1, <3>2 DEF Ends, Owns, Owning
  <2>3. CASE ~(Current(t.msg.job) /\ claim[c].leased)
    BY <1>5, <2>1, <2>3 DEF ReleaseLease, Passes
  <2> QED
    BY <2>2, <2>3
<1>14. ~DatabaseError(t) /\ ~DeleteMessageFails(t) /\ ~DlqPublishFails(t)
  BY <1>2 DEF DatabaseError, DeleteMessageFails, DlqPublishFails
<1> QED
  BY <1>7, <1>8, <1>9, <1>10, <1>11, <1>12, <1>13, <1>14 DEF TaskStep, TaskFault

LEMMA NextOwned == ASSUME LeaseFaults, Fenced, OwnedOnce, Next PROVE OwnedOnce'
<1>1. TypeOK /\ claim \in [Claim -> Row] /\ JobsFenced
  BY DEF Fenced, TypeOK
<1>2. \A t \in tasks : /\ t.msg.job \in Jobs /\ t.msg.job.claim \in Claim
                       /\ t.msg.job.attempt \in Nat
  BY <1>1, TaskTypes DEF Jobs
<1>3. CASE claim' = claim /\ \A u \in tasks' : u \in tasks \/ u.pc \notin Owning
  BY <1>3 DEF OwnedOnce, Owns, Current
\* The attempt that starts is ahead of every message.
<1>4. ASSUME NEW r \in requests, StartAttempt(r)
      PROVE  OwnedOnce'
  <2>1. Started(r) /\ tasks' = tasks
    BY <1>4, StartedRow DEF StartAttempt
  <2>2. ASSUME NEW t \in tasks, Owns(t)'
        PROVE  t.msg.job.claim # r.claim /\ Owns(t)
    <3>1. t.msg.job.claim # r.claim
      <4>1. t.msg.job.claim = r.claim => t.msg.job.attempt <= r.attempt
        BY <1>1, <1>2, <2>1 DEF JobsFenced, Started
      <4>2. t.msg.job.claim = r.claim => t.msg.job.attempt = r.attempt + 1
        BY <2>1, <2>2 DEF Owns, Current, Started
      <4> QED
        BY <1>2, <2>1, <4>1, <4>2 DEF Started
    <3>2. claim'[t.msg.job.claim] = claim[t.msg.job.claim]
      BY <1>2, <2>1, <3>1 DEF Started
    <3> QED
      BY <2>2, <3>1, <3>2 DEF Owns, Current
  <2>3. \A t \in tasks' : Owns(t)' => claim'[t.msg.job.claim].leased
    BY <1>2, <2>1, <2>2 DEF OwnedOnce, Started
  <2> QED
    BY <2>1, <2>2, <2>3 DEF OwnedOnce
<1>5. ASSUME NEW t \in tasks, TaskStep(t) \/ TaskFault(t)
      PROVE  OwnedOnce'
  <2> DEFINE c == t.msg.job.claim
  <2>1. c \in Claim
    BY <1>2
  <2>2. ASSUME claim' = claim, t.pc \in Owning, NEW v,
               tasks' = (tasks \ {t}) \cup {v}, v.msg = t.msg
        PROVE  OwnedOnce'
    <3>1. Owns(v)' => Owns(t)
      BY <2>2 DEF Owns, Current
    <3>2. \A u \in tasks \ {t} : Owns(u)' => Owns(u)
      BY <2>2 DEF Owns, Current
    <3>3. \A u \in tasks' : u = v \/ u \in tasks \ {t}
      BY <2>2
    <3>4. \A u \in tasks' : Owns(u)' => claim'[u.msg.job.claim].leased
      BY <2>2, <3>1, <3>2, <3>3 DEF OwnedOnce
    <3>5. ASSUME NEW u \in tasks', NEW w \in tasks', Owns(u)', Owns(w)',
                 u.msg.job.claim = w.msg.job.claim
          PROVE  u = w
      BY <2>2, <3>1, <3>2, <3>3, <3>5 DEF OwnedOnce
    <3> QED
      BY <3>4, <3>5 DEF OwnedOnce
  \* Where a lease is free, nobody was at work.
  <2>3. CASE Takes(t)
    <3>1. PICK v : tasks' = (tasks \ {t}) \cup {v} /\ v.msg = t.msg
      BY <2>3 DEF Takes
    <3>2. \A u \in tasks : Owns(u) => u.msg.job.claim # c
      BY <2>3 DEF Takes, LeaseFree, OwnedOnce
    <3> DEFINE row == [claim[c] EXCEPT !.leased = TRUE]
    <3>3. /\ row.leased = TRUE /\ row.status = claim[c].status
          /\ row.attempt = claim[c].attempt /\ row.token = claim[c].token
      BY <1>1, <2>1 DEF Row
    <3>4. claim'[c] = row /\ \A d \in Claim : d # c => claim'[d] = claim[d]
      BY <1>1, <2>1, <2>3 DEF Takes
    <3> HIDE DEF row
    <3>5. ASSUME NEW u \in tasks, Owns(u)'
          PROVE  Owns(u) /\ u.msg.job.claim # c
      <4>1. Owns(u)
        <5>1. CASE u.msg.job.claim = c
          BY <3>3, <3>4, <3>5, <5>1 DEF Owns, Current
        <5>2. CASE u.msg.job.claim # c
          BY <1>2, <3>4, <3>5, <5>2 DEF Owns, Current
        <5> QED
          BY <5>1, <5>2
      <4> QED
        BY <3>2, <4>1
    <3>6. \A u \in tasks' : u = v \/ u \in tasks
      BY <3>1
    <3>7. \A u \in tasks' : Owns(u)' => claim'[u.msg.job.claim].leased
      BY <1>2, <3>1, <3>3, <3>4, <3>5, <3>6 DEF OwnedOnce
    <3>8. \A u, w \in tasks' : Owns(u)' /\ Owns(w)' /\ u.msg.job.claim = w.msg.job.claim => u = w
      BY <3>1, <3>5, <3>6 DEF OwnedOnce
    <3> QED
      BY <3>7, <3>8 DEF OwnedOnce
  \* Nobody but the owner was at work.
  <2>4. CASE Ends(t)
    <3>1. PICK row \in Row : /\ row.attempt = claim[c].attempt
                             /\ claim' = [claim EXCEPT ![c] = row]
      BY <2>4 DEF Ends
    <3>2. claim'[c] = row /\ \A d \in Claim : d # c => claim'[d] = claim[d]
      BY <1>1, <2>1, <3>1
    <3>3. Owns(t) /\ t \notin tasks' /\ \A u \in tasks' : u \in tasks \/ u.pc \notin Owning
      BY <2>4 DEF Ends
    <3>4. ASSUME NEW u \in tasks', Owns(u)'
          PROVE  u \in tasks /\ u.msg.job.claim # c /\ Owns(u)
      <4>1. u \in tasks /\ u.pc \in Owning
        BY <3>3, <3>4 DEF Owns
      <4>2. ASSUME u.msg.job.claim = c PROVE FALSE
        <5>1. u.msg.job.attempt = claim[c].attempt /\ claim[c].status = "PROCESSING"
          BY <3>1, <3>2, <3>3, <3>4, <4>2 DEF Owns, Current
        <5>2. claim[c].token = u.msg.job.token
          BY <1>1, <1>2, <4>1, <4>2, <5>1 DEF JobsFenced
        <5>3. Owns(u)
          BY <4>1, <4>2, <5>1, <5>2 DEF Owns, Current
        <5>4. u = t
          BY <3>3, <4>1, <4>2, <5>3 DEF OwnedOnce
        <5> QED
          BY <3>3, <5>4
      <4>3. claim'[u.msg.job.claim] = claim[u.msg.job.claim]
        BY <1>2, <3>2, <4>1, <4>2
      <4> QED
        BY <3>4, <4>1, <4>2, <4>3 DEF Owns, Current
    <3>5. \A u \in tasks' : Owns(u)' => claim'[u.msg.job.claim].leased
      BY <1>2, <3>2, <3>4 DEF OwnedOnce
    <3> QED
      BY <3>4, <3>5 DEF OwnedOnce
  <2> QED
    BY <1>3, <1>5, <2>2, <2>3, <2>4, OwnKinds DEF Passes
<1>6. CASE \/ \E a \in Actor, k \in Claim :
                 ReadForEnqueue(a, k) \/ ReadForRetry(a, k) \/ ReadForRecovery(a, k)
           \/ \E r \in requests : LoseRace(r) \/ AbandonRequest(r)
           \/ \E j \in outbox : Dispatch(j)
           \/ \E m \in inFlight : VisibilityTimeout(m)
           \/ \E w \in Worker, m \in queue : Receive(w, m)
  <2>1. claim' = claim
    BY <1>6 DEF ReadForEnqueue, ReadForRetry, ReadForRecovery, BeginRequest, LoseRace,
                AbandonRequest, Dispatch, VisibilityTimeout, Receive, db
  <2>2. \A u \in tasks' : u \in tasks \/ u.pc \notin Owning
    BY <1>6 DEF ReadForEnqueue, ReadForRetry, ReadForRecovery, BeginRequest, LoseRace,
                AbandonRequest, Dispatch, VisibilityTimeout, Receive, Owning
  <2> QED
    BY <1>3, <2>1, <2>2
<1> QED
  BY <1>4, <1>5, <1>6 DEF Next, Actor

Leased == Fenced /\ OwnedOnce

LEMMA SpecLeased ==
    ASSUME LeaseFaults
    PROVE  Spec => []Leased
<1>1. Init => Leased
  BY InitFenced DEF Leased, Init, OwnedOnce
<1>2. Leased /\ [Next]_vars => Leased'
  <2> SUFFICES ASSUME Leased, [Next]_vars PROVE Leased'
    OBVIOUS
  <2>1. Fenced'
    BY NextFenced DEF Leased
  <2>2. CASE Next
    BY <2>1, <2>2, NextOwned DEF Leased
  <2>3. CASE UNCHANGED vars
    BY <2>1, <2>3 DEF vars, db, Leased, OwnedOnce, Owns, Current
  <2> QED
    BY <2>2, <2>3
<1> QED
  BY <1>1, <1>2, PTL DEF Spec

\* OneExtractor: unless a database or queue call fails, two workers never extract for the
\* same attempt at once, however often its message is sent and delivered and whoever dies.
THEOREM ProcessingOneExtractor ==
    ASSUME LeaseFaults
    PROVE  Spec => []OneExtractor
<1>1. Leased => OneExtractor
  BY DEF Leased, OwnedOnce, OneExtractor, Extracting, Owns, Owning
<1> QED
  BY SpecLeased, <1>1, PTL

\* NoDuplicateWins: nor does anybody else end the attempt that a worker extracts for.
THEOREM ProcessingNoDuplicateWins ==
    ASSUME LeaseFaults
    PROVE  Spec => NoDuplicateWins
<1>1. ASSUME Leased, [Next]_vars, NEW t \in tasks, Extracting(t), t \in tasks'
      PROVE  claim'[t.msg.job.claim].status = "PROCESSING"
  <2> DEFINE c == t.msg.job.claim
  <2>1. /\ Fenced /\ OwnedOnce /\ Owns(t) /\ claim[c].status = "PROCESSING"
        /\ c \in Claim /\ claim \in [Claim -> Row] /\ claim[c] \in Row
    BY <1>1, TaskTypes DEF Leased, Extracting, Owns, Owning, Current, Fenced, TypeOK
  <2>2. CASE claim' = claim
    BY <2>1, <2>2
  <2>3. ASSUME NEW r \in requests, StartAttempt(r)
        PROVE  claim'[c].status = "PROCESSING"
    BY <2>1, <2>3, StartedRow DEF Started
  <2>4. ASSUME NEW u \in tasks, TaskStep(u) \/ TaskFault(u)
        PROVE  claim'[c].status = "PROCESSING"
    <3>1. CASE Passes(u)
      BY <2>2, <3>1 DEF Passes
    <3>2. CASE Takes(u)
      <4>1. u.msg.job.claim # c
        BY <2>1, <3>2 DEF Takes, LeaseFree, OwnedOnce
      <4> QED
        BY <2>1, <3>2, <4>1 DEF Takes
    <3>3. CASE Ends(u)
      <4>1. u.msg.job.claim # c
        BY <1>1, <2>1, <3>3 DEF Ends, OwnedOnce
      <4> QED
        BY <2>1, <3>3, <4>1 DEF Ends
    <3> QED
      BY <2>1, <2>4, <3>1, <3>2, <3>3, OwnKinds
  <2>5. CASE Next
    BY <2>2, <2>3, <2>4, <2>5, StepKinds DEF Next, Unclaimed, Fenced, ReadForEnqueue,
       ReadForRetry, ReadForRecovery, BeginRequest, LoseRace, AbandonRequest, Dispatch,
       VisibilityTimeout, Receive, db
  <2> QED
    BY <1>1, <2>2, <2>5 DEF vars, db
<1>2. Leased /\ [Next]_vars =>
         [\A t \in tasks : (Extracting(t) /\ t \in tasks') =>
             claim'[t.msg.job.claim].status = "PROCESSING"]_vars
  BY <1>1
<1> QED
  BY SpecLeased, <1>2, PTL DEF Spec, NoDuplicateWins

-----------------------------------------------------------------------------
(* The pipeline implements ClaimLifecycle.                                 *)

LEMMA LifeInit == Init => Life!Init
BY DEF Init, Life!Init

LEMMA LifeStart ==
    ASSUME Fenced, NEW r \in requests, StartAttempt(r)
    PROVE  Life!Next
<1> DEFINE c == r.claim
           row == [claim[c] EXCEPT !.status = "PROCESSING", !.attempt = r.attempt + 1,
                                   !.token = FreshToken, !.leased = FALSE]
<1>1. Started(r) /\ TypeOK /\ claim[c] \in Row /\ r.op \in {"enqueue", "retry", "recover"}
  BY StartedRow DEF Fenced, TypeOK, Request, Started
<1>2. claim' = [claim EXCEPT ![c] = row] /\ RecordTransition(c, FromStatus(r), "PROCESSING", r.attempt + 1)
  BY DEF StartAttempt, Update
<1>3. c \in Claim /\ FreshToken \in Token /\ r.attempt + 1 \in Nat /\ r.attempt = claim[c].attempt
  BY <1>1 DEF Started
<1>4. row \in Row /\ row.status = "PROCESSING" /\ row.attempt = r.attempt + 1
      /\ row.failure = claim[c].failure
  <2> HIDE DEF c
  <2> QED
    BY <1>1, <1>3 DEF Row, Status
<1>5. /\ [d \in Claim |-> claim'[d].status] = [[d \in Claim |-> claim[d].status] EXCEPT ![c] = "PROCESSING"]
      /\ [d \in Claim |-> claim'[d].attempt] = [[d \in Claim |-> claim[d].attempt] EXCEPT ![c] = claim[c].attempt + 1]
      /\ [d \in Claim |-> claim'[d].failure] = [[d \in Claim |-> claim[d].failure] EXCEPT ![c] = claim[c].failure]
      /\ events' = [events EXCEPT ![c] =
            Append(@, [from |-> claim[c].status, to |-> "PROCESSING", attempt |-> claim[c].attempt + 1])]
  <2>1. FromStatus(r) = claim[c].status
    BY <1>1 DEF StartAttempt, IsCurrent, StartIsCurrent, RecoveryIsCurrent, FromStatus
  <2> HIDE DEF row, c
  <2> QED
    BY <1>1, <1>2, <1>3, <1>4, <2>1 DEF TypeOK, RecordTransition
<1>6. \/ claim[c].status = "NEW"
      \/ claim[c].status = "ERROR" /\ claim[c].failure = "retryable"
      \/ claim[c].status = "PROCESSING"
  BY <1>1, <1>3 DEF StartAttempt, IsCurrent, StartIsCurrent, RecoveryIsCurrent, FromStatus, Fenced, RequestsFenced
<1>7. Life!Begin(c) \/ Life!Retry(c) \/ Life!Recover(c)
  <2> HIDE DEF c
  <2>1. CASE claim[c].status = "NEW"
    BY <1>3, <1>5, <2>1 DEF Life!Begin, Life!Advance
  <2>2. CASE claim[c].status = "ERROR" /\ claim[c].failure = "retryable"
    BY <1>3, <1>5, <2>2 DEF Life!Retry, Life!Advance
  <2>3. CASE claim[c].status = "PROCESSING"
    BY <1>3, <1>5, <2>3 DEF Life!Recover, Life!Advance
  <2> QED
    BY <1>6, <2>1, <2>2, <2>3
<1> QED
  BY <1>3, <1>7 DEF Life!Next

LEMMA LifeTask ==
    ASSUME TypeOK, NEW t \in tasks, TaskKind(t)
    PROVE  [Life!Next]_Life!vars
<1> DEFINE c == t.msg.job.claim
<1>1. c \in Claim /\ claim[c] \in Row /\ claim \in [Claim -> Row]
  BY TaskTypes DEF TypeOK
<1>2. CASE Unclaimed
  BY <1>2 DEF Unclaimed, Life!vars
<1>3. ASSUME NEW b \in BOOLEAN, Leases(t, b)
      PROVE  UNCHANGED Life!vars
  <2> DEFINE row == [claim[c] EXCEPT !.leased = b]
  <2>1. claim' = [claim EXCEPT ![c] = row] /\ events' = events
    BY <1>3 DEF Leases, Update
  <2>2. row.status = claim[c].status /\ row.failure = claim[c].failure
        /\ row.attempt = claim[c].attempt
    BY <1>1 DEF Row
  <2> HIDE DEF row
  <2>3. \A d \in Claim : /\ claim'[d].status = claim[d].status
                         /\ claim'[d].failure = claim[d].failure
                         /\ claim'[d].attempt = claim[d].attempt
    BY <1>1, <2>1, <2>2
  <2> QED
    BY <2>1, <2>3 DEF Life!vars
<1>4. ASSUME NEW s \in Outcome, NEW f \in Failure, Settles(t, s, f)
      PROVE  Life!Next
  <2> DEFINE row == Settled(claim[c], s, f)
  <2>1. /\ claim' = [claim EXCEPT ![c] = row] /\ RecordTransition(c, "PROCESSING", s, t.msg.job.attempt)
        /\ claim[c].status = "PROCESSING" /\ t.msg.job.attempt = claim[c].attempt
    BY <1>4 DEF Settles, Update, Current
  <2>2. row \in Row /\ row.status = s /\ row.failure = f /\ row.attempt = claim[c].attempt
    <3>1. s \in Status
      BY DEF Status
    <3> QED
      BY <1>1, <3>1, WorkerRowTypes DEF Row, Settled
  <2> HIDE DEF row
  <2>4. /\ [d \in Claim |-> claim'[d].status] = [[d \in Claim |-> claim[d].status] EXCEPT ![c] = s]
        /\ [d \in Claim |-> claim'[d].attempt] = [[d \in Claim |-> claim[d].attempt] EXCEPT ![c] = claim[c].attempt]
        /\ [d \in Claim |-> claim'[d].failure] = [[d \in Claim |-> claim[d].failure] EXCEPT ![c] = f]
        /\ events' = [events EXCEPT ![c] =
              Append(@, [from |-> claim[c].status, to |-> s, attempt |-> claim[c].attempt])]
    <3> HIDE DEF c
    <3> QED
      BY <1>1, <2>1, <2>2 DEF TypeOK, RecordTransition
  <2>5. CASE s \in {"READY", "REVIEW_REQUIRED"} /\ f = claim[c].failure
    <3> HIDE DEF c
    <3>1. Life!Succeed(c)
      BY <1>1, <2>1, <2>4, <2>5 DEF Life!Succeed, Life!Advance
    <3> QED
      BY <1>1, <3>1 DEF Life!Next
  <2>6. CASE s = "ERROR" /\ f \in {"retryable", "fatal"}
    <3> HIDE DEF c
    <3>1. Life!Fail(c)
      BY <1>1, <2>1, <2>4, <2>6 DEF Life!Fail, Life!Advance
    <3> QED
      BY <1>1, <3>1 DEF Life!Next
  <2> QED
    BY <1>4, <2>5, <2>6 DEF Settles
<1> QED
  BY <1>2, <1>3, <1>4 DEF TaskKind

LEMMA LifeNext == Fenced /\ [Next]_vars => [Life!Next]_Life!vars
<1> SUFFICES ASSUME Fenced, [Next]_vars PROVE [Life!Next]_Life!vars
  OBVIOUS
<1>1. CASE Unclaimed
  BY <1>1 DEF Unclaimed, Life!vars
<1>2. CASE Next
  BY <1>1, <1>2, StepKinds, LifeStart, LifeTask DEF Fenced
<1>3. CASE UNCHANGED vars
  BY <1>1, <1>3 DEF vars, db, Unclaimed
<1> QED
  BY <1>2, <1>3

\* Refinement: hidden behind workers, queue, leases and faults, the pipeline is
\* the life cycle that ClaimLifecycle promises.
THEOREM ProcessingImplementsLife == Spec => LifeSpec
BY LifeInit, SpecFenced, LifeNext, PTL DEF Spec, LifeSpec, Life!Spec

\* The theorems of the life cycle, read through the refinement mapping.
LifeProofs == INSTANCE ClaimLifecycleProofs WITH
    status  <- [c \in Claim |-> claim[c].status],
    attempt <- [c \in Claim |-> claim[c].attempt],
    failure <- [c \in Claim |-> claim[c].failure]

LEMMA LifeToProofs ==
    /\ Life!Init => LifeProofs!Init
    /\ [Life!Next]_Life!vars => [LifeProofs!Next]_LifeProofs!vars
    /\ LifeProofs!EventChain => EventChain
    /\ LifeProofs!SettledOnce => SettledOnce
<1>1. Life!Init => LifeProofs!Init
  BY DEF Life!Init, LifeProofs!Init
<1>2. [Life!Next]_Life!vars => [LifeProofs!Next]_LifeProofs!vars
  BY DEF Life!Next, LifeProofs!Next, Life!vars, LifeProofs!vars, Life!Begin, LifeProofs!Begin,
         Life!Retry, LifeProofs!Retry, Life!Recover, LifeProofs!Recover, Life!Succeed,
         LifeProofs!Succeed, Life!Fail, LifeProofs!Fail, Life!Advance, LifeProofs!Advance
<1>3. LifeProofs!EventChain => EventChain
  BY DEF EventChain, Life!EventChain, LifeProofs!EventChain
<1>4. LifeProofs!SettledOnce => SettledOnce
  BY DEF SettledOnce, Life!SettledOnce, LifeProofs!SettledOnce, Life!Outcome, LifeProofs!Outcome
<1> QED
  BY <1>1, <1>2, <1>3, <1>4

LEMMA ProcessingLifeProofs == Spec => LifeProofs!Spec
BY LifeInit, SpecFenced, LifeNext, LifeToProofs, PTL DEF Spec, LifeProofs!Spec

\* The audit log is an unbroken path from NEW to the status of the claim.
THEOREM ProcessingEventChain == Spec => []EventChain
BY ProcessingLifeProofs, LifeProofs!LifecycleEventChain, LifeToProofs, PTL

\* No attempt is settled twice, however often its message is delivered.
THEOREM ProcessingSettledOnce == Spec => []SettledOnce
BY ProcessingLifeProofs, LifeProofs!LifecycleSettledOnce, LifeToProofs, PTL

\* A failure that is not retryable ends the claim, whatever race a retry runs.
THEOREM ProcessingFatalIsFinal == Spec => FatalIsFinal
BY ProcessingLifeProofs, LifeProofs!LifecycleFatalIsFinal, PTL
   DEF FatalIsFinal, Life!FatalIsFinal, LifeProofs!FatalIsFinal, Life!vars, LifeProofs!vars

=============================================================================
