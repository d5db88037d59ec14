-------------------------- MODULE ClaimProcessing --------------------------
(***************************************************************************)
(* The processing pipeline of a claim: the web app and the watchdog start  *)
(* attempts (read, then compare-and-set in a transaction that also writes  *)
(* an outbox row), the outbox is dispatched to SQS at least once, worker   *)
(* tasks receive messages, claim the processing lease, extract and settle  *)
(* the attempt, or report the failure to the dead-letter queue.            *)
(*                                                                         *)
(* One action is one database transaction or one SQS call with the local   *)
(* computation that follows it.  A worker process that handles several     *)
(* messages concurrently is several members of Worker.                     *)
(***************************************************************************)
EXTENDS Naturals, Sequences

CONSTANTS Claim,            \* the claims
          Worker,           \* message-handling slots of the worker processes
          Operator,         \* web requests: webhook enqueues, manual retries and recoveries
          Watchdog,         \* watchdog loops; {} when the watchdog is disabled (the default)
          Token,            \* processing lease tokens; a finite Token bounds the attempts
          NoToken,          \* processingLeaseToken IS NULL
          DlqConfigured,    \* config.dlqUrl is set
          MaxReceiveCount,  \* config.maxReceiveCount
          Faults,           \* the kinds of faults that may happen
          MaxFaults         \* bound: how many faults may happen in a behaviour

ASSUME TokenAssumption == NoToken \notin Token
ASSUME ConfigAssumption ==
    /\ DlqConfigured \in BOOLEAN
    /\ MaxReceiveCount \in Nat \ {0}
    /\ MaxFaults \in Nat
    /\ Faults \subseteq {"crash", "db", "sqs", "visibility", "resend"}

VARIABLES
    claim,      \* the row of each claim
    events,     \* ClaimEvent: the STATUS_TRANSITION rows of each claim, oldest first
    staleFor,   \* the actors whose staleBefore is not before the claim's updatedAt
    requests,   \* actors between their read of a claim and their transaction
    issued,     \* lease tokens generated so far
    outbox,     \* undispatched ClaimIngestQueueOutbox rows
    sent,       \* number of SQS messages sent: the last SQS message id
    queue,      \* visible messages of the main queue
    inFlight,   \* received messages whose visibility timeout is running
    dlq,        \* messages published to the dead-letter queue
    tasks,      \* messages being handled by workers
    faults      \* number of faults so far

db == <<claim, events, staleFor>>
sqs == <<sent, queue, inFlight, dlq>>
vars == <<db, requests, issued, outbox, sqs, tasks, faults>>

Actor == Operator \cup Watchdog
Outcome == {"READY", "REVIEW_REQUIRED", "ERROR"}
Status == {"NEW", "PROCESSING"} \cup Outcome
Failure == {"none", "retryable", "fatal"}

\* The columns of Claim that processing reads and writes: processingAttempt,
\* processingLeaseToken, processingLeaseClaimedAt (leased: it is not null) and
\* latestWorkerFailureRetryable.
Row == [status : Status, attempt : Nat, token : Token \cup {NoToken},
        leased : BOOLEAN, failure : Failure]
Event == [from : Status, to : Status, attempt : Nat]
Request == [by : Actor, op : {"enqueue", "retry", "recover"}, claim : Claim, attempt : Nat]
\* An outbox row and the body of its message (ClaimIngestQueueMessageV3).
Job == [claim : Claim, attempt : Nat, token : Token]
Message == [id : Nat, job : Job, receives : Nat]
\* Where a handler stands: before reading the claim, before claiming the lease,
\* extracting, before deleting the message; or, after an error, before the
\* disposition, before markClaimAsError, before deleting the failed message.
Pc == {"reading", "claiming", "extracting", "deleting", "failing", "marking", "dropping"}
Task == [worker : Worker, msg : Message, pc : Pc, retryable : BOOLEAN]

Init ==
    /\ claim = [c \in Claim |-> [status |-> "NEW", attempt |-> 0, token |-> NoToken,
                                 leased |-> FALSE, failure |-> "none"]]
    /\ events = [c \in Claim |-> << >>]
    /\ staleFor = [c \in Claim |-> {}]
    /\ requests = {} /\ issued = {} /\ outbox = {}
    /\ sent = 0 /\ queue = {} /\ inFlight = {} /\ dlq = {}
    /\ tasks = {} /\ faults = 0

Fault(kind) ==
    /\ kind \in Faults
    /\ faults < MaxFaults
    /\ faults' = faults + 1

\* A write of a claim's row.  Every write moves updatedAt (Prisma's @updatedAt),
\* past the staleBefore of whoever read the row earlier.
Update(c, row) ==
    /\ claim' = [claim EXCEPT ![c] = row]
    /\ staleFor' = [staleFor EXCEPT ![c] = {}]

\* The ClaimEvent row of the same transaction: what the caller passes as the status
\* that the claim comes from (the attempt is ours, see ClaimLifecycle).
RecordTransition(c, from, to, n) ==
    events' = [events EXCEPT ![c] =
                  Append(@, [from |-> from, to |-> to, attempt |-> n])]

-----------------------------------------------------------------------------
(* Starting attempts: web app and watchdog.                                *)

Idle(a) == \A r \in requests : r.by # a

BeginRequest(a, op, c) ==
    /\ Idle(a)
    /\ requests' = requests \cup {[by |-> a, op |-> op, claim |-> c, attempt |-> claim[c].attempt]}
    /\ UNCHANGED <<claim, events, issued, outbox, sqs, tasks, faults>>

\* maybeEnqueueClaimForProcessing, up to its transaction.
ReadForEnqueue(a, c) ==
    /\ claim[c].status = "NEW"
    /\ BeginRequest(a, "enqueue", c)
    /\ UNCHANGED staleFor

\* Mutant: the failure snapshot is not looked at.
ReadForRetryOfAnyFailure(a, c) ==
    /\ claim[c].status = "ERROR"
    /\ BeginRequest(a, "retry", c)
    /\ UNCHANGED staleFor

\* retryErroredClaim, up to its transaction.
ReadForRetry(a, c) ==
    /\ claim[c].status = "ERROR"
    /\ claim[c].failure = "retryable"
    /\ BeginRequest(a, "retry", c)
    /\ UNCHANGED staleFor

\* recoverStaleProcessingClaim and the watchdog's scan, up to their transaction:
\* any PROCESSING row may have been left untouched for longer than
\* processingStaleMinutes, whatever its worker is doing.
ReadForRecovery(a, c) ==
    /\ claim[c].status = "PROCESSING"
    /\ BeginRequest(a, "recover", c)
    /\ staleFor' = [staleFor EXCEPT ![c] = @ \cup {a}]

\* The literal that each caller passes as the status it starts from: the start
\* compares it with the row and writes it into the event, the recovery has a
\* literal of its own in each place.
FromStatus(r) ==
    CASE r.op = "enqueue" -> "NEW" [] r.op = "retry" -> "ERROR" [] r.op = "recover" -> "PROCESSING"

\* Mutants: the update compares the status only; the recovery does not compare the
\* status; the recovery spares claims whose lease is claimed.
StartIsCurrentByStatus(r) == claim[r.claim].status = FromStatus(r)
RecoveryIsCurrentByAttempt(r) == claim[r.claim].attempt = r.attempt
RecoveryIsCurrentIfUnleased(r) ==
    /\ claim[r.claim].status = "PROCESSING" /\ ~claim[r.claim].leased
    /\ claim[r.claim].attempt = r.attempt
    /\ r.by \in staleFor[r.claim]

\* The WHERE clauses of the two compare-and-set updates.
StartIsCurrent(r) ==
    /\ claim[r.claim].status = FromStatus(r)
    /\ claim[r.claim].attempt = r.attempt
RecoveryIsCurrent(r) ==
    /\ claim[r.claim].status = "PROCESSING"
    /\ claim[r.claim].attempt = r.attempt
    /\ r.by \in staleFor[r.claim]
IsCurrent(r) == IF r.op = "recover" THEN RecoveryIsCurrent(r) ELSE StartIsCurrent(r)

\* Mutant: no token is generated.
MissingToken == NoToken

\* A randomUUID().
FreshToken == CHOOSE t \in Token : t \notin issued

\* Mutant: the caller adds one to the attempt that it was given.
NewJobAhead(c, n) == [claim |-> c, attempt |-> n + 1, token |-> FreshToken]

NewJob(c, n) == [claim |-> c, attempt |-> n, token |-> FreshToken]

\* The transaction: the claim moves to its next attempt under a new token and
\* nobody's lease, its event is recorded and the outbox row of the attempt is
\* created (createClaimIngestQueueOutboxEntry).
StartAttempt(r) ==
    /\ r \in requests
    /\ IsCurrent(r)
    /\ Token \ issued # {}
    /\ LET c == r.claim
           n == r.attempt + 1
       IN  /\ Update(c, [claim[c] EXCEPT !.status = "PROCESSING", !.attempt = n,
                                         !.token = FreshToken, !.leased = FALSE])
           /\ RecordTransition(c, FromStatus(r), "PROCESSING", n)
           /\ outbox' = outbox \cup {NewJob(c, n)}
    /\ issued' = issued \cup {FreshToken}
    /\ requests' = requests \ {r}
    /\ UNCHANGED <<sqs, tasks, faults>>

\* The update matched no row: somebody else was faster ("retried", "recovered",
\* null or "not allowed" is answered, and nothing is written).
LoseRace(r) ==
    /\ r \in requests
    /\ ~IsCurrent(r)
    /\ requests' = requests \ {r}
    /\ UNCHANGED <<db, issued, outbox, sqs, tasks, faults>>

\* The web request or the worker process dies, or the transaction rolls back.
AbandonRequest(r) ==
    /\ r \in requests
    /\ Fault("crash")
    /\ requests' = requests \ {r}
    /\ UNCHANGED <<db, issued, outbox, sqs, tasks>>

-----------------------------------------------------------------------------
(* Outbox and queue.                                                       *)

\* A row is sent by whoever created it or by a worker's sweep, and is marked as
\* dispatched; a crash, an error of the mark or a lost dispatch lease leaves it
\* pending, to be sent once more.  A failed send changes nothing here.
Dispatch(j) ==
    /\ j \in outbox
    /\ sent' = sent + 1
    /\ queue' = queue \cup {[id |-> sent + 1, job |-> j, receives |-> 0]}
    /\ \/ outbox' = outbox \ {j} /\ UNCHANGED faults
       \/ Fault("resend") /\ UNCHANGED outbox
    /\ UNCHANGED <<db, requests, issued, inFlight, dlq, tasks>>

Held(m) == \E t \in tasks : t.msg = m

\* SQS shows a received message again when its visibility timeout runs out: the
\* rule for a message nobody works on any more, a fault (the extension of
\* runWithVisibilityExtension was off, late or failed) while somebody does.
VisibilityTimeout(m) ==
    /\ m \in inFlight
    /\ IF Held(m) THEN Fault("visibility") ELSE UNCHANGED faults
    /\ inFlight' = inFlight \ {m}
    /\ queue' = queue \cup {m}
    /\ UNCHANGED <<db, requests, issued, outbox, sent, dlq, tasks>>

\* ReceiveMessage and the dispatch of the message to a handler.  The count of
\* receives is compared with MaxReceiveCount only, so it stops there.
Receive(w, m) ==
    LET received == [m EXCEPT !.receives = IF @ < MaxReceiveCount THEN @ + 1 ELSE @]
    IN  /\ m \in queue
        /\ \A t \in tasks : t.worker # w
        /\ queue' = queue \ {m}
        /\ inFlight' = inFlight \cup {received}
        /\ tasks' = tasks \cup {[worker |-> w, msg |-> received, pc |-> "reading",
                                 retryable |-> TRUE]}
        /\ UNCHANGED <<db, requests, issued, outbox, sent, dlq, faults>>

\* DeleteMessage removes the message, even if it is visible or received again.
DeleteFromQueue(id) ==
    /\ queue' = {m \in queue : m.id # id}
    /\ inFlight' = {m \in inFlight : m.id # id}

-----------------------------------------------------------------------------
(* Worker: handleClaimQueueMessage and processClaimIngestJob.              *)

GoTo(t, pc) == tasks' = (tasks \ {t}) \cup {[t EXCEPT !.pc = pc]}
Throw(t, retryable) ==
    tasks' = (tasks \ {t}) \cup {[t EXCEPT !.pc = "failing", !.retryable = retryable]}
Finish(t) == tasks' = tasks \ {t}

\* The answer to a database write: lost (the write happened, the caller sees an
\* error, which is retryable), or received.
Answer(t, pc) == \/ GoTo(t, pc) /\ UNCHANGED faults
                 \/ Fault("db") /\ Throw(t, TRUE)

\* Mutants: neither attempt nor token is compared; only the attempt is.
CurrentByStatus(j) == claim[j.claim].status = "PROCESSING"
CurrentByAttempt(j) == claim[j.claim].attempt = j.attempt

\* The WHERE clause shared by the worker's updates of the claim.
Current(j) ==
    /\ claim[j.claim].status = "PROCESSING"
    /\ claim[j.claim].attempt = j.attempt
    /\ claim[j.claim].token = j.token

\* Mutant: a claimed lease does not keep other workers away.
LeaseIgnored(j) == Current(j)

LeaseFree(j) == Current(j) /\ ~claim[j.claim].leased

\* Mutant: the lease outlives the attempt.
SettledKeepingLease(row, status, failure) ==
    [row EXCEPT !.status = status, !.token = NoToken, !.failure = failure]

\* The columns with which a worker settles an attempt.
Settled(row, status, failure) ==
    [row EXCEPT !.status = status, !.token = NoToken, !.leased = FALSE, !.failure = failure]

\* The claim has not reached the state in which this message can be sent.
FailsClosed(row, j) ==
    /\ row.status \notin {"READY", "REVIEW_REQUIRED"}
    /\ row.attempt <= j.attempt
    /\ row.status = "NEW" \/ row.attempt < j.attempt

\* The read at the start of processClaimIngestJob: claim the lease if the
\* message is that of the current attempt and the lease is free, give the
\* message up as an error if the claim is behind it, else drop it as done.
ReadClaim(t) ==
    LET j == t.msg.job
    IN  /\ t.pc = "reading"
        /\ IF FailsClosed(claim[j.claim], j)
           THEN Throw(t, FALSE)
           ELSE GoTo(t, IF LeaseFree(j) THEN "claiming" ELSE "deleting")
        /\ UNCHANGED <<db, requests, issued, outbox, sqs, faults>>

\* claimProcessingLeaseClaimedByWorker
ClaimLease(t) ==
    LET j == t.msg.job
    IN  /\ t.pc = "claiming"
        /\ \/ /\ LeaseFree(j)
              /\ Update(j.claim, [claim[j.claim] EXCEPT !.leased = TRUE])
              /\ Answer(t, "extracting")
           \/ /\ ~LeaseFree(j)
              /\ GoTo(t, "deleting")
              /\ UNCHANGED <<claim, staleFor, faults>>
        /\ UNCHANGED <<events, requests, issued, outbox, sqs>>

\* The extraction ends with an outcome and persistClaimExtractionOutcome writes
\* it, with the ClaimExtraction row and the event, if the attempt is still
\* current: it does not ask who holds the lease.  Otherwise nothing is written
\* and the job counts as done.
PersistOutcome(t) ==
    LET j == t.msg.job
    IN  /\ t.pc = "extracting"
        /\ \/ /\ Current(j)
              /\ \E s \in {"READY", "REVIEW_REQUIRED"} :
                    /\ Update(j.claim, Settled(claim[j.claim], s, claim[j.claim].failure))
                    /\ RecordTransition(j.claim, "PROCESSING", s, j.attempt)
              /\ Answer(t, "deleting")
           \/ /\ ~Current(j)
              /\ GoTo(t, "deleting")
              /\ UNCHANGED <<db, faults>>
        /\ UNCHANGED <<requests, issued, outbox, sqs>>

\* Extraction (settings, model, Textract) throws, with or without hope for a retry.
ExtractionFails(t) ==
    /\ t.pc = "extracting"
    /\ \E retryable \in BOOLEAN : Throw(t, retryable)
    /\ UNCHANGED <<db, requests, issued, outbox, sqs, faults>>

\* A read or a write of the claim fails and changes nothing.
DatabaseError(t) ==
    /\ t.pc \in {"reading", "claiming", "extracting"}
    /\ Fault("db")
    /\ Throw(t, TRUE)
    /\ UNCHANGED <<db, requests, issued, outbox, sqs>>

\* The job is done: delete its message.
DeleteMessage(t) ==
    /\ t.pc = "deleting"
    /\ DeleteFromQueue(t.msg.id)
    /\ Finish(t)
    /\ UNCHANGED <<db, requests, issued, outbox, sent, dlq, faults>>

\* DeleteMessage throws inside the try block of handleClaimQueueMessage (whether
\* or not SQS deleted the message): the finished job is handled as a failure.
DeleteMessageFails(t) ==
    /\ t.pc = "deleting"
    /\ Fault("sqs")
    /\ Throw(t, TRUE)
    /\ DeleteFromQueue(t.msg.id) \/ UNCHANGED <<queue, inFlight>>
    /\ UNCHANGED <<db, requests, issued, outbox, sent, dlq>>

-----------------------------------------------------------------------------
(* Worker: handleQueueProcessingFailure.                                   *)

ShouldMoveToDlq(t) ==
    DlqConfigured /\ (~t.retryable \/ t.msg.receives >= MaxReceiveCount)

MoveToDlq(t) ==
    /\ t.pc = "failing"
    /\ ShouldMoveToDlq(t)
    /\ dlq' = dlq \cup {t.msg}
    /\ GoTo(t, "marking")
    /\ UNCHANGED <<db, requests, issued, outbox, sent, queue, inFlight, faults>>

\* Mutant: a failure that is not retryable is marked before its message is published.
ReadyToMarkEarly(t) == t.pc = "marking" \/ (t.pc = "failing" /\ ~t.retryable)

\* After the message reached the DLQ, or at once if there is no DLQ and the
\* failure is not retryable.
ReadyToMark(t) ==
    t.pc = "marking" \/ (t.pc = "failing" /\ ~t.retryable /\ ~DlqConfigured)

\* markClaimAsError
MarkClaimAsError(t) ==
    LET j == t.msg.job
    IN  /\ ReadyToMark(t)
        /\ IF Current(j)
           THEN /\ Update(j.claim, Settled(claim[j.claim], "ERROR",
                                           IF t.retryable THEN "retryable" ELSE "fatal"))
                /\ RecordTransition(j.claim, "PROCESSING", "ERROR", j.attempt)
           ELSE UNCHANGED db
        /\ GoTo(t, "dropping")
        /\ UNCHANGED <<requests, issued, outbox, sqs, faults>>

DropMessage(t) ==
    /\ t.pc = "dropping"
    /\ DeleteFromQueue(t.msg.id)
    /\ Finish(t)
    /\ UNCHANGED <<db, requests, issued, outbox, sent, dlq, faults>>

\* The rest of the failures: the lease is released (releaseClaimProcessingLease,
\* whoever claimed it) and the message left to become visible again.
ReleaseLease(t) ==
    LET j == t.msg.job
    IN  /\ IF Current(j) /\ claim[j.claim].leased
           THEN Update(j.claim, [claim[j.claim] EXCEPT !.leased = FALSE])
           ELSE UNCHANGED <<claim, staleFor>>
        /\ Finish(t)
        /\ UNCHANGED <<events, requests, issued, outbox>>

RetryLater(t) ==
    /\ t.pc = "failing"
    /\ ~ShouldMoveToDlq(t)
    /\ t.retryable \/ DlqConfigured
    /\ ReleaseLease(t)
    /\ UNCHANGED <<sqs, faults>>

\* The publication to the DLQ throws, with or without effect, and the failure is
\* left for another delivery, even if it is not retryable.
DlqPublishFails(t) ==
    /\ t.pc = "failing"
    /\ ShouldMoveToDlq(t)
    /\ Fault("sqs")
    /\ dlq' \in {dlq, dlq \cup {t.msg}}
    /\ ReleaseLease(t)
    /\ UNCHANGED <<sent, queue, inFlight>>

\* The worker process dies (or stops before handling the message): at any point,
\* and when releaseClaimProcessingLease, markClaimAsError or the last delete
\* throws (only the first is caught; the others end runWorkerLoop).  The message
\* stays in flight, the claim and its lease as they are.
WorkerDies(t) ==
    /\ t \in tasks
    /\ Fault("crash")
    /\ Finish(t)
    /\ UNCHANGED <<db, requests, issued, outbox, sqs>>

TaskStep(t) ==
    \/ ReadClaim(t) \/ ClaimLease(t) \/ PersistOutcome(t) \/ ExtractionFails(t)
    \/ DeleteMessage(t) \/ MoveToDlq(t) \/ MarkClaimAsError(t) \/ DropMessage(t)
    \/ RetryLater(t)

TaskFault(t) ==
    DatabaseError(t) \/ DeleteMessageFails(t) \/ DlqPublishFails(t) \/ WorkerDies(t)

Next ==
    \/ \E a \in Operator, c \in Claim : ReadForEnqueue(a, c) \/ ReadForRetry(a, c)
    \/ \E a \in Actor, c \in Claim : ReadForRecovery(a, c)
    \/ \E r \in requests : StartAttempt(r) \/ LoseRace(r) \/ AbandonRequest(r)
    \/ \E j \in outbox : Dispatch(j)
    \/ \E m \in inFlight : VisibilityTimeout(m)
    \/ \E w \in Worker, m \in queue : Receive(w, m)
    \/ \E t \in tasks : TaskStep(t) \/ TaskFault(t)

Spec == Init /\ [][Next]_vars

\* The worker loop dispatches the outbox, polls the queue and finishes what it
\* received; SQS shows abandoned messages again; the watchdog, if there is one,
\* runs at every interval.  Web requests and operators are under no obligation.
Fairness ==
    /\ WF_vars(\E j \in outbox : Dispatch(j))
    /\ WF_vars(\E m \in inFlight : ~Held(m) /\ VisibilityTimeout(m))
    /\ \A w \in Worker :
          /\ WF_vars(\E m \in queue : Receive(w, m))
          /\ WF_vars(\E t \in tasks : t.worker = w /\ TaskStep(t))
    /\ \A a \in Watchdog :
          /\ WF_vars(\E c \in Claim : ReadForRecovery(a, c))
          /\ WF_vars(\E r \in requests : r.by = a /\ (StartAttempt(r) \/ LoseRace(r)))

FairSpec == Spec /\ Fairness

-----------------------------------------------------------------------------

TypeOK ==
    /\ claim \in [Claim -> Row]
    /\ events \in [Claim -> Seq(Event)]
    /\ staleFor \in [Claim -> SUBSET Actor]
    /\ requests \subseteq Request
    /\ issued \subseteq Token
    /\ outbox \subseteq Job
    /\ sent \in Nat
    /\ queue \subseteq Message /\ inFlight \subseteq Message /\ dlq \subseteq Message
    /\ tasks \subseteq Task
    /\ faults \in Nat

\* The columns of a row agree with its status.  Six handlers write them, each
\* its own subset: an attempt has a token exactly while it is being processed, a
\* lease is claimed only then, an ERROR row knows whether it may be retried.
RowConsistent == \A c \in Claim :
    /\ claim[c].status = "NEW" <=> claim[c].attempt = 0
    /\ claim[c].status = "PROCESSING" <=> claim[c].token # NoToken
    /\ claim[c].leased => claim[c].status = "PROCESSING"
    /\ claim[c].status = "ERROR" => claim[c].failure # "none"
    /\ claim[c].token \in issued \cup {NoToken}

\* Every message body that exists anywhere.
Jobs == outbox \cup {m.job : m \in queue \cup inFlight \cup dlq} \cup {t.msg.job : t \in tasks}

\* No message, however old, duplicated or redelivered, is ahead of its claim, and
\* one that belongs to the current attempt carries its token.  So the two
\* fail-closed errors of processClaimIngestJob ("is still NEW", "has not advanced
\* to processing attempt") and its token comparison are never the ones that
\* decide, because attempt and outbox row are one transaction.
JobsFenced == \A j \in Jobs :
    /\ ~FailsClosed(claim[j.claim], j)
    /\ 0 < j.attempt /\ j.attempt <= claim[j.claim].attempt
    /\ j.token \in issued
    /\ (claim[j.claim].status = "PROCESSING" /\ claim[j.claim].attempt = j.attempt) =>
            claim[j.claim].token = j.token

\* Whatever made retryErroredClaim believe that a claim may be retried still holds
\* when its transaction commits, although the transaction does not check it.
RetryStillAllowed == \A r \in requests :
    (r.op = "retry" /\ StartIsCurrent(r)) => claim[r.claim].failure = "retryable"

\* A claim is in ERROR only if the message of the failed attempt can be found in
\* the dead-letter queue (handleQueueProcessingFailure publishes before it marks).
ErrorHasDlqEvidence == DlqConfigured =>
    \A c \in Claim : claim[c].status = "ERROR" =>
        \E m \in dlq : m.job.claim = c /\ m.job.attempt = claim[c].attempt

\* Without a dead-letter queue no failure is ever recorded as retryable: such a
\* job is redelivered again and again, and the dashboard has nothing to retry.
RetryNeedsDlq == ~DlqConfigured => \A c \in Claim : claim[c].failure # "retryable"

\* A worker whose attempt was superseded by a retry or a recovery never changes
\* the claim again, at whatever point of its work it was ("processing attempts
\* and lease tokens to avoid stale writes", README).
SupersededNeverWrites ==
    [][\A t \in tasks : LET c == t.msg.job.claim IN
         (t.msg.job.attempt < claim[c].attempt /\ t \notin tasks') =>
             claim'[c] = claim[c] /\ events'[c] = events[c]]_vars

\* While a worker extracts for the current attempt, nobody else settles that
\* attempt: the claim leaves PROCESSING only by this worker's own step.
Extracting(t) == t.pc = "extracting" /\ Current(t.msg.job)
NoDuplicateWins ==
    [][\A t \in tasks : (Extracting(t) /\ t \in tasks') =>
         claim'[t.msg.job.claim].status = "PROCESSING"]_vars

\* The lease's purpose: two workers never extract for the same attempt at once.
OneExtractor == \A t, u \in tasks :
    (Extracting(t) /\ Extracting(u) /\ t.msg.job = u.msg.job) => t = u

\* "The claim lands in READY, REVIEW_REQUIRED, or ERROR" (README, Core Flow 4),
\* whatever crashed or was delivered twice before, provided the watchdog runs and
\* can start one more attempt, and nothing else goes wrong.  Also when it starts
\* that attempt too early, under a worker that is not stuck at all.
ClaimLands == \A c \in Claim, n \in 0..MaxFaults :
    (claim[c].status = "PROCESSING" /\ issued # Token /\ faults = n)
        ~> (claim[c].status \in Outcome \/ faults > n)

-----------------------------------------------------------------------------
(* The pipeline implements the promise: with the bookkeeping hidden, every *)
(* step is one of ClaimLifecycle or changes nothing there.                 *)

Life == INSTANCE ClaimLifecycle WITH
    status  <- [c \in Claim |-> claim[c].status],
    attempt <- [c \in Claim |-> claim[c].attempt],
    failure <- [c \in Claim |-> claim[c].failure]

LifeSpec == Life!Spec
EventChain == Life!EventChain
SettledOnce == Life!SettledOnce
FatalIsFinal == Life!FatalIsFinal
=============================================================================
