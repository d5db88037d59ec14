--------------------------- MODULE ClaimLifecycle ---------------------------
(***************************************************************************)
(* What ClaimFlow promises about one claim, with no workers, queue, leases *)
(* or races: a claim is processed in numbered attempts, every attempt is   *)
(* settled at most once, an attempt that failed for good is never started  *)
(* again, and the audit log (ClaimEvent) is the exact path the status took. *)
(* ClaimProcessing implements this specification.  Operators who move a    *)
(* claim between its two results come on top of it in ClaimReview.         *)
(***************************************************************************)
EXTENDS Naturals, Sequences

CONSTANT Claim       \* the rows of table Claim

VARIABLES status,    \* Claim.status
          attempt,   \* Claim.processingAttempt
          failure,   \* Claim.latestWorkerFailureRetryable
          events     \* the claim's STATUS_TRANSITION rows, oldest first

vars == <<status, attempt, failure, events>>

Outcome == {"READY", "REVIEW_REQUIRED", "ERROR"}
Status == {"NEW", "PROCESSING"} \cup Outcome
Failure == {"none", "retryable", "fatal"}
Event == [from : Status, to : Status, attempt : Nat]

Init ==
    /\ status = [c \in Claim |-> "NEW"]
    /\ attempt = [c \in Claim |-> 0]
    /\ failure = [c \in Claim |-> "none"]
    /\ events = [c \in Claim |-> << >>]

\* Every status write and its ClaimEvent row are one transaction.  The row says
\* what the caller passes as fromStatus, a literal of each caller.  Real events
\* do not carry the attempt: it is recorded here so that properties can name it.
Advance(c, from, to, n, f) ==
    /\ status' = [status EXCEPT ![c] = to]
    /\ attempt' = [attempt EXCEPT ![c] = n]
    /\ failure' = [failure EXCEPT ![c] = f]
    /\ events' = [events EXCEPT ![c] =
                     Append(@, [from |-> from, to |-> to, attempt |-> n])]

\* The webhook starts the first attempt.
Begin(c) ==
    /\ status[c] = "NEW"
    /\ Advance(c, "NEW", "PROCESSING", attempt[c] + 1, failure[c])

\* An operator retries a failure that the worker reported as retryable.
Retry(c) ==
    /\ status[c] = "ERROR"
    /\ failure[c] = "retryable"
    /\ Advance(c, "ERROR", "PROCESSING", attempt[c] + 1, failure[c])

\* The watchdog or an operator abandons an attempt for a new one.
Recover(c) ==
    /\ status[c] = "PROCESSING"
    /\ Advance(c, "PROCESSING", "PROCESSING", attempt[c] + 1, failure[c])

\* A worker settles the current attempt: a result, or a reported failure.
Succeed(c) ==
    /\ status[c] = "PROCESSING"
    /\ \E s \in {"READY", "REVIEW_REQUIRED"} : Advance(c, "PROCESSING", s, attempt[c], failure[c])

Fail(c) ==
    /\ status[c] = "PROCESSING"
    /\ \E f \in {"retryable", "fatal"} : Advance(c, "PROCESSING", "ERROR", attempt[c], f)

Next == \E c \in Claim :
    Begin(c) \/ Retry(c) \/ Recover(c) \/ Succeed(c) \/ Fail(c)

Spec == Init /\ [][Next]_vars

-----------------------------------------------------------------------------

TypeOK ==
    /\ status \in [Claim -> Status]
    /\ attempt \in [Claim -> Nat]
    /\ failure \in [Claim -> Failure]
    /\ events \in [Claim -> Seq(Event)]

\* The audit log is an unbroken path from NEW to the claim's current status:
\* each event starts where the previous one ended (recordClaimStatusTransition
\* is given fromStatus by its caller, nothing in the database checks it).
EventChain == \A c \in Claim :
    LET log == events[c]
        To(i) == IF i = 0 THEN "NEW" ELSE log[i].to
    IN  /\ \A i \in 1..Len(log) : log[i].from = To(i - 1)
        /\ status[c] = To(Len(log))

\* An attempt is settled at most once: whatever happens to the claim after a
\* result or a failure was recorded belongs to a later attempt.
SettledOnce == \A c \in Claim : \A i, j \in 1..Len(events[c]) :
    (i < j /\ events[c][i].to \in Outcome) =>
        events[c][i].attempt < events[c][j].attempt

\* A failure that the worker reported as not retryable ends the claim: it is
\* never processed again (retryErroredClaim, "retry_not_allowed").
FatalIsFinal ==
    [][\A c \in Claim : (status[c] = "ERROR" /\ failure[c] = "fatal") =>
            status'[c] = "ERROR" /\ attempt'[c] = attempt[c]]_vars
=============================================================================
