---------------------------- MODULE DlqRedrive ----------------------------
(***************************************************************************)
(* The recovery that docs/runbooks/retry-claims-from-dlq.md prescribes, on *)
(* top of ClaimProcessing: an operator takes a message out of the          *)
(* dead-letter queue and sends its original payload to the main queue.     *)
(***************************************************************************)
EXTENDS ClaimProcessing

\* Step 3, Option B: queueMessage of the DLQ body is sent again, as a new SQS
\* message.  (Option A moves the whole DLQ body, which parseQueueMessage refuses.)
Redrive(m) ==
    /\ m \in dlq
    /\ sent' = sent + 1
    /\ queue' = queue \cup {[id |-> sent + 1, job |-> m.job, receives |-> 0]}
    /\ dlq' = dlq \ {m}
    /\ UNCHANGED <<db, requests, issued, outbox, inFlight, tasks, faults>>

RedriveNext == Next \/ \E m \in dlq : Redrive(m)
RedriveSpec == Init /\ [][RedriveNext]_vars /\ Fairness

\* Step 4: "Confirm claim status changes from ERROR/PROCESSING to REVIEW_REQUIRED
\* or READY".  Weaker here: a claim in ERROR for a retryable reason, whose failed
\* message is back in the main queue, leaves ERROR.
RedriveRestartsClaim == \A c \in Claim :
    /\ claim[c].status = "ERROR" /\ claim[c].failure = "retryable"
    /\ \E m \in queue : m.job.claim = c /\ m.job.attempt = claim[c].attempt
    ~> claim[c].status # "ERROR"
=============================================================================
