--------------------------- MODULE InboundWebhook ---------------------------
(***************************************************************************)
(* The Postmark webhook: a delivery creates the message and its claim,     *)
(* uploads the attachments, records them and starts the first attempt.     *)
(* Postmark delivers again what was not answered with 200, and sometimes   *)
(* what was: a delivery that finds its message stored only makes sure that *)
(* the claim is started.  Each step of a request is one call of the        *)
(* database or of S3; requests run concurrently, fail and die.  A request  *)
(* that finds no queue configured leaves its claim NEW, and is answered.   *)
(***************************************************************************)
EXTENDS Naturals, FiniteSets

CONSTANTS Request,       \* deliveries; each is one run of the handler
          Message,       \* providerMessageIds
          Attachment,    \* the attachments that every message carries
          MaxFaults      \* bound: how many faults may happen in a behaviour

ASSUME BoundAssumption == MaxFaults \in Nat
ASSUME MessageAssumption == Message # {}

VARIABLES
    inbound,    \* messages stored; InboundMessage and Claim are created together
    claim,      \* status and processingAttempt of the claim of each message
    objects,    \* attachments in S3
    rows,       \* ClaimAttachment rows, by uploadStatus (a repeated row counts once)
    requests,   \* the state of each request
    acked,      \* requests that Postmark has got a 200 for
    unqueued,   \* requests that found no queue configured (kept for the properties)
    read,       \* claims whose attachments the worker has read
    found,      \* the stored attachments that it has found
    faults

vars == <<inbound, claim, objects, rows, requests, acked, unqueued, read, found, faults>>

\* Where a request stands: before creating the message, before reading what exists,
\* uploading, before the rows of failed and of stored attachments, before the read
\* and before the transaction of maybeEnqueueClaimForProcessing, before the answer.
Pc == {"idle", "creating", "finding", "uploading", "failedRows", "storedRows",
       "enqueueing", "scheduling", "answering", "done"}

Init ==
    /\ inbound = {}
    /\ claim = [m \in Message |-> [status |-> "NEW", attempt |-> 0]]
    /\ objects = {}
    /\ rows = [STORED |-> {}, FAILED |-> {}]
    /\ requests = [h \in Request |-> [pc |-> "idle", msg |-> CHOOSE m \in Message : TRUE,
                                      creator |-> FALSE, stored |-> {}, failed |-> {},
                                      attempt |-> 0]]
    /\ acked = {} /\ unqueued = {}
    /\ read = {} /\ found = {}
    /\ faults = 0

Fault == faults < MaxFaults /\ faults' = faults + 1

At(h, pc) == requests[h].pc = pc
Msg(h) == requests[h].msg
GoTo(h, pc) == requests' = [requests EXCEPT ![h].pc = pc]

\* Postmark calls (external), and the request is refused by the rate limit, the address
\* or signature check, or because no organization has its mailbox: it is not acknowledged.
Reject(h) ==
    /\ At(h, "idle")
    /\ GoTo(h, "done")
    /\ UNCHANGED <<inbound, claim, objects, rows, acked, unqueued, read, found, faults>>

\* The request passes its checks: nothing is written before the message is created.
Deliver(h, m) ==
    /\ At(h, "idle")
    /\ requests' = [requests EXCEPT ![h].pc = "creating", ![h].msg = m]
    /\ UNCHANGED <<inbound, claim, objects, rows, acked, unqueued, read, found, faults>>

\* applyAttachmentPolicy refuses all attachments when they are too large in total, else
\* those beyond the count, too large themselves or of another type: any set of them.
Refusable == SUBSET Attachment

\* inboundMessage.create with its nested claim, or a unique constraint violation.
CreateMessage(h) ==
    LET m == Msg(h)
    IN  /\ At(h, "creating")
        /\ IF m \in inbound
           THEN GoTo(h, "finding") /\ UNCHANGED inbound
           ELSE /\ inbound' = inbound \cup {m}
                /\ \E refused \in Refusable :
                       requests' = [requests EXCEPT ![h].pc = "uploading", ![h].creator = TRUE,
                                                    ![h].failed = refused]
        /\ UNCHANGED <<claim, objects, rows, acked, unqueued, read, found, faults>>

\* Mutant: a known message is only acknowledged.
ShouldEnqueueNever(m) == FALSE

ShouldEnqueue(m) == claim[m].status = "NEW"

\* respondForExistingInboundMessage
FindExisting(h) ==
    /\ At(h, "finding")
    /\ GoTo(h, IF ShouldEnqueue(Msg(h)) THEN "enqueueing" ELSE "answering")
    /\ UNCHANGED <<inbound, claim, objects, rows, acked, unqueued, read, found, faults>>

\* The attachments that prepareAttachmentPersistence has still to do, in any order.
Unprepared(h) == Attachment \ (requests[h].stored \cup requests[h].failed)

\* An attachment is no base64, is too large once decoded, or is quarantined: the scanner
\* says so, fails, or is required and not configured.
Quarantine(h, a) ==
    /\ At(h, "uploading")
    /\ a \in Unprepared(h)
    /\ requests' = [requests EXCEPT ![h].failed = @ \cup {a}]
    /\ UNCHANGED <<inbound, claim, objects, rows, acked, unqueued, read, found, faults>>

\* An attachment is uploaded, or its upload fails (and may have stored it).
Upload(h, a) ==
    /\ At(h, "uploading")
    /\ a \in Unprepared(h)
    /\ \/ /\ objects' = objects \cup {<<Msg(h), a>>}
          /\ requests' = [requests EXCEPT ![h].stored = @ \cup {a}]
       \/ /\ objects' \in {objects, objects \cup {<<Msg(h), a>>}}
          /\ requests' = [requests EXCEPT ![h].failed = @ \cup {a}]
    /\ UNCHANGED <<inbound, claim, rows, acked, unqueued, read, found, faults>>

\* Mutant: the attempt is started before the rows are written.
PreparedAtOnce(h) == TRUE

Prepared(h) == Unprepared(h) = {}
StoredRows(h) == requests[h].stored

FinishUploads(h) ==
    /\ At(h, "uploading")
    /\ Prepared(h)
    /\ GoTo(h, "failedRows")
    /\ UNCHANGED <<inbound, claim, objects, rows, acked, unqueued, read, found, faults>>

Record(m, stored, failed) ==
    rows' = [STORED |-> rows.STORED \cup ({m} \X stored),
             FAILED |-> rows.FAILED \cup ({m} \X failed)]

FailedRows(h) == requests[h].failed

\* persistFailedAttachmentRows: createMany or, if it throws, a create for each row; if
\* one of them throws too, the request fails with some of the rows written.
RecordFailed(h) ==
    /\ At(h, "failedRows")
    /\ \/ Record(Msg(h), {}, FailedRows(h)) /\ GoTo(h, "storedRows") /\ UNCHANGED faults
       \/ /\ Fault
          /\ \E some \in SUBSET FailedRows(h) : Record(Msg(h), {}, some)
          /\ GoTo(h, "done")
    /\ UNCHANGED <<inbound, claim, objects, acked, unqueued, read, found>>

\* persistStoredAttachmentRows: when createMany throws, which may have written its
\* rows, each row is created by itself, or else recorded as FAILED (its object
\* stays in S3); if that throws too, the request fails.
RecordStored(h) ==
    /\ At(h, "storedRows")
    /\ \/ Record(Msg(h), StoredRows(h), {}) /\ GoTo(h, "enqueueing") /\ UNCHANGED faults
       \/ \E stored, failed \in SUBSET StoredRows(h), pc \in {"enqueueing", "done"} :
             /\ Fault
             /\ pc = "enqueueing" => stored \cup failed = StoredRows(h)
             /\ Record(Msg(h), stored, failed)
             /\ GoTo(h, pc)
    /\ UNCHANGED <<inbound, claim, objects, acked, unqueued, read, found>>

\* maybeEnqueueClaimForProcessing, up to its transaction: it returns without a read
\* when no queue is configured, which the handler does not tell from the rest.
ReadForEnqueue(h) ==
    LET row == claim[Msg(h)]
    IN  /\ At(h, "enqueueing")
        /\ \/ /\ GoTo(h, "answering")
              /\ unqueued' = unqueued \cup {h}
           \/ /\ requests' = [requests EXCEPT
                                  ![h].pc = IF row.status = "NEW" THEN "scheduling"
                                            ELSE "answering",
                                  ![h].attempt = row.attempt]
              /\ UNCHANGED unqueued
        /\ UNCHANGED <<inbound, claim, objects, rows, acked, read, found, faults>>

\* Mutant: the update compares nothing.
IsCurrentUnchecked(h) == TRUE

\* The WHERE clause of startClaimProcessingAttemptIfCurrent.
IsCurrent(h) == claim[Msg(h)] = [status |-> "NEW", attempt |-> requests[h].attempt]

\* The transaction: the attempt and its outbox row, or nothing.
Schedule(h) ==
    /\ At(h, "scheduling")
    /\ claim' = IF IsCurrent(h)
                THEN [claim EXCEPT ![Msg(h)] = [status |-> "PROCESSING", attempt |-> @.attempt + 1]]
                ELSE claim
    /\ GoTo(h, "answering")
    /\ UNCHANGED <<inbound, objects, rows, acked, unqueued, read, found, faults>>

\* 200.  (The dispatch of the outbox row, before it, is that of OutboxDispatch.)
Answer(h) ==
    /\ At(h, "answering")
    /\ GoTo(h, "done")
    /\ acked' = acked \cup {h}
    /\ UNCHANGED <<inbound, claim, objects, rows, unqueued, read, found, faults>>

\* A call throws, with its effect undone or not yet begun, or the process dies: a
\* 500, or no answer at all.  Also after the transaction, when the dispatch throws.
Fail(h) ==
    /\ ~At(h, "idle") /\ ~At(h, "done")
    /\ Fault
    /\ GoTo(h, "done")
    /\ UNCHANGED <<inbound, claim, objects, rows, acked, unqueued, read, found>>

\* processClaimIngestJob, once the attempt is started, reads the stored attachments
\* that are not deleted, for the Textract fallback.
Extract(m, deleted) ==
    /\ claim[m].status = "PROCESSING"
    /\ m \notin read
    /\ read' = read \cup {m}
    /\ found' = found \cup {x \in rows.STORED \ deleted : x[1] = m}
    /\ UNCHANGED <<inbound, claim, objects, rows, requests, acked, unqueued, faults>>

Webhook ==
    \/ \E h \in Request, m \in Message : Deliver(h, m)
    \/ \E h \in Request :
         \/ Reject(h) \/ CreateMessage(h) \/ FindExisting(h) \/ FinishUploads(h)
         \/ RecordFailed(h) \/ RecordStored(h) \/ ReadForEnqueue(h) \/ Schedule(h)
         \/ Answer(h) \/ Fail(h)
         \/ \E a \in Attachment : Quarantine(h, a) \/ Upload(h, a)

Next == Webhook \/ \E m \in Message : Extract(m, {})

Spec == Init /\ [][Next]_vars

-----------------------------------------------------------------------------

TypeOK ==
    /\ inbound \subseteq Message /\ acked \subseteq Request /\ unqueued \subseteq Request
    /\ claim \in [Message -> [status : {"NEW", "PROCESSING"}, attempt : Nat]]
    /\ objects \subseteq Message \X Attachment
    /\ rows \in [STORED : SUBSET (Message \X Attachment), FAILED : SUBSET (Message \X Attachment)]
    /\ requests \in [Request -> [pc : Pc, msg : Message, creator : BOOLEAN,
                                 stored : SUBSET Attachment, failed : SUBSET Attachment,
                                 attempt : Nat]]
    /\ \A h \in Request : requests[h].stored \cap requests[h].failed = {}
    /\ read \subseteq Message /\ found \subseteq Message \X Attachment
    /\ faults \in Nat

\* However many deliveries of a message overlap, its first attempt is started once
\* ("Duplicate webhook payload is idempotent", IMPLEMENTATION_PLAN_V1.md).
StartedOnce == \A m \in Message : claim[m].attempt <= 1

\* Postmark stops delivering a message only when it is stored and its claim is on its
\* way, unless the request that it got the 200 for had found no queue configured
\* (tests/postmark-webhook-route.test.ts asserts that answer, with the claim NEW).
AckedIsStarted == \A h \in acked :
    Msg(h) \in inbound /\ (h \in unqueued \/ claim[Msg(h)].status # "NEW")

\* When the creating request goes on to the claim, every attachment, refused ones
\* included, has its row.
CreatorAccountsForAll == \A h \in Request :
    (requests[h].creator /\ requests[h].pc \in {"enqueueing", "scheduling", "answering"}) =>
        {Msg(h)} \X Attachment \subseteq rows.STORED \cup rows.FAILED

\* "Stores attachments to S3, and enqueues ingest work" (README, Core Flow 2): when the
\* worker reads a claim's attachments, it finds all that did not fail.
ExtractionSeesAttachments == \A m \in read :
    {m} \X Attachment \subseteq found \cup rows.FAILED
=============================================================================
