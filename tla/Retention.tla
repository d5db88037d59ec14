----------------------------- MODULE Retention -----------------------------
(***************************************************************************)
(* Data retention next to the webhook and the worker: the scheduled script *)
(* redacts the texts of expired messages and extractions, and marks        *)
(* expired attachments as deleted, a batch of each table per run.          *)
(*                                                                         *)
(* A run selects from the three tables, and updates them when all three    *)
(* have answered; runs may overlap (a run of the schedule and one by       *)
(* hand), and a query that throws ends its run.  The three selects are one *)
(* action here, and so are the updates: no row is in two of the tables.    *)
(***************************************************************************)
EXTENDS InboundWebhook, SequencesExt

CONSTANTS Run,       \* runs of the script that may overlap
          BatchSize  \* CLAIMFLOW_RETENTION_BATCH_SIZE

ASSUME BatchAssumption == BatchSize \in Nat \ {0}

VARIABLES
    aged,        \* whether the messages were stored days ago, or are being delivered
    expired,     \* rows whose retentionExpiresAt has passed, in that order
    redactedAt,  \* rawPayloadRedactedAt, rawOutputRedactedAt and deletedAt of the rows
                 \* where they are set: the run whose clock they hold
    runs         \* the rows selected by the runs that have not updated them yet

retentionVars == <<aged, expired, redactedAt, runs>>

Table == {"inboundMessage", "claimExtraction", "claimAttachment"}

\* The rows that carry a retentionExpiresAt.  The extraction of a message is written
\* when the worker has read it.
Rows ==
    ({"inboundMessage"} \X inbound) \cup ({"claimExtraction"} \X read)
        \cup ({"claimAttachment"} \X (rows.STORED \cup rows.FAILED))

Redacted == DOMAIN redactedAt
Deleted == {x \in Message \X Attachment : <<"claimAttachment", x>> \in Redacted}

\* Deliveries take seconds, retention periods are days: nothing expires while a
\* message is delivered, and what expires is a state that deliveries have left behind.
Delivered(stored) ==
    /\ inbound = Message /\ acked = Request /\ unqueued = {} /\ read = {} /\ found = {}
    /\ claim = [m \in Message |-> [status |-> "PROCESSING", attempt |-> 1]]
    /\ objects = Message \X Attachment
    /\ rows = [STORED |-> stored, FAILED |-> (Message \X Attachment) \ stored]
    /\ requests = [h \in Request |-> [pc |-> "done", msg |-> CHOOSE m \in Message : TRUE,
                                      creator |-> FALSE, stored |-> {}, failed |-> {},
                                      attempt |-> 0]]
    /\ faults = 0

RetentionInit ==
    /\ aged \in BOOLEAN
    /\ IF aged THEN \E stored \in SUBSET (Message \X Attachment) : Delivered(stored)
       ELSE Init
    /\ expired = << >>
    /\ redactedAt = << >>
    /\ runs = << >>

\* A row expires, in any order: the periods of the tables differ.
Expire(row) ==
    /\ aged
    /\ row \in Rows \ ToSet(expired)
    /\ expired' = Append(expired, row)
    /\ UNCHANGED <<vars, aged, redactedAt, runs>>

\* Mutant: rows that are redacted already are selected again.
SelectableAlways(t) == {i \in DOMAIN expired : expired[i][1] = t}

\* retentionExpiresAt <= now AND the mark is null: where these rows are in the order of expiry.
Selectable(t) == {i \in DOMAIN expired : expired[i][1] = t /\ expired[i] \notin Redacted}

\* orderBy retentionExpiresAt, take batchSize
Batch(t) ==
    LET Place(i) == Cardinality({j \in Selectable(t) : j < i})
    IN  {expired[i] : i \in {k \in Selectable(t) : Place(k) < BatchSize}}

\* The three findMany.  A run that selects nothing is over.
Select(r) ==
    LET ids == UNION {Batch(t) : t \in Table} IN
    /\ r \notin DOMAIN runs
    /\ ids # {}
    /\ runs' = [q \in DOMAIN runs \cup {r} |-> IF q = r THEN ids ELSE runs[q]]
    /\ UNCHANGED <<vars, aged, expired, redactedAt>>

\* Mutant: the update does not look at the mark again.
UnmarkedAny(ids) == ids

Unmarked(ids) == ids \ Redacted

\* updateMany of some tables, at the end of the run.
Redact(r, tables) ==
    LET ids == Unmarked({row \in runs[r] : row[1] \in tables}) IN
    /\ redactedAt' = [row \in Redacted \cup ids |-> IF row \in ids THEN r ELSE redactedAt[row]]
    /\ runs' = [q \in DOMAIN runs \ {r} |-> runs[q]]
    /\ UNCHANGED <<inbound, claim, objects, rows, requests, acked, unqueued, read, found, aged, expired>>

Update(r) == r \in DOMAIN runs /\ Redact(r, Table) /\ UNCHANGED faults

\* A query throws, or the process dies; the tables that were updated stay so.
RunFails(r) ==
    /\ r \in DOMAIN runs
    /\ Fault
    /\ \E tables \in SUBSET Table : Redact(r, tables)

RunStep(r) == Select(r) \/ Update(r)

RetentionNext ==
    \/ Webhook /\ UNCHANGED retentionVars
    \/ \E m \in Message : Extract(m, Deleted) /\ UNCHANGED retentionVars
    \/ \E row \in Rows : Expire(row)
    \/ \E r \in Run : RunStep(r) \/ RunFails(r)

\* The script is scheduled (.github/workflows, Retention Redaction).
RetentionSpec ==
    /\ RetentionInit
    /\ [][RetentionNext]_<<vars, retentionVars>>
    /\ \A r \in Run : WF_<<vars, retentionVars>>(RunStep(r))

-----------------------------------------------------------------------------
RetentionTypeOK ==
    /\ TypeOK /\ aged \in BOOLEAN
    /\ ToSet(expired) \subseteq Rows
    /\ Redacted \subseteq ToSet(expired)
    /\ DOMAIN runs \subseteq Run
    /\ \A r \in DOMAIN runs, t \in Table :
           Cardinality({row \in runs[r] : row[1] = t}) <= BatchSize

\* The time of a redaction is that of the run that did it: overlapping runs that
\* selected the same rows do not move it (data-retention.ts, the marks in the WHERE
\* clauses of the updates).
RedactionStands ==
    [][\A row \in Redacted : row \in Redacted' /\ redactedAt'[row] = redactedAt[row]]_redactedAt

\* What has expired is redacted in the end, however many rows expired before it, and
\* although batches are limited and runs fail (the rows are finite, and expire once).
ExpiredIsRedacted == <>[](ToSet(expired) \subseteq Redacted)
=============================================================================
