----------------------------- MODULE ClaimExport -----------------------------
(***************************************************************************)
(* The export of claims: a stream whose reader hands out chunks of a batch *)
(* while the query of the next batch, behind a cursor, is already running. *)
(***************************************************************************)
EXTENDS ClaimTable

CONSTANTS BatchSize,    \* CLAIM_EXPORT_BATCH_SIZE
          ChunkRows,    \* CSV_STREAM_CHUNK_ROWS or JSON_STREAM_CHUNK_ROWS
          Limit         \* limits that are asked for

ASSUME ExportAssumption ==
    /\ BatchSize \in Nat \ {0} /\ ChunkRows \in Nat \ {0}
    /\ Limit \subseteq Nat \ {0}

VARIABLES
    pc,             \* of the request: "asked", "audited", "streaming", "done", "failed"
    limit,          \* what it asks for, once it is parsed
    reader,         \* the variables of createExportBatchReader
    query,          \* nextBatchPromise: none, running, answered or failed
    out,            \* the keys that were written to the stream
    steady          \* history: claims that matched all the time since the first query

export == <<pc, limit, reader, query, out, steady>>

NoReader == [remaining |-> 0, batch |-> <<>>, index |-> 0, cursor |-> NoCursor, more |-> FALSE]
NoQuery == [state |-> "none", take |-> 0, keys |-> <<>>]
Running(take) == [state |-> "running", take |-> take, keys |-> <<>>]

ExportInit ==
    /\ pc = "asked"
    /\ limit = 0
    /\ reader = NoReader /\ query = NoQuery
    /\ out = <<>> /\ steady = {}

\* No row leaves before the export is on record.
RecordAudit ==
    /\ pc = "asked"
    /\ pc' \in {"audited", "failed"}
    /\ limit' \in Limit
    /\ UNCHANGED <<reader, query, out, steady>>

\* primeNextBatch
Primed(r) ==
    LET after == r.remaining - (Len(r.batch) - r.index)
    IN  IF r.more /\ r.index < Len(r.batch) /\ after > 0
        THEN Running(Min({BatchSize, after}))
        ELSE NoQuery

\* Mutant: the cursor stays where the batch began.
FilledFromFirst(r, keys, take) ==
    [r EXCEPT !.batch = keys, !.index = 0, !.more = Len(keys) = take,
              !.cursor = IF keys = <<>> THEN @ ELSE Head(keys)]

\* Mutant: the index stays where the last batch ended.
FilledAtIndex(r, keys, take) ==
    [r EXCEPT !.batch = keys, !.more = Len(keys) = take,
              !.cursor = IF keys = <<>> THEN @ ELSE Last(keys)]

\* The reader takes a batch that answers a query for so many rows.
Filled(r, keys, take) ==
    [r EXCEPT !.batch = keys, !.index = 0, !.more = Len(keys) = take,
              !.cursor = IF keys = <<>> THEN @ ELSE Last(keys)]

FetchInitialBatch ==
    /\ pc = "audited"
    /\ \/ /\ LET take == Min({BatchSize, limit})
             IN  reader' = Filled([NoReader EXCEPT !.remaining = limit],
                                  Fetch(NoCursor, "next", take), take)
          /\ query' = Primed(reader')
          /\ pc' = "streaming"
          /\ steady' = {c \in Claim : rows[c].matches}
       \/ /\ pc' = "failed"
          /\ UNCHANGED <<reader, query, steady>>
    /\ UNCHANGED <<limit, out>>

\* The query reads the table, or fails, while chunks of the last batch are handed out.
QueryEnds ==
    /\ query.state = "running"
    /\ \/ query' = [query EXCEPT !.state = "answered",
                                 !.keys = Fetch(reader.cursor, "next", query.take)]
       \/ query' = [query EXCEPT !.state = "failed"]
    /\ UNCHANGED <<pc, limit, reader, out, steady>>

\* ensureBatchLoaded does not return at once.
NeedsBatch == pc = "streaming" /\ reader.index >= Len(reader.batch) /\ reader.remaining > 0 /\ reader.more

Chunk(r) == Min({ChunkRows, Len(r.batch) - r.index, r.remaining})

\* readNextRows of the reader r, whose batch is loaded, and what pull makes of it.
HandOut(r) ==
    LET n == Chunk(r)
    IN  IF r.remaining <= 0 \/ r.index >= Len(r.batch)
        THEN /\ pc' = "done"
             /\ reader' = r
             /\ UNCHANGED out
        ELSE /\ out' = out \o SubSeq(r.batch, r.index + 1, r.index + n)
             /\ reader' = [r EXCEPT !.index = @ + n, !.remaining = @ - n]
             /\ UNCHANGED pc

\* Rows are left, the limit is reached, or no more are available.
Pull ==
    /\ pc = "streaming" /\ ~NeedsBatch
    /\ HandOut(reader)
    /\ UNCHANGED <<limit, query, steady>>

\* pull waits for the query that was primed or, if none was, makes one; the batch after
\* it is asked for before the first chunk of this one is handed out.
TakeBatch ==
    /\ NeedsBatch /\ query.state \in {"none", "answered"}
    /\ LET take == Min({BatchSize, reader.remaining})
           keys == IF query.state = "answered" THEN query.keys
                   ELSE Fetch(reader.cursor, "next", take)
           loaded == Filled(reader, keys, take)
       IN  /\ HandOut(loaded)
           /\ query' = Primed(loaded)
    /\ UNCHANGED <<limit, steady>>

\* The query that pull waits for fails: the stream ends with an error.
StreamFails ==
    /\ NeedsBatch /\ query.state \in {"none", "failed"}
    /\ pc' = "failed"
    /\ UNCHANGED <<limit, reader, query, out, steady>>

\* A write of another process while the stream is read.
ExportOutdated ==
    /\ pc = "streaming" /\ TableNext
    /\ steady' = {c \in steady : rows'[c].matches}
    /\ UNCHANGED <<pc, limit, reader, query, out>>

ExportStep == RecordAudit \/ FetchInitialBatch \/ QueryEnds \/ Pull \/ TakeBatch \/ StreamFails

ExportNext == (ExportStep /\ UNCHANGED table) \/ ExportOutdated

-----------------------------------------------------------------------------

ExportTypeOK ==
    /\ pc \in {"asked", "audited", "streaming", "done", "failed"}
    /\ limit \in Limit \cup {0}
    /\ reader.remaining \in 0..limit /\ reader.index \in 0..BatchSize
    /\ Len(reader.batch) <= BatchSize
    /\ query.state \in {"none", "running", "answered", "failed"}
    /\ query.take \in 0..BatchSize
    /\ steady \subseteq Claim

\* What was exported is in the order of the list, each claim once, however claims are
\* created and changed between the batches, and never more than was asked for.
ExportedInOrder ==
    /\ \A i, j \in DOMAIN out : i < j => Before(out[i], out[j])
    /\ Len(out) <= limit

\* A claim that matched all the time is not passed over: it is exported unless the limit
\* was reached before it.
ExportIsComplete == \A c \in steady :
    (pc = "done" /\ Len(out) < limit) \/ (out # <<>> /\ ~Before(Last(out), SortKey(c)))
        => SortKey(c) \in ToSet(out)
=============================================================================
