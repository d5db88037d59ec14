-------------------------- MODULE RetentionProofs --------------------------
(***************************************************************************)
(* Safety of InboundWebhook, alone and next to Retention, for any          *)
(* messages, attachments, requests and retention runs, any batch size and  *)
(* any number of faults.                                                   *)
(***************************************************************************)
EXTENDS Retention, FiniteSetTheorems, TLAPS

-----------------------------------------------------------------------------
(* What the two specifications have in common.                             *)

\* The worker reads, whatever attachments have been deleted.
Reads == \E m \in Message : \E deleted : Extract(m, deleted)

\* The retention script may fail, and does nothing else to the webhook's state.
OthersFail ==
    /\ faults' \in Nat
    /\ UNCHANGED <<inbound, claim, objects, rows, requests, acked, unqueued, read, found>>

Step == Webhook \/ Reads \/ OthersFail

-----------------------------------------------------------------------------
(* The inductive invariant.                                                *)

\* A claim has had no attempt, or its first.
ClaimCounts == \A m \in Message :
    /\ claim[m].status = "NEW" => claim[m].attempt = 0
    /\ claim[m].status = "PROCESSING" => claim[m].attempt = 1

\* A request past the creation has its message stored; it schedules the attempt after the
\* one that no claim has had, and answers when its claim is started or no queue was
\* configured, which then remains so.
Knows(h) ==
    /\ requests[h].pc \notin {"idle", "creating", "done"} => Msg(h) \in inbound
    /\ At(h, "scheduling") => requests[h].attempt = 0
    /\ At(h, "answering") => h \in unqueued \/ claim[Msg(h)].status # "NEW"
    /\ h \in acked => /\ At(h, "done") /\ Msg(h) \in inbound
                      /\ h \in unqueued \/ claim[Msg(h)].status # "NEW"

\* What the creator has accounted for, step by step: every attachment is stored or has
\* failed before the rows are written, those that have failed have their rows before
\* those that are stored, and all have before it goes on to the claim.
Accounts(h) ==
    /\ requests[h].pc \in {"uploading", "failedRows", "storedRows"} => requests[h].creator
    /\ requests[h].creator => requests[h].pc \notin {"idle", "creating", "finding"}
    /\ ~requests[h].creator => requests[h].stored = {}
    /\ requests[h].pc \in {"failedRows", "storedRows"} =>
           requests[h].stored \cup requests[h].failed = Attachment
    /\ At(h, "storedRows") => {Msg(h)} \X requests[h].failed \subseteq rows.FAILED
    /\ (requests[h].creator /\ requests[h].pc \in {"enqueueing", "scheduling", "answering"}) =>
           {Msg(h)} \X Attachment \subseteq rows.STORED \cup rows.FAILED

Inv == /\ TypeOK /\ ClaimCounts
       /\ \A h \in Request : Knows(h) /\ Accounts(h)

LEMMA InitInv == Init => Inv
<1> SUFFICES ASSUME Init PROVE Inv
  OBVIOUS
<1>1. (CHOOSE m \in Message : TRUE) \in Message
  BY MessageAssumption
<1>2. TypeOK
  BY <1>1 DEF Init, TypeOK, Pc
<1> QED
  BY <1>2 DEF Init, Inv, ClaimCounts, Knows, Accounts, At

-----------------------------------------------------------------------------
(* What one request does, another one does not see, but for what it adds.  *)

RequestType == [pc : Pc, msg : Message, creator : BOOLEAN, stored : SUBSET Attachment,
                failed : SUBSET Attachment, attempt : Nat]

\* Messages and rows are never removed, no claim becomes NEW again, and what a request
\* has found is not forgotten.
OnlyGrows ==
    /\ inbound \subseteq inbound'
    /\ rows.STORED \subseteq rows'.STORED /\ rows.FAILED \subseteq rows'.FAILED
    /\ unqueued \subseteq unqueued'
    /\ \A m \in Message : claim[m].status # "NEW" => claim'[m].status # "NEW"

LEMMA Undisturbed ==
    ASSUME TypeOK, OnlyGrows, NEW g \in Request, requests'[g] = requests[g],
           g \in acked' => g \in acked, Knows(g), Accounts(g)
    PROVE  Knows(g)' /\ Accounts(g)'
<1>1. Msg(g) \in Message
  BY DEF TypeOK, Msg
<1> QED
  BY <1>1 DEF OnlyGrows, Knows, Accounts, At, Msg

\* One request takes a step: r is its new state.
Moves(h, r) ==
    /\ r \in RequestType
    /\ requests' = [requests EXCEPT ![h] = r]

\* Nobody else is answered, or finds no queue.
OnlyItself(h) == acked' \in {acked, acked \cup {h}} /\ unqueued' \in {unqueued, unqueued \cup {h}}

LEMMA OneMoves ==
    ASSUME Inv, NEW h \in Request, NEW r, Moves(h, r), OnlyGrows, OnlyItself(h),
           Knows(h)', Accounts(h)'
    PROVE  \A g \in Request : Knows(g)' /\ Accounts(g)'
<1> SUFFICES ASSUME NEW g \in Request PROVE Knows(g)' /\ Accounts(g)'
  OBVIOUS
<1>1. CASE g = h
  BY <1>1
<1>2. CASE g # h
  <2>1. requests'[g] = requests[g]
    BY <1>2 DEF Moves, Inv, TypeOK
  <2> QED
    BY <1>2, <2>1, Undisturbed DEF Inv, OnlyItself
<1> QED
  BY <1>1, <1>2

LEMMA RequestTyped ==
    ASSUME TypeOK, NEW h \in Request
    PROVE  /\ requests[h] \in RequestType /\ Msg(h) \in Message
           /\ requests[h].stored \subseteq Attachment /\ requests[h].failed \subseteq Attachment
           /\ \A pc \in Pc : [requests[h] EXCEPT !.pc = pc] \in RequestType
BY DEF TypeOK, Msg, RequestType

LEMMA GoToMoves ==
    ASSUME TypeOK, NEW h \in Request, NEW pc \in Pc, GoTo(h, pc)
    PROVE  /\ Moves(h, [requests[h] EXCEPT !.pc = pc])
           /\ requests'[h] = [requests[h] EXCEPT !.pc = pc]
<1>1. [requests[h] EXCEPT !.pc = pc] \in RequestType
  BY RequestTyped
<1>2. requests' = [requests EXCEPT ![h] = [requests[h] EXCEPT !.pc = pc]]
  BY DEF GoTo, TypeOK
<1> QED
  BY <1>1, <1>2 DEF Moves, TypeOK

\* What GoTo leaves as it is.
LEMMA GoToKeeps ==
    ASSUME TypeOK, NEW h \in Request, NEW pc \in Pc, GoTo(h, pc)
    PROVE  /\ requests'[h].pc = pc /\ requests'[h].msg = requests[h].msg
           /\ requests'[h].creator = requests[h].creator
           /\ requests'[h].stored = requests[h].stored
           /\ requests'[h].failed = requests[h].failed
           /\ requests'[h].attempt = requests[h].attempt
<1>1. requests'[h] = [requests[h] EXCEPT !.pc = pc] /\ requests[h] \in RequestType
  BY RequestTyped, GoToMoves
<1> QED
  BY <1>1 DEF RequestType

\* A step of one request keeps the invariant if what it writes has its type and the claim
\* counts, and the request knows and accounts for what it should.
LEMMA RequestStep ==
    ASSUME Inv, NEW h \in Request, NEW r, Moves(h, r), r.stored \cap r.failed = {},
           OnlyGrows, OnlyItself(h), inbound' \subseteq Message,
           claim' \in [Message -> [status : {"NEW", "PROCESSING"}, attempt : Nat]],
           objects' \subseteq Message \X Attachment,
           rows' \in [STORED : SUBSET (Message \X Attachment), FAILED : SUBSET (Message \X Attachment)],
           UNCHANGED <<read, found>>, faults' \in Nat,
           ClaimCounts', Knows(h)', Accounts(h)'
    PROVE  Inv'
<1>1. /\ requests' \in [Request -> RequestType]
      /\ \A g \in Request : requests'[g].stored \cap requests'[g].failed = {}
  BY DEF Inv, TypeOK, Moves, RequestType
<1>2. TypeOK'
  BY <1>1 DEF Inv, TypeOK, RequestType, OnlyItself
<1>3. \A g \in Request : Knows(g)' /\ Accounts(g)'
  BY OneMoves
<1> QED
  BY <1>2, <1>3 DEF Inv

\* A step that changes only its request, objects and the number of faults.
LEMMA QuietStep ==
    ASSUME Inv, NEW h \in Request, NEW r, Moves(h, r), r.stored \cap r.failed = {},
           UNCHANGED <<inbound, claim, rows, acked, unqueued, read, found>>,
           objects' \subseteq Message \X Attachment, faults' \in Nat,
           Knows(h)', Accounts(h)'
    PROVE  Inv'
<1>1. OnlyGrows /\ OnlyItself(h)
  BY DEF OnlyGrows, OnlyItself
<1>2. ClaimCounts'
  BY DEF Inv, ClaimCounts
<1>3. /\ inbound' \subseteq Message
      /\ claim' \in [Message -> [status : {"NEW", "PROCESSING"}, attempt : Nat]]
      /\ rows' \in [STORED : SUBSET (Message \X Attachment), FAILED : SUBSET (Message \X Attachment)]
  BY DEF Inv, TypeOK
<1> QED
  BY <1>1, <1>2, <1>3, RequestStep

-----------------------------------------------------------------------------
(* The steps of a request.                                                 *)

LEMMA RejectInv == ASSUME Inv, NEW h \in Request, Reject(h) PROVE Inv'
<1> DEFINE r == [requests[h] EXCEPT !.pc = "done"]
<1>1. Moves(h, r) /\ requests'[h] = r
  BY GoToMoves DEF Reject, Inv, Pc
<1>2. r.stored \cap r.failed = {}
  BY DEF Inv, TypeOK
<1>3. Knows(h)' /\ Accounts(h)'
  BY <1>1, RequestTyped DEF Inv, Knows, Accounts, At, Reject, RequestType
<1> QED
  BY <1>1, <1>2, <1>3, QuietStep DEF Inv, TypeOK, Reject

LEMMA DeliverInv == ASSUME Inv, NEW h \in Request, NEW m \in Message, Deliver(h, m) PROVE Inv'
<1> DEFINE r == [requests[h] EXCEPT !.pc = "creating", !.msg = m]
<1>1. Moves(h, r) /\ requests'[h] = r
  BY DEF Inv, TypeOK, Deliver, Moves, RequestType, Pc
<1>2. r.stored \cap r.failed = {}
  BY DEF Inv, TypeOK
<1>3. Knows(h)' /\ Accounts(h)'
  <2>1. /\ r.pc = "creating" /\ r.creator = requests[h].creator
        /\ r.stored = requests[h].stored
    BY RequestTyped DEF Inv, RequestType
  <2>2. ~requests[h].creator /\ requests[h].stored = {} /\ h \notin acked /\ acked' = acked
    BY DEF Inv, Knows, Accounts, Deliver, At
  <2> HIDE DEF r
  <2> QED
    BY <1>1, <2>1, <2>2 DEF Knows, Accounts, At
<1>4. objects' \subseteq Message \X Attachment /\ faults' \in Nat
  BY DEF Inv, TypeOK, Deliver
<1> QED
  BY <1>1, <1>2, <1>3, <1>4, QuietStep DEF Deliver

LEMMA FindExistingInv == ASSUME Inv, NEW h \in Request, FindExisting(h) PROVE Inv'
<1> DEFINE pc == IF ShouldEnqueue(Msg(h)) THEN "enqueueing" ELSE "answering"
           r == [requests[h] EXCEPT !.pc = pc]
<1>1. pc \in Pc
  BY DEF Pc
<1>2. Moves(h, r) /\ requests'[h] = r
  BY <1>1, GoToMoves DEF FindExisting, Inv
<1>3. r.stored \cap r.failed = {}
  BY DEF Inv, TypeOK
<1>4. Knows(h)' /\ Accounts(h)'
  BY <1>2, RequestTyped
     DEF Inv, Knows, Accounts, At, FindExisting, ShouldEnqueue, Msg, RequestType
<1> HIDE DEF r
<1> QED
  BY <1>2, <1>3, <1>4, QuietStep DEF Inv, TypeOK, FindExisting

LEMMA QuarantineInv ==
    ASSUME Inv, NEW h \in Request, NEW a \in Attachment, Quarantine(h, a)
    PROVE  Inv'
<1> DEFINE r == [requests[h] EXCEPT !.failed = @ \cup {a}]
<1>1. Moves(h, r) /\ requests'[h] = r
  BY DEF Inv, TypeOK, Quarantine, Moves, RequestType
<1>2. r.stored \cap r.failed = {}
  BY DEF Inv, TypeOK, Quarantine, Unprepared
<1>3. Knows(h)' /\ Accounts(h)'
  BY <1>1, RequestTyped DEF Inv, Knows, Accounts, At, Quarantine, Msg, RequestType
<1>4. objects' \subseteq Message \X Attachment /\ faults' \in Nat
  BY DEF Inv, TypeOK, Quarantine
<1> HIDE DEF r
<1> QED
  BY <1>1, <1>2, <1>3, <1>4, QuietStep DEF Quarantine

LEMMA UploadInv ==
    ASSUME Inv, NEW h \in Request, NEW a \in Attachment, Upload(h, a)
    PROVE  Inv'
<1>1. PICK r : /\ r \in {[requests[h] EXCEPT !.stored = @ \cup {a}],
                         [requests[h] EXCEPT !.failed = @ \cup {a}]}
               /\ Moves(h, r) /\ requests'[h] = r
  <2> DEFINE more == [requests[h] EXCEPT !.stored = @ \cup {a}]
             less == [requests[h] EXCEPT !.failed = @ \cup {a}]
  <2>1. more \in RequestType /\ less \in RequestType
    BY RequestTyped DEF Inv, RequestType
  <2>2. \/ requests' = [requests EXCEPT ![h] = more]
        \/ requests' = [requests EXCEPT ![h] = less]
    BY DEF Inv, TypeOK, Upload
  <2>3. requests \in [Request -> RequestType]
    BY DEF Inv, TypeOK, RequestType
  <2> HIDE DEF more, less
  <2>4. \E r \in {more, less} : Moves(h, r) /\ requests'[h] = r
    BY <2>1, <2>2, <2>3 DEF Moves
  <2> QED
    BY <2>4 DEF more, less
<1>2. r.stored \cap r.failed = {}
  BY <1>1 DEF Inv, TypeOK, Upload, Unprepared
<1>3. Knows(h)' /\ Accounts(h)'
  BY <1>1, RequestTyped DEF Inv, Knows, Accounts, At, Upload, Msg, RequestType
<1>4. objects' \subseteq Message \X Attachment
  BY RequestTyped DEF Inv, TypeOK, Upload
<1> QED
  BY <1>1, <1>2, <1>3, <1>4, QuietStep DEF Inv, TypeOK, Upload

LEMMA FinishUploadsInv == ASSUME Inv, NEW h \in Request, FinishUploads(h) PROVE Inv'
<1> DEFINE r == [requests[h] EXCEPT !.pc = "failedRows"]
<1>1. Moves(h, r) /\ requests'[h] = r
  BY GoToMoves DEF FinishUploads, Inv, Pc
<1>2. r.stored \cap r.failed = {}
  BY DEF Inv, TypeOK
<1>3. requests[h].stored \cup requests[h].failed = Attachment
  BY RequestTyped DEF Inv, FinishUploads, Prepared, Unprepared
<1>4. Knows(h)' /\ Accounts(h)'
  BY <1>1, <1>3, RequestTyped DEF Inv, Knows, Accounts, At, FinishUploads, Msg, RequestType
<1> QED
  BY <1>1, <1>2, <1>4, QuietStep DEF Inv, TypeOK, FinishUploads

\* No queue is configured.
LEMMA LeavesNew ==
    ASSUME Inv, NEW h \in Request, At(h, "enqueueing"), GoTo(h, "answering"),
           unqueued' = unqueued \cup {h},
           UNCHANGED <<inbound, claim, objects, rows, acked, read, found, faults>>
    PROVE  Inv'
<1> DEFINE r == [requests[h] EXCEPT !.pc = "answering"]
<1>1. Moves(h, r) /\ r.stored \cap r.failed = {} /\ "answering" \in Pc
  <2>1. "answering" \in Pc
    BY DEF Pc
  <2> QED
    BY <2>1, GoToMoves DEF Inv, TypeOK
<1>2. OnlyGrows /\ OnlyItself(h) /\ ClaimCounts'
  BY DEF OnlyGrows, OnlyItself, Inv, ClaimCounts
<1>3. Knows(h)' /\ Accounts(h)'
  <2>1. /\ requests'[h].pc = "answering" /\ requests'[h].msg = requests[h].msg
        /\ requests'[h].creator = requests[h].creator
        /\ requests'[h].stored = requests[h].stored
    BY <1>1, GoToKeeps DEF Inv
  <2>2. h \notin acked' /\ h \in unqueued'
    BY DEF Inv, Knows, At
  <2> QED
    BY <2>1, <2>2 DEF Inv, Knows, Accounts, At, Msg
<1>4. /\ inbound' \subseteq Message /\ faults' \in Nat
      /\ claim' \in [Message -> [status : {"NEW", "PROCESSING"}, attempt : Nat]]
      /\ objects' \subseteq Message \X Attachment
      /\ rows' \in [STORED : SUBSET (Message \X Attachment),
                    FAILED : SUBSET (Message \X Attachment)]
  BY DEF Inv, TypeOK
<1> HIDE DEF r
<1> QED
  BY <1>1, <1>2, <1>3, <1>4, RequestStep

\* The claim is read.
LEMMA ReadsClaim ==
    ASSUME Inv, NEW h \in Request, At(h, "enqueueing"),
           requests' = [requests EXCEPT
                            ![h].pc = IF claim[Msg(h)].status = "NEW" THEN "scheduling"
                                      ELSE "answering",
                            ![h].attempt = claim[Msg(h)].attempt],
           UNCHANGED <<inbound, claim, objects, rows, acked, unqueued, read, found, faults>>
    PROVE  Inv'
<1> DEFINE pc == IF claim[Msg(h)].status = "NEW" THEN "scheduling" ELSE "answering"
           r == [requests[h] EXCEPT !.pc = pc, !.attempt = claim[Msg(h)].attempt]
<1>1. pc \in Pc /\ claim[Msg(h)].attempt \in Nat
  BY RequestTyped DEF Pc, Inv, TypeOK
<1>2. Moves(h, r) /\ requests'[h] = r
  BY <1>1 DEF Inv, TypeOK, Moves, RequestType
<1>3. r.stored \cap r.failed = {}
  BY DEF Inv, TypeOK
<1>4. Knows(h)' /\ Accounts(h)'
  <2>1. /\ r.pc = pc /\ r.msg = requests[h].msg /\ r.creator = requests[h].creator
        /\ r.attempt = claim[Msg(h)].attempt /\ r.stored = requests[h].stored
    BY RequestTyped DEF Inv, RequestType
  <2>2. /\ At(h, "enqueueing") /\ claim' = claim /\ inbound' = inbound /\ rows' = rows
        /\ h \notin acked /\ acked' = acked
        /\ claim[Msg(h)].status = "NEW" => claim[Msg(h)].attempt = 0
    BY RequestTyped DEF Inv, ClaimCounts, Knows, At
  <2> HIDE DEF r
  <2>3. /\ requests'[h].pc = pc /\ requests'[h].msg = requests[h].msg
        /\ requests'[h].creator = requests[h].creator
        /\ requests'[h].stored = requests[h].stored
        /\ requests'[h].attempt = claim[Msg(h)].attempt
    BY <1>2, <2>1
  <2>4. /\ Msg(h) \in inbound
        /\ pc = "scheduling" => claim[Msg(h)].attempt = 0
        /\ pc = "answering" => claim[Msg(h)].status # "NEW"
    BY <2>2 DEF Inv, Knows, At
  <2>5. Knows(h)'
    BY <2>2, <2>3, <2>4 DEF Knows, At, Msg
  <2>6. Accounts(h)'
    <3>1. pc \in {"scheduling", "answering"} /\ Accounts(h) /\ requests[h].pc = "enqueueing"
      BY <2>2 DEF Inv, At
    <3> HIDE DEF pc
    <3> QED
      BY ONLY <2>2, <2>3, <3>1 DEF Accounts, At, Msg
  <2> QED
    BY <2>5, <2>6
<1>5. objects' \subseteq Message \X Attachment /\ faults' \in Nat
  BY DEF Inv, TypeOK
<1> HIDE DEF r
<1> QED
  BY <1>2, <1>3, <1>4, <1>5, QuietStep

LEMMA ReadForEnqueueInv == ASSUME Inv, NEW h \in Request, ReadForEnqueue(h) PROVE Inv'
BY LeavesNew, ReadsClaim DEF ReadForEnqueue

LEMMA FailInv == ASSUME Inv, NEW h \in Request, Fail(h) PROVE Inv'
<1> DEFINE r == [requests[h] EXCEPT !.pc = "done"]
<1>1. Moves(h, r) /\ requests'[h] = r
  BY GoToMoves DEF Fail, Inv, Pc
<1>2. r.stored \cap r.failed = {}
  BY DEF Inv, TypeOK
<1>3. Knows(h)' /\ Accounts(h)'
  BY <1>1, RequestTyped DEF Inv, Knows, Accounts, At, Fail, RequestType
<1>4. objects' \subseteq Message \X Attachment /\ faults' \in Nat
  BY DEF Inv, TypeOK, Fail, Fault
<1> QED
  BY <1>1, <1>2, <1>3, <1>4, QuietStep DEF Fail

LEMMA CreateMessageInv == ASSUME Inv, NEW h \in Request, CreateMessage(h) PROVE Inv'
<1> DEFINE m == Msg(h)
<1>1. /\ m \in Message /\ At(h, "creating")
      /\ ~requests[h].creator /\ requests[h].stored = {}
      /\ h \notin acked /\ acked' = acked
  BY RequestTyped DEF Inv, CreateMessage, Knows, Accounts, At
<1>2. CASE m \in inbound
  <2> DEFINE r == [requests[h] EXCEPT !.pc = "finding"]
  <2>1. GoTo(h, "finding") /\ UNCHANGED inbound
    BY <1>2 DEF CreateMessage
  <2>2. Moves(h, r) /\ requests'[h] = r
    BY <2>1, GoToMoves DEF Inv, Pc
  <2>3. r.stored \cap r.failed = {} /\ r.pc = "finding" /\ r.msg = requests[h].msg
        /\ r.creator = requests[h].creator /\ r.stored = requests[h].stored
    BY RequestTyped DEF Inv, TypeOK, RequestType
  <2>4. objects' \subseteq Message \X Attachment /\ faults' \in Nat
    BY DEF Inv, TypeOK, CreateMessage
  <2> HIDE DEF r
  <2>5. Knows(h)' /\ Accounts(h)'
    BY <1>1, <1>2, <2>1, <2>2, <2>3 DEF Knows, Accounts, At, Msg
  <2> QED
    BY <2>1, <2>2, <2>3, <2>4, <2>5, QuietStep DEF CreateMessage
<1>3. CASE m \notin inbound
  <2>1. PICK refused \in Refusable :
            requests' = [requests EXCEPT ![h].pc = "uploading", ![h].creator = TRUE,
                                         ![h].failed = refused]
    BY <1>3 DEF CreateMessage
  <2> DEFINE r == [requests[h] EXCEPT !.pc = "uploading", !.creator = TRUE, !.failed = refused]
  <2>2. r \in RequestType /\ r.pc = "uploading" /\ r.creator /\ r.msg = m /\ r.stored = {}
    <3>1. requests[h] \in RequestType /\ refused \subseteq Attachment /\ "uploading" \in Pc
      BY <2>1, RequestTyped DEF Inv, Refusable, Pc
    <3> QED
      BY <1>1, <3>1 DEF RequestType, Msg
  <2>3. Moves(h, r) /\ requests'[h] = r
    BY <2>1, <2>2 DEF Inv, TypeOK, Moves
  <2> HIDE DEF r
  <2>4. inbound' = inbound \cup {m}
        /\ UNCHANGED <<claim, objects, rows, acked, unqueued, read, found, faults>>
    BY <1>3 DEF CreateMessage
  <2>5. Knows(h)' /\ Accounts(h)'
    BY <1>1, <2>2, <2>3, <2>4 DEF Knows, Accounts, At, Msg
  <2> QED
    <3>1. OnlyGrows /\ OnlyItself(h) /\ ClaimCounts'
      BY <2>4 DEF OnlyGrows, OnlyItself, Inv, ClaimCounts
    <3>2. /\ inbound' \subseteq Message
          /\ claim' \in [Message -> [status : {"NEW", "PROCESSING"}, attempt : Nat]]
          /\ objects' \subseteq Message \X Attachment /\ faults' \in Nat
          /\ rows' \in [STORED : SUBSET (Message \X Attachment),
                        FAILED : SUBSET (Message \X Attachment)]
      BY <1>1, <2>4 DEF Inv, TypeOK
    <3> QED
      BY <2>2, <2>3, <2>4, <2>5, <3>1, <3>2, RequestStep
<1> QED
  BY <1>2, <1>3

\* Rows of one message are added.
LEMMA RecordGrows ==
    ASSUME TypeOK, NEW m \in Message, NEW stored \in SUBSET Attachment,
           NEW failed \in SUBSET Attachment, Record(m, stored, failed)
    PROVE  /\ rows' \in [STORED : SUBSET (Message \X Attachment),
                         FAILED : SUBSET (Message \X Attachment)]
           /\ rows'.STORED = rows.STORED \cup ({m} \X stored)
           /\ rows'.FAILED = rows.FAILED \cup ({m} \X failed)
BY DEF TypeOK, Record

LEMMA RecordInv ==
    ASSUME Inv, NEW h \in Request, NEW stored \in SUBSET Attachment,
           NEW failed \in SUBSET Attachment, NEW pc \in Pc,
           Record(Msg(h), stored, failed), GoTo(h, pc), faults' \in Nat,
           UNCHANGED <<inbound, claim, objects, acked, unqueued, read, found>>,
           Knows(h)', Accounts(h)'
    PROVE  Inv'
<1> DEFINE r == [requests[h] EXCEPT !.pc = pc]
<1>1. Moves(h, r) /\ r.stored \cap r.failed = {}
  BY GoToMoves DEF Inv, TypeOK
<1>2. /\ rows' \in [STORED : SUBSET (Message \X Attachment),
                    FAILED : SUBSET (Message \X Attachment)]
      /\ rows.STORED \subseteq rows'.STORED /\ rows.FAILED \subseteq rows'.FAILED
  BY RecordGrows, RequestTyped DEF Inv
<1>3. OnlyGrows /\ OnlyItself(h) /\ ClaimCounts'
  BY <1>2 DEF OnlyGrows, OnlyItself, Inv, ClaimCounts
<1>4. /\ inbound' \subseteq Message
      /\ claim' \in [Message -> [status : {"NEW", "PROCESSING"}, attempt : Nat]]
      /\ objects' \subseteq Message \X Attachment
  BY DEF Inv, TypeOK
<1> HIDE DEF r
<1> QED
  BY <1>1, <1>2, <1>3, <1>4, RequestStep

LEMMA RecordFailedInv == ASSUME Inv, NEW h \in Request, RecordFailed(h) PROVE Inv'
<1>1. /\ At(h, "failedRows") /\ Msg(h) \in Message
      /\ requests[h].failed \subseteq Attachment
      /\ UNCHANGED <<inbound, claim, objects, acked, unqueued, read, found>>
  BY RequestTyped DEF Inv, RecordFailed
<1>2. PICK some \in SUBSET requests[h].failed, pc \in {"storedRows", "done"} :
          /\ Record(Msg(h), {}, some) /\ GoTo(h, pc) /\ faults' \in Nat
          /\ pc = "storedRows" => some = requests[h].failed
  <2>1. faults \in Nat
    BY DEF Inv, TypeOK
  <2>2. CASE Record(Msg(h), {}, FailedRows(h)) /\ GoTo(h, "storedRows") /\ UNCHANGED faults
    BY <2>1, <2>2 DEF FailedRows
  <2>3. CASE /\ Fault /\ GoTo(h, "done")
             /\ \E some \in SUBSET FailedRows(h) : Record(Msg(h), {}, some)
    <3>1. PICK some \in SUBSET requests[h].failed : Record(Msg(h), {}, some)
      BY <2>3 DEF FailedRows
    <3>2. faults' \in Nat /\ "done" # "storedRows"
      BY <2>1, <2>3 DEF Fault
    <3> QED
      BY <2>3, <3>1, <3>2
  <2> QED
    BY <2>2, <2>3 DEF RecordFailed
<1>3. pc \in Pc /\ some \in SUBSET Attachment
  BY <1>1 DEF Pc
<1>4. Knows(h)' /\ Accounts(h)'
  <2>1. /\ requests'[h].pc = pc /\ requests'[h].msg = requests[h].msg
        /\ requests'[h].creator = requests[h].creator
        /\ requests'[h].stored = requests[h].stored
        /\ requests'[h].failed = requests[h].failed
    BY <1>2, <1>3, GoToKeeps DEF Inv
  <2>2. rows'.FAILED = rows.FAILED \cup ({Msg(h)} \X some)
    BY <1>1, <1>2, <1>3, RecordGrows DEF Inv
  <2> QED
    BY <1>1, <1>2, <2>1, <2>2 DEF Inv, Knows, Accounts, At, Msg
<1> QED
  BY <1>1, <1>2, <1>3, <1>4, RecordInv

LEMMA RecordStoredInv == ASSUME Inv, NEW h \in Request, RecordStored(h) PROVE Inv'
<1>1. /\ At(h, "storedRows") /\ Msg(h) \in Message
      /\ requests[h].stored \subseteq Attachment
      /\ requests[h].stored \cup requests[h].failed = Attachment
      /\ {Msg(h)} \X requests[h].failed \subseteq rows.FAILED
      /\ UNCHANGED <<inbound, claim, objects, acked, unqueued, read, found>>
  BY RequestTyped DEF Inv, RecordStored, Accounts, At
<1>2. PICK stored \in SUBSET requests[h].stored, failed \in SUBSET requests[h].stored,
           pc \in {"enqueueing", "done"} :
          /\ Record(Msg(h), stored, failed) /\ GoTo(h, pc) /\ faults' \in Nat
          /\ pc = "enqueueing" => stored \cup failed = requests[h].stored
  <2>1. CASE Record(Msg(h), StoredRows(h), {}) /\ GoTo(h, "enqueueing") /\ UNCHANGED faults
    BY <2>1 DEF StoredRows, Inv, TypeOK
  <2>2. CASE \E stored, failed \in SUBSET StoredRows(h), pc \in {"enqueueing", "done"} :
                /\ Fault
                /\ pc = "enqueueing" => stored \cup failed = StoredRows(h)
                /\ Record(Msg(h), stored, failed)
                /\ GoTo(h, pc)
    <3>1. faults \in Nat
      BY DEF Inv, TypeOK
    <3> QED
      BY <2>2, <3>1 DEF StoredRows, Fault
  <2> QED
    BY <2>1, <2>2 DEF RecordStored
<1>3. pc \in Pc /\ stored \in SUBSET Attachment /\ failed \in SUBSET Attachment
  BY <1>1 DEF Pc
<1>4. ASSUME pc = "enqueueing"
      PROVE  {Msg(h)} \X Attachment \subseteq rows'.STORED \cup rows'.FAILED
  BY <1>1, <1>2, <1>3, <1>4, RecordGrows DEF Inv
<1>5. Knows(h)' /\ Accounts(h)'
  BY <1>1, <1>2, <1>3, <1>4, GoToKeeps DEF Inv, Knows, Accounts, At, Msg
<1> QED
  BY <1>1, <1>2, <1>3, <1>5, RecordInv

LEMMA ScheduleInv == ASSUME Inv, NEW h \in Request, Schedule(h) PROVE Inv'
<1> DEFINE m == Msg(h)
           r == [requests[h] EXCEPT !.pc = "answering"]
<1>1. /\ m \in Message /\ At(h, "scheduling") /\ requests[h].attempt = 0
      /\ claim[m] \in [status : {"NEW", "PROCESSING"}, attempt : Nat]
      /\ UNCHANGED <<inbound, objects, rows, acked, unqueued, read, found, faults>>
  BY RequestTyped DEF Inv, TypeOK, Schedule, Knows
<1>2. Moves(h, r) /\ r.stored \cap r.failed = {} /\ GoTo(h, "answering") /\ "answering" \in Pc
  <2>1. GoTo(h, "answering") /\ "answering" \in Pc
    BY DEF Schedule, Pc
  <2> QED
    BY <2>1, GoToMoves DEF Inv, TypeOK
<1>3. /\ claim' \in [Message -> [status : {"NEW", "PROCESSING"}, attempt : Nat]]
      /\ claim'[m].status = "PROCESSING" /\ claim'[m].attempt = 1
      /\ \A n \in Message : n # m => claim'[n] = claim[n]
  <2>1. CASE IsCurrent(h)
    BY <1>1, <2>1 DEF Schedule, IsCurrent, Inv, TypeOK
  <2>2. CASE ~IsCurrent(h)
    <3>1. claim' = claim
      BY <2>2 DEF Schedule
    <3>2. claim[m].status # "NEW"
      BY <1>1, <2>2 DEF IsCurrent, Inv, ClaimCounts
    <3> QED
      BY <1>1, <3>1, <3>2 DEF Inv, TypeOK, ClaimCounts
  <2> QED
    BY <2>1, <2>2
<1>4. OnlyGrows /\ OnlyItself(h) /\ ClaimCounts'
  BY <1>1, <1>3 DEF OnlyGrows, OnlyItself, Inv, TypeOK, ClaimCounts
<1>5. Knows(h)' /\ Accounts(h)'
  BY <1>1, <1>2, <1>3, GoToKeeps DEF Inv, Knows, Accounts, At, Msg
<1>6. /\ inbound' \subseteq Message /\ faults' \in Nat
      /\ objects' \subseteq Message \X Attachment
      /\ rows' \in [STORED : SUBSET (Message \X Attachment),
                    FAILED : SUBSET (Message \X Attachment)]
  BY <1>1 DEF Inv, TypeOK
<1> HIDE DEF r
<1> QED
  BY <1>1, <1>2, <1>3, <1>4, <1>5, <1>6, RequestStep

LEMMA AnswerInv == ASSUME Inv, NEW h \in Request, Answer(h) PROVE Inv'
<1> DEFINE r == [requests[h] EXCEPT !.pc = "done"]
<1>1. /\ Msg(h) \in inbound
      /\ h \in unqueued \/ claim[Msg(h)].status # "NEW"
      /\ acked' = acked \cup {h}
      /\ UNCHANGED <<inbound, claim, objects, rows, unqueued, read, found, faults>>
  BY DEF Inv, Answer, Knows, At
<1>2. Moves(h, r) /\ r.stored \cap r.failed = {} /\ GoTo(h, "done") /\ "done" \in Pc
  <2>1. GoTo(h, "done") /\ "done" \in Pc
    BY DEF Answer, Pc
  <2> QED
    BY <2>1, GoToMoves DEF Inv, TypeOK
<1>3. OnlyGrows /\ OnlyItself(h) /\ ClaimCounts'
  BY <1>1 DEF OnlyGrows, OnlyItself, Inv, ClaimCounts
<1>4. Knows(h)' /\ Accounts(h)'
  <2>1. /\ requests'[h].pc = "done" /\ requests'[h].msg = requests[h].msg
        /\ requests'[h].creator = requests[h].creator
        /\ requests'[h].stored = requests[h].stored
    BY <1>2, GoToKeeps DEF Inv
  <2>2. h \in unqueued' \/ claim'[Msg(h)].status # "NEW"
    BY <1>1
  <2> QED
    BY <1>1, <2>1, <2>2 DEF Inv, Knows, Accounts, At, Msg
<1>5. /\ inbound' \subseteq Message /\ faults' \in Nat
      /\ claim' \in [Message -> [status : {"NEW", "PROCESSING"}, attempt : Nat]]
      /\ objects' \subseteq Message \X Attachment
      /\ rows' \in [STORED : SUBSET (Message \X Attachment),
                    FAILED : SUBSET (Message \X Attachment)]
  BY <1>1 DEF Inv, TypeOK
<1> HIDE DEF r
<1> QED
  BY <1>1, <1>2, <1>3, <1>4, <1>5, RequestStep

-----------------------------------------------------------------------------
(* Every step of either specification.                                     *)

LEMMA ExtractInv == ASSUME Inv, NEW m \in Message, NEW deleted, Extract(m, deleted) PROVE Inv'
<1>1. UNCHANGED <<inbound, claim, objects, rows, requests, acked, unqueued, faults>>
  BY DEF Extract
<1>2. TypeOK'
  BY <1>1 DEF Inv, TypeOK, Extract
<1> QED
  BY <1>1, <1>2 DEF Inv, ClaimCounts, Knows, Accounts, At, Msg

LEMMA OthersFailInv == ASSUME Inv, OthersFail PROVE Inv'
<1>1. UNCHANGED <<inbound, claim, objects, rows, requests, acked, unqueued, read, found>>
  BY DEF OthersFail
<1>2. TypeOK'
  BY DEF Inv, TypeOK, OthersFail
<1> QED
  BY <1>1, <1>2 DEF Inv, ClaimCounts, Knows, Accounts, At, Msg

LEMMA WebhookInv == ASSUME Inv, Webhook PROVE Inv'
<1>1. CASE \E h \in Request, m \in Message : Deliver(h, m)
  BY <1>1, DeliverInv
<1>2. ASSUME NEW h \in Request,
             \/ Reject(h) \/ CreateMessage(h) \/ FindExisting(h) \/ FinishUploads(h)
             \/ RecordFailed(h) \/ RecordStored(h) \/ ReadForEnqueue(h) \/ Schedule(h)
             \/ Answer(h) \/ Fail(h)
             \/ \E a \in Attachment : Quarantine(h, a) \/ Upload(h, a)
      PROVE  Inv'
  BY <1>2, RejectInv, CreateMessageInv, FindExistingInv, FinishUploadsInv, RecordFailedInv,
     RecordStoredInv, ReadForEnqueueInv, ScheduleInv, AnswerInv, FailInv, QuarantineInv, UploadInv
<1> QED
  BY <1>1, <1>2 DEF Webhook

LEMMA InvImplies == Inv => TypeOK /\ StartedOnce /\ AckedIsStarted /\ CreatorAccountsForAll
<1> SUFFICES ASSUME Inv PROVE StartedOnce /\ AckedIsStarted /\ CreatorAccountsForAll
  BY DEF Inv
<1>1. \A m \in Message : claim[m].status \in {"NEW", "PROCESSING"}
  BY DEF Inv, TypeOK
<1> QED
  BY <1>1 DEF Inv, TypeOK, ClaimCounts, Knows, Accounts, StartedOnce, AckedIsStarted,
     CreatorAccountsForAll

LEMMA SpecInv == Spec => []Inv
<1>1. Inv /\ [Next]_vars => Inv'
  <2> SUFFICES ASSUME Inv, [Next]_vars PROVE Inv'
    OBVIOUS
  <2>1. CASE Next
    BY <2>1, WebhookInv, ExtractInv DEF Next
  <2>2. CASE UNCHANGED vars
    BY <2>2, OthersFailInv DEF vars, OthersFail, Inv, TypeOK
  <2> QED
    BY <2>1, <2>2
<1> QED
  BY InitInv, <1>1, PTL DEF Spec

\* Requests, claims and rows keep their types.
THEOREM WebhookTypeOK == Spec => []TypeOK
BY SpecInv, InvImplies, PTL

\* Overlapping deliveries start the first attempt of a claim once.
THEOREM WebhookStartedOnce == Spec => []StartedOnce
BY SpecInv, InvImplies, PTL

\* A message that was acknowledged is stored, and has its claim started unless the
\* acknowledged request found no queue configured.
THEOREM WebhookAckedIsStarted == Spec => []AckedIsStarted
BY SpecInv, InvImplies, PTL

\* The creating request accounts for all attachments before it goes on to the claim.
THEOREM WebhookCreatorAccounts == Spec => []CreatorAccountsForAll
BY SpecInv, InvImplies, PTL

-----------------------------------------------------------------------------
(* The webhook next to retention.                                          *)

retentionAll == <<vars, retentionVars>>

LEMMA RetentionStep ==
    ASSUME NEW r, (Select(r) \/ Update(r) \/ RunFails(r)), Inv
    PROVE  OthersFail
<1>1. faults \in Nat
  BY DEF Inv, TypeOK
<1>2. CASE Select(r)
  BY <1>1, <1>2 DEF Select, OthersFail, vars
<1>3. ASSUME NEW tables \in SUBSET Table, Redact(r, tables), UNCHANGED faults \/ Fault
      PROVE  OthersFail
  BY <1>1, <1>3 DEF Redact, Fault, OthersFail
<1> QED
  BY <1>2, <1>3 DEF Update, RunFails

LEMMA DeliveredInv ==
    ASSUME NEW stored \in SUBSET (Message \X Attachment), Delivered(stored) PROVE Inv
<1>1. (CHOOSE m \in Message : TRUE) \in Message
  BY MessageAssumption
<1>2. TypeOK
  BY <1>1 DEF Delivered, TypeOK, Pc
<1> QED
  BY <1>1, <1>2 DEF Delivered, Inv, ClaimCounts, Knows, Accounts, At, Msg

LEMMA RetentionKeepsInv == RetentionSpec => []Inv
<1>1. RetentionInit => Inv
  BY InitInv, DeliveredInv DEF RetentionInit
<1>2. Inv /\ [RetentionNext]_retentionAll => Inv'
  <2> SUFFICES ASSUME Inv, [RetentionNext]_retentionAll PROVE Inv'
    OBVIOUS
  <2>1. CASE Webhook \/ \E m \in Message : Extract(m, Deleted)
    BY <2>1, WebhookInv, ExtractInv
  <2>2. CASE \E row \in Rows : Expire(row)
    BY <2>2, OthersFailInv DEF Expire, vars, OthersFail, Inv, TypeOK
  <2>3. CASE \E r \in Run : RunStep(r) \/ RunFails(r)
    BY <2>3, RetentionStep, OthersFailInv DEF RunStep
  <2>4. CASE UNCHANGED retentionAll
    BY <2>4, OthersFailInv DEF retentionAll, vars, OthersFail, Inv, TypeOK
  <2> QED
    BY <2>1, <2>2, <2>3, <2>4 DEF RetentionNext
<1> QED
  BY <1>1, <1>2, PTL DEF RetentionSpec, retentionAll

\* What holds of the webhook alone holds next to retention.
THEOREM RetentionKeepsPromises ==
    RetentionSpec => [](StartedOnce /\ AckedIsStarted /\ CreatorAccountsForAll)
BY RetentionKeepsInv, InvImplies, PTL

\* No later run moves the mark of a redaction.
THEOREM RetentionRedactionStands == RetentionSpec => RedactionStands
<1>1. ASSUME [RetentionNext]_retentionAll, redactedAt' # redactedAt, NEW row \in Redacted
      PROVE  row \in Redacted' /\ redactedAt'[row] = redactedAt[row]
  <2>1. PICK r \in Run, tables \in SUBSET Table : Redact(r, tables)
    BY <1>1 DEF RetentionNext, retentionAll, retentionVars, Expire, RunStep, Select, Update, RunFails
  <2> QED
    BY <1>1, <2>1 DEF Redact, Unmarked, Redacted
<1>2. [RetentionNext]_retentionAll =>
          [\A row \in Redacted : row \in Redacted' /\ redactedAt'[row] = redactedAt[row]]_redactedAt
  BY <1>1
<1> QED
  BY <1>2, PTL DEF RetentionSpec, RedactionStands, retentionAll

-----------------------------------------------------------------------------
(* The batches.                                                            *)

\* All rows that there may ever be.
AllRows ==
    ({"inboundMessage"} \X Message) \cup ({"claimExtraction"} \X Message)
        \cup ({"claimAttachment"} \X (Message \X Attachment))

LEMMA RowsTyped == ASSUME TypeOK PROVE Rows \subseteq AllRows
BY DEF Rows, AllRows, TypeOK

\* A batch has rows of its table that have expired, as many as its size at most: the
\* number of candidates before a row tells the rows of a batch apart.
LEMMA BatchIsBounded ==
    ASSUME expired \in Seq(AllRows), NEW t
    PROVE  /\ Batch(t) \subseteq ToSet(expired) /\ \A row \in Batch(t) : row[1] = t
           /\ IsFiniteSet(Batch(t)) /\ Cardinality(Batch(t)) <= BatchSize
<1> DEFINE Earlier(i) == {j \in Selectable(t) : j < i}
           Place(i) == Cardinality(Earlier(i))
           taken == {k \in Selectable(t) : Place(k) < BatchSize}
           place == [i \in taken |-> Place(i)]
           rowAt == [i \in taken |-> expired[i]]
<1>1. Batch(t) = {expired[i] : i \in taken}
  BY DEF Batch
<1>2. Selectable(t) \subseteq DOMAIN expired /\ \A i \in Selectable(t) : i \in Nat /\ expired[i][1] = t
  BY DEF Selectable
<1>3. Batch(t) \subseteq ToSet(expired) /\ \A row \in Batch(t) : row[1] = t
  BY <1>1, <1>2 DEF ToSet
<1>4. ASSUME NEW i \in Selectable(t)
      PROVE  IsFiniteSet(Earlier(i)) /\ Place(i) \in Nat
  <2>1. i \in Nat /\ Earlier(i) \in SUBSET Nat /\ \A j \in Earlier(i) : j <= i
    BY <1>2
  <2> HIDE DEF Earlier
  <2>2. IsFiniteSet(Earlier(i))
    BY <2>1, FS_BoundedSetOfNaturals
  <2> QED
    BY <2>2, FS_CardinalityType
<1>5. ASSUME NEW i \in taken, NEW j \in taken, i < j
      PROVE  Place(i) < Place(j)
  <2>1. i \in Selectable(t) /\ j \in Selectable(t)
    OBVIOUS
  <2>2. i \notin Earlier(i) /\ Earlier(i) \cup {i} \subseteq Earlier(j)
    BY <1>2, <1>5, <2>1
  <2> HIDE DEF Earlier
  <2>3. /\ IsFiniteSet(Earlier(i) \cup {i})
        /\ Cardinality(Earlier(i) \cup {i}) = Cardinality(Earlier(i)) + 1
    BY <1>4, <2>1, <2>2, FS_AddElement
  <2>4. Cardinality(Earlier(i) \cup {i}) <= Cardinality(Earlier(j))
    BY <1>4, <2>1, <2>2, FS_Subset
  <2> QED
    BY <1>4, <2>1, <2>3, <2>4
<1>6. place \in [taken -> 0..(BatchSize - 1)]
  <2>1. ASSUME NEW i \in taken
        PROVE  Place(i) \in 0..(BatchSize - 1)
    <3>1. Place(i) \in Nat /\ Place(i) < BatchSize
      BY <1>4
    <3> QED
      BY <3>1, BatchAssumption
  <2> HIDE DEF taken, Place
  <2> QED
    BY <2>1
<1>7. \A i, j \in taken : place[i] = place[j] => i = j
  <2>1. \A i, j \in taken : i = j \/ i < j \/ j < i
    BY <1>2
  <2>2. \A i \in taken : place[i] \in Nat /\ place[i] = Place(i)
    BY <1>4
  <2>3. \A i, j \in taken : i < j => place[i] < place[j]
    BY <1>5, <2>2
  <2> HIDE DEF place, taken, Place, Earlier
  <2> QED
    BY <2>1, <2>2, <2>3
<1> HIDE DEF taken, place
<1>8. IsFiniteSet(taken) /\ Cardinality(taken) <= BatchSize
  <2>1. place \in Injection(taken, 0..(BatchSize - 1))
    BY <1>6, <1>7 DEF Injection, IsInjective
  <2>2. IsFiniteSet(0..(BatchSize - 1)) /\ Cardinality(0..(BatchSize - 1)) = BatchSize
    BY FS_Interval, BatchAssumption
  <2> QED
    BY <2>1, <2>2, FS_Injection
<1>9. IsFiniteSet(Batch(t)) /\ Cardinality(Batch(t)) <= Cardinality(taken)
  <2>1. rowAt \in Surjection(taken, Batch(t))
    BY <1>1 DEF Surjection
  <2> QED
    BY <1>8, <2>1, FS_Surjection
<1>10. Cardinality(Batch(t)) \in Nat /\ Cardinality(taken) \in Nat
  BY <1>8, <1>9, FS_CardinalityType
<1> QED
  BY <1>3, <1>8, <1>9, <1>10, BatchAssumption

\* What a run has selected has expired, is of three batches, and what is redacted has expired.
RetentionInv ==
    /\ Inv /\ aged \in BOOLEAN
    /\ expired \in Seq(AllRows) /\ ToSet(expired) \subseteq Rows
    /\ Redacted \subseteq ToSet(expired)
    /\ DOMAIN runs \subseteq Run
    /\ \A r \in DOMAIN runs :
          /\ runs[r] \subseteq ToSet(expired)
          /\ \A t \in Table : Cardinality({row \in runs[r] : row[1] = t}) <= BatchSize

LEMMA RetentionInitInv == RetentionInit => RetentionInv
<1> SUFFICES ASSUME RetentionInit PROVE RetentionInv
  OBVIOUS
<1>1. Inv
  BY InitInv, DeliveredInv DEF RetentionInit
<1>2. expired = << >> /\ redactedAt = << >> /\ runs = << >> /\ aged \in BOOLEAN
  BY DEF RetentionInit
<1>3. ToSet(expired) = {} /\ Redacted = {} /\ DOMAIN runs = {}
  BY <1>2 DEF ToSet, Redacted
<1> QED
  BY <1>1, <1>2, <1>3 DEF RetentionInv

\* The webhook and the worker only add rows.
LEMMA RowsGrow ==
    ASSUME Inv, Webhook \/ \E m \in Message : \E deleted : Extract(m, deleted)
    PROVE  Rows \subseteq Rows'
<1>1. inbound \subseteq inbound' /\ read \subseteq read'
      /\ rows.STORED \subseteq rows'.STORED /\ rows.FAILED \subseteq rows'.FAILED
  <2>1. ASSUME NEW h \in Request, RecordFailed(h) \/ RecordStored(h)
        PROVE  rows.STORED \subseteq rows'.STORED /\ rows.FAILED \subseteq rows'.FAILED
    <3>1. PICK stored, failed : Record(Msg(h), stored, failed)
      BY <2>1 DEF RecordFailed, RecordStored
    <3> QED
      BY <3>1 DEF Record
  <2> QED
    BY <2>1 DEF Webhook, Deliver, Reject, CreateMessage, FindExisting, FinishUploads,
       RecordFailed, RecordStored, ReadForEnqueue, Schedule, Answer, Fail, Quarantine, Upload, Extract
<1> QED
  BY <1>1 DEF Rows

LEMMA RetentionNextInv == ASSUME RetentionInv, RetentionNext PROVE RetentionInv'
<1>1. Inv'
  BY WebhookInv, ExtractInv, RetentionStep, OthersFailInv
     DEF RetentionInv, RetentionNext, Expire, RunStep, vars, OthersFail, Inv, TypeOK
<1>2. CASE UNCHANGED retentionVars /\ Rows \subseteq Rows'
  BY <1>1, <1>2 DEF RetentionInv, retentionVars, Redacted
<1>3. ASSUME NEW row \in Rows, Expire(row)
      PROVE  RetentionInv'
  <2>1. /\ expired' = Append(expired, row) /\ expired' \in Seq(AllRows)
        /\ UNCHANGED <<vars, aged, redactedAt, runs>>
    BY <1>3, RowsTyped DEF Expire, RetentionInv, Inv
  <2>2. ToSet(expired)' = ToSet(expired) \cup {row}
    BY <2>1 DEF RetentionInv, ToSet
  <2>3. Rows' = Rows
    BY <2>1 DEF Rows, vars
  <2> QED
    BY <1>1, <2>1, <2>2, <2>3 DEF RetentionInv, Redacted
<1>4. ASSUME NEW r \in Run, Select(r)
      PROVE  RetentionInv'
  <2> DEFINE ids == UNION {Batch(t) : t \in Table}
  <2>1. /\ runs' = [q \in DOMAIN runs \cup {r} |-> IF q = r THEN ids ELSE runs[q]]
        /\ UNCHANGED <<vars, aged, expired, redactedAt>>
    BY <1>4 DEF Select
  <2>2. ids \subseteq ToSet(expired)
    BY BatchIsBounded DEF RetentionInv
  <2>3. ASSUME NEW t \in Table
        PROVE  Cardinality({row \in ids : row[1] = t}) <= BatchSize
    <3>1. {row \in ids : row[1] = t} = Batch(t)
      BY BatchIsBounded DEF RetentionInv
    <3> QED
      BY <3>1, BatchIsBounded DEF RetentionInv
  <2>4. Rows' = Rows /\ ToSet(expired)' = ToSet(expired)
    BY <2>1 DEF Rows, vars, ToSet
  <2> HIDE DEF ids
  <2> QED
    BY <1>1, <2>1, <2>2, <2>3, <2>4 DEF RetentionInv, Redacted
<1>5. ASSUME NEW r \in Run, Update(r) \/ RunFails(r)
      PROVE  RetentionInv'
  <2>1. PICK tables \in SUBSET Table : Redact(r, tables) /\ r \in DOMAIN runs
    BY <1>5 DEF Update, RunFails
  <2>2. /\ DOMAIN runs' \subseteq DOMAIN runs /\ \A q \in DOMAIN runs' : runs'[q] = runs[q]
        /\ Redacted' \subseteq Redacted \cup runs[r]
        /\ UNCHANGED <<inbound, rows, read, aged, expired>>
    BY <2>1 DEF Redact, Unmarked, Redacted
  <2>3. Rows' = Rows /\ ToSet(expired)' = ToSet(expired)
    BY <2>2 DEF Rows, ToSet
  <2> QED
    BY <1>1, <2>1, <2>2, <2>3 DEF RetentionInv
<1> QED
  BY <1>2, <1>3, <1>4, <1>5, RowsGrow DEF RetentionNext, RunStep, RetentionInv

\* Runs redact only what has expired, and a run takes a batch of each table at most.
THEOREM RetentionTypes == RetentionSpec => []RetentionTypeOK
<1>1. RetentionInv /\ UNCHANGED retentionAll => RetentionInv'
  <2> SUFFICES ASSUME RetentionInv, UNCHANGED retentionAll PROVE RetentionInv'
    OBVIOUS
  <2>1. Inv' /\ Rows' = Rows
    BY OthersFailInv DEF RetentionInv, retentionAll, vars, OthersFail, Inv, TypeOK, Rows
  <2> QED
    BY <2>1 DEF RetentionInv, retentionAll, retentionVars, Redacted
<1>2. RetentionInv => RetentionTypeOK
  BY DEF RetentionInv, RetentionTypeOK, Inv
<1> QED
  BY RetentionInitInv, RetentionNextInv, <1>1, <1>2, PTL DEF RetentionSpec, retentionAll
=============================================================================
