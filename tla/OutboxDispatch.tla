--------------------------- MODULE OutboxDispatch ---------------------------
(***************************************************************************)
(* The dispatcher of the claim ingest outbox.  Whoever commits a row tries *)
(* to send it at once; the worker loops sweep up what is still pending.    *)
(* Each dispatch of a row claims a lease, sends, and strikes the row off   *)
(* or gives the lease back.  Leases expire (60 s), senders may be slower   *)
(* than that, any call may fail, with or without effect, and processes die. *)
(* A sweep whose claim throws is abandoned: the worker loop goes on to the *)
(* next one while its other runners still take rows and send them.         *)
(*                                                                         *)
(* Time is abstract: a lease that is held may count as stale for whoever   *)
(* looks.  That covers the clock of a sweep, which is read once for all    *)
(* its rows: a row that is claimed late in a sweep carries an old lease.   *)
(***************************************************************************)
EXTENDS Naturals, FiniteSets

CONSTANTS Entry,        \* outbox rows, numbered in the order of a sweep (availableAt, createdAt, id)
          Sweeper,      \* worker loops, each running dispatchPendingClaimIngestQueueOutbox over and over
          NoOne,        \* dispatchLeaseToken IS NULL
          Poison,       \* rows that SQS never accepts (their queueUrl is gone)
          BatchSize,
          Concurrency,
          MaxFaults     \* bound: how many faults may happen in a behaviour

ASSUME EntryAssumption == Entry \subseteq Nat /\ Poison \subseteq Entry
ASSUME SweeperAssumption ==
    /\ Sweeper \cap Entry = {}
    /\ NoOne \notin (Sweeper \cup Entry) \X (0..MaxFaults)
ASSUME SizeAssumption ==
    /\ BatchSize \in Nat \ {0}
    /\ Concurrency \in Nat \ {0}
    /\ MaxFaults \in Nat

VARIABLES
    row,        \* the row of each entry
    todo,       \* what each dispatcher has selected and not yet tried to claim
    jobs,       \* dispatches that claimed their row
    lost,       \* how many runners of each dispatcher ended because their claim threw
    sends,      \* messages that SQS accepted for each entry
    excused,    \* history: dispatches that may repeat one that succeeded
    faults

vars == <<row, todo, jobs, lost, sends, excused, faults>>

\* A sweep <<s, g>> is what worker loop s runs when it has abandoned g sweeps before.
\* The creator of a row e dispatches that row only: <<e, 0>>.  A dispatcher has one
\* dispatch of a row at a time, so its name serves as the token.
Sweep == Sweeper \X (0..MaxFaults)
Dispatcher == Sweep \cup (Entry \X {0})
Process == Sweeper \cup Entry
Row == [status : {"absent", "pending", "dispatched", "deleted"},
        lease : Dispatcher \cup {NoOne}, expired : BOOLEAN]
Job == [by : Dispatcher, entry : Entry, pc : {"sending", "marking", "clearing"}]

Init ==
    /\ row = [e \in Entry |-> [status |-> "absent", lease |-> NoOne, expired |-> FALSE]]
    /\ todo = [d \in Dispatcher |-> {}]
    /\ jobs = {}
    /\ lost = [d \in Dispatcher |-> 0]
    /\ sends = [e \in Entry |-> 0]
    /\ excused = [e \in Entry |-> 0]
    /\ faults = 0

Fault == faults < MaxFaults /\ faults' = faults + 1

Pending(e) == row[e].status = "pending"
JobsOf(d) == {j \in jobs : j.by = d}

\* The transaction that starts an attempt commits its row (createClaimIngestQueueOutboxEntry);
\* the request goes on with dispatchClaimIngestQueueOutboxById.
Commit(e) ==
    /\ row[e].status = "absent"
    /\ row' = [row EXCEPT ![e].status = "pending"]
    /\ todo' = [todo EXCEPT ![<<e, 0>>] = {e}]
    /\ UNCHANGED <<jobs, lost, sends, excused, faults>>

\* Mutants: stale leases are not taken over; leases are not respected.
ClaimableIfFree(e) == Pending(e) /\ row[e].lease = NoOne
ClaimableAlways(e) == Pending(e)

\* The WHERE clause of a sweep's selection and of the claim.
Claimable(e) == Pending(e) /\ (row[e].lease = NoOne \/ row[e].expired)

\* findMany ... orderBy ... take: the first BatchSize claimable rows.
Batch == {e \in Entry : Claimable(e)
            /\ Cardinality({f \in Entry : Claimable(f) /\ f < e}) < BatchSize}

Busy(d) == todo[d] # {} \/ JobsOf(d) # {}

\* Mutant: the loop does not wait for the runners of the sweep before.
TurnOfAny(d) == todo[d] = {}

\* runWithConcurrency is awaited.  A claim that throws rejects it at once: the loop
\* catches that and comes to its next sweep, whatever the other runners still do.
Turn(d) ==
    /\ lost[d] = 0 /\ ~Busy(d)
    /\ \A g \in 0..MaxFaults : g < d[2] => lost[<<d[1], g>>] > 0

SelectBatch(d) ==
    /\ Turn(d)
    /\ Batch # {}
    /\ todo' = [todo EXCEPT ![d] = Batch]
    /\ UNCHANGED <<row, jobs, lost, sends, excused, faults>>

\* The runners take the rows in order; one whose claim threw takes no more.
HasRunner(d) == Cardinality(JobsOf(d)) + lost[d] < Concurrency
TakesNext(d, e) ==
    /\ e \in todo[d] /\ \A f \in todo[d] : e <= f
    /\ HasRunner(d)
    /\ todo' = [todo EXCEPT ![d] = @ \ {e}]

\* The claim of the lease: the row is ours, or is left alone ("lease_unavailable",
\* "already_dispatched", "not_found").
Claim(d, e) ==
    /\ TakesNext(d, e)
    /\ IF Claimable(e)
       THEN /\ row' = [row EXCEPT ![e].lease = d, ![e].expired = FALSE]
            /\ jobs' = jobs \cup {[by |-> d, entry |-> e, pc |-> "sending"]}
            /\ excused' = [excused EXCEPT ![e] = IF row[e].expired THEN @ + 1 ELSE @]
       ELSE UNCHANGED <<row, jobs, excused>>
    /\ UNCHANGED <<lost, sends, faults>>

\* The claim throws, with or without effect, and its runner ends.
ClaimThrows(d, e) ==
    /\ TakesNext(d, e)
    /\ Fault
    /\ lost' = [lost EXCEPT ![d] = @ + 1]
    /\ \/ UNCHANGED <<row, excused>>
       \/ /\ Claimable(e)
          /\ row' = [row EXCEPT ![e].lease = d, ![e].expired = FALSE]
          /\ excused' = [excused EXCEPT ![e] = IF row[e].expired THEN @ + 1 ELSE @]
    /\ UNCHANGED <<jobs, sends>>

\* Mutant: what was sent is not told from what was not.
AfterSendAnyway(accepted) == "marking"

AfterSend(accepted) == IF accepted THEN "marking" ELSE "clearing"

GoOn(j, pc) == jobs' = (jobs \ {j}) \cup {[j EXCEPT !.pc = pc]}
Sent(e) == sends' = [sends EXCEPT ![e] = @ + 1]

\* sendClaimIngestQueueMessage: accepted, refused, or accepted with the answer lost.
Send(j) ==
    LET e == j.entry
    IN  /\ j.pc = "sending"
        /\ \/ /\ e \notin Poison
              /\ Sent(e)
              /\ GoOn(j, AfterSend(TRUE))
              /\ UNCHANGED <<excused, faults>>
           \/ /\ e \in Poison
              /\ GoOn(j, AfterSend(FALSE))
              /\ UNCHANGED <<sends, excused, faults>>
        /\ UNCHANGED <<row, todo, lost>>

SendThrows(j) ==
    LET e == j.entry
    IN  /\ j.pc = "sending" /\ e \notin Poison
        /\ Fault
        /\ GoOn(j, AfterSend(FALSE))
        /\ \/ UNCHANGED <<sends, excused>>
           \/ Sent(e) /\ excused' = [excused EXCEPT ![e] = @ + 1]
        /\ UNCHANGED <<row, todo, lost>>

\* Mutant: the token is not compared.
OwnsPending(j) == Pending(j.entry)

\* The WHERE clause of the two updates that end a dispatch.
Owns(j) == Pending(j.entry) /\ row[j.entry].lease = j.by

\* The updates that end a dispatch: the row is struck off, or given back.
EndDispatch(j, pc, status) ==
    /\ j.pc = pc
    /\ IF Owns(j)
       THEN row' = [row EXCEPT ![j.entry] =
                        [status |-> status, lease |-> NoOne, expired |-> FALSE]]
       ELSE UNCHANGED row
    /\ jobs' = jobs \ {j}
    /\ UNCHANGED <<todo, lost, sends, excused, faults>>

Mark(j) == EndDispatch(j, "marking", "dispatched")

\* clearClaimIngestQueueOutboxDispatchLease
Clear(j) == EndDispatch(j, "clearing", "pending")

\* Either update throws; both errors are swallowed and the lease is left to expire.
EndThrows(j) ==
    /\ j.pc \in {"marking", "clearing"}
    /\ Fault
    /\ jobs' = jobs \ {j}
    /\ UNCHANGED <<row, todo, lost, sends, excused>>

\* A process dies, with all its dispatches, those of abandoned sweeps included.
Crash(p) ==
    LET killed == {d \in Dispatcher : d[1] = p}
    IN  /\ \E d \in killed : Busy(d)
        /\ Fault
        /\ todo' = [d \in Dispatcher |-> IF d \in killed THEN {} ELSE todo[d]]
        /\ jobs' = {j \in jobs : j.by \notin killed}
        /\ UNCHANGED <<row, lost, sends, excused>>

\* A lease becomes stale: a fault (a slow sender, a slow sweep) while its holder works.
HolderWorks(e) == \E j \in jobs : j.entry = e /\ j.by = row[e].lease
Expire(e) ==
    /\ Pending(e) /\ row[e].lease # NoOne /\ ~row[e].expired
    /\ IF HolderWorks(e) THEN Fault ELSE UNCHANGED faults
    /\ row' = [row EXCEPT ![e].expired = TRUE]
    /\ UNCHANGED <<todo, jobs, lost, sends, excused>>

\* cleanupDispatchedClaimIngestQueueOutbox deletes rows that were struck off long ago.
Cleanup(e) ==
    /\ row[e].status = "dispatched"
    /\ row' = [row EXCEPT ![e].status = "deleted"]
    /\ UNCHANGED <<todo, jobs, lost, sends, excused, faults>>

Next ==
    \/ \E e \in Entry : Commit(e) \/ Expire(e) \/ Cleanup(e)
    \/ \E d \in Sweep : SelectBatch(d)
    \/ \E p \in Process : Crash(p)
    \/ \E d \in Dispatcher, e \in Entry : Claim(d, e) \/ ClaimThrows(d, e)
    \/ \E j \in jobs : Send(j) \/ SendThrows(j) \/ Mark(j) \/ Clear(j) \/ EndThrows(j)

Spec == Init /\ [][Next]_vars

\* Worker loops sweep on and finish their batches; time passes.  The request that
\* commits a row need not live to dispatch it.
Fairness ==
    /\ \A d \in Sweep :
          /\ WF_vars(SelectBatch(d))
          /\ WF_vars(\E e \in Entry : Claim(d, e))
    /\ \A d \in Dispatcher :
          WF_vars(\E j \in JobsOf(d) : Send(j) \/ Mark(j) \/ Clear(j))
    /\ \A e \in Entry : WF_vars(~HolderWorks(e) /\ Expire(e))

FairSpec == Spec /\ Fairness

-----------------------------------------------------------------------------

\* With the limits of a sweep: rows selected (ingestQueueOutboxDispatchBatchSize) and
\* runners (ingestQueueOutboxDispatchConcurrency), those included that have ended.  They
\* are no limits of a worker: its sweeps overlap, but only when the earlier one threw.
TypeOK ==
    /\ row \in [Entry -> Row]
    /\ todo \in [Dispatcher -> SUBSET Entry]
    /\ jobs \subseteq Job
    /\ lost \in [Dispatcher -> Nat]
    /\ sends \in [Entry -> Nat]
    /\ excused \in [Entry -> Nat]
    /\ faults \in Nat
    /\ \A d \in Dispatcher :
          /\ Cardinality(todo[d]) <= BatchSize
          /\ Cardinality(JobsOf(d)) + lost[d] <= Concurrency
    /\ \A s \in Sweeper, g, h \in 0..MaxFaults :
          (g < h /\ Busy(<<s, h>>)) => lost[<<s, g>>] > 0

\* A message is sent again only because a lease went stale or an answer was lost:
\* however the creator and the sweeps of several workers overlap, rows that are
\* dispatched undisturbed are sent once.
NoNeedlessDuplicate == \A e \in Entry : sends[e] <= 1 + excused[e]

\* A dispatch that lost its lease never touches the row again: it neither strikes it
\* off nor frees the lease of its successor.
LoserNeverWrites ==
    [][\A j \in jobs : (row[j.entry].lease # j.by /\ j \notin jobs') =>
         row'[j.entry] = row[j.entry]]_vars

\* Whatever was committed is struck off in the end, crashes and lost answers
\* notwithstanding, unless SQS never takes it; rows that never succeed are no obstacle
\* as long as they do not fill a batch.
PendingIsDispatched == \A e \in Entry \ Poison :
    row[e].status = "pending" ~> row[e].status # "pending"

\* The promise of OutboxDelivery: nothing is struck off, or deleted, unsent.
Delivery == INSTANCE OutboxDelivery WITH
    state  <- [e \in Entry |-> CASE row[e].status = "absent" -> "absent"
                                 [] row[e].status = "pending" -> "pending"
                                 [] OTHER -> "done"],
    copies <- sends

DeliverySpec == Delivery!Spec
=============================================================================
