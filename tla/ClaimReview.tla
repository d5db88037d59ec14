---------------------------- MODULE ClaimReview ----------------------------
(***************************************************************************)
(* Operators and workers at the same claim.  A claim is processed as in    *)
(* ClaimLifecycle; meanwhile operators correct its extracted columns and   *)
(* move it between READY and REVIEW_REQUIRED.  Both read the claim first   *)
(* and write it later, and only the worker compares anything when it does. *)
(*                                                                         *)
(* The processing lease is that of ClaimProcessing and is left out here:   *)
(* any number of workers may extract for an attempt, and only the WHERE    *)
(* clause of their updates keeps them apart.                               *)
(***************************************************************************)
EXTENDS ClaimLifecycle

CONSTANTS Operator,
          Worker,
          Field,         \* the columns that are extracted and that operators may edit
          Value,
          Null,
          MaxAttempt,    \* bound: how many attempts a claim may have
          MaxRequests    \* bound: how many requests operators may make

ASSUME NullAssumption == Null \notin Value
ASSUME ReviewBoundAssumption == MaxAttempt \in Nat /\ MaxRequests \in Nat

VARIABLES
    value,        \* the columns of each claim
    extraction,   \* what the latest ClaimExtraction row of the claim says, null or not
    jobs,         \* extractions under way
    requests,     \* operators between their read of a claim and their transaction
    made,         \* number of requests so far
    chosen        \* history: what operators chose for each column, and no extraction may undo

reviewVars == <<vars, value, extraction, jobs, requests, made, chosen>>

Columns == [Field -> Value \cup {Null}]
Choices == [Field -> SUBSET (Value \cup {Null})]
Result == {"READY", "REVIEW_REQUIRED"}

\* missed: the columns that operators have edited since the worker read the claim.
Job == [worker : Worker, claim : Claim, attempt : Nat, read : Columns, missed : SUBSET Field]
Edit == [op : {"edit"}, by : Operator, claim : Claim, read : Columns, next : Columns]
Move == [op : {"move"}, by : Operator, claim : Claim, from : Result, to : Result]

\* The webhook fills some of the columns (issueSummary).
ReviewInit ==
    /\ Init
    /\ value \in [Claim -> Columns]
    /\ extraction = [c \in Claim |-> [f \in Field |-> Null]]
    /\ jobs = {} /\ requests = {} /\ made = 0
    /\ chosen = [c \in Claim |-> [f \in Field |-> {}]]

-----------------------------------------------------------------------------
(* Processing.                                                             *)

StartAttempt(c) ==
    /\ attempt[c] < MaxAttempt
    /\ Begin(c) \/ Retry(c) \/ Recover(c)
    /\ UNCHANGED <<value, extraction, jobs, requests, made, chosen>>

\* The read at the start of processClaimIngestJob: the columns are kept until the
\* extraction is done.
ReadClaim(w, c) ==
    /\ \A j \in jobs : j.worker # w
    /\ status[c] = "PROCESSING"
    /\ jobs' = jobs \cup {[worker |-> w, claim |-> c, attempt |-> attempt[c],
                           read |-> value[c], missed |-> {}]}
    /\ UNCHANGED <<vars, value, extraction, requests, made, chosen>>

\* Mutant: the status is not compared.
CurrentByAttempt(j) == attempt[j.claim] = j.attempt

\* The WHERE clause of the worker's updates; a token is as good as its attempt.
Current(j) == status[j.claim] = "PROCESSING" /\ attempt[j.claim] = j.attempt

\* Mutant: what was not extracted is cleared.
MergedOverwriting(j, extracted) == extracted

\* extracted.customerName ?? input.claim.customerName, and so on.
Merged(j, extracted) ==
    [f \in Field |-> IF extracted[f] = Null THEN j.read[f] ELSE extracted[f]]

\* persistClaimExtractionOutcome, or nothing if the attempt is over.  A choice of the
\* operators gives way to what was extracted, or was made behind the worker's back.
PersistOutcome(j, extracted) ==
    /\ IF Current(j)
       THEN /\ \E s \in Result :
                 Advance(j.claim, "PROCESSING", s, attempt[j.claim], failure[j.claim])
            /\ value' = [value EXCEPT ![j.claim] = Merged(j, extracted)]
            /\ extraction' = [extraction EXCEPT ![j.claim] = extracted]
            /\ chosen' = [chosen EXCEPT ![j.claim] =
                   [f \in Field |-> IF extracted[f] # Null \/ f \in j.missed THEN {} ELSE @[f]]]
       ELSE UNCHANGED <<vars, value, extraction, chosen>>
    /\ jobs' = jobs \ {j}
    /\ UNCHANGED <<requests, made>>

\* The worker gives the job up: markClaimAsError, or a release, or its death.
GiveUp(j) ==
    /\ jobs' = jobs \ {j}
    /\ (Current(j) /\ Fail(j.claim)) \/ UNCHANGED vars
    /\ UNCHANGED <<value, extraction, requests, made, chosen>>

-----------------------------------------------------------------------------
(* Review.                                                                 *)

BeginRequest(r) ==
    /\ \A q \in requests : q.by # r.by
    /\ made < MaxRequests
    /\ made' = made + 1
    /\ requests' = requests \cup {r}
    /\ UNCHANGED <<vars, value, extraction, jobs, chosen>>

\* updateClaimReview, up to its transaction, in whatever status the claim is.  The
\* form may be older than the read, so it may hold anything.
ReadForEdit(o, c) ==
    \E next \in Columns :
        /\ next # value[c]
        /\ BeginRequest([op |-> "edit", by |-> o, claim |-> c, read |-> value[c], next |-> next])

\* Mutants: the whole form is written; an ERROR may be overridden.
ChangedAlways(r) == Field
IsDashboardStatusOrError(s) == s \in Result \cup {"ERROR"}

\* buildClaimReviewMutation: what differs between the form and the read.
Changed(r) == {f \in Field : r.next[f] # r.read[f]}

IsDashboardStatus(s) == s \in Result

CommitEdit(r) ==
    /\ r.op = "edit"
    /\ value' = [value EXCEPT ![r.claim] =
                    [f \in Field |-> IF f \in Changed(r) THEN r.next[f] ELSE @[f]]]
    /\ jobs' = {[j EXCEPT !.missed = IF j.claim = r.claim THEN @ \cup Changed(r) ELSE @] : j \in jobs}
    /\ requests' = requests \ {r}
    /\ chosen' = [chosen EXCEPT ![r.claim] =
                     [f \in Field |-> IF r.next[f] # r.read[f] THEN {r.next[f]} ELSE @[f]]]
    /\ UNCHANGED <<vars, extraction, made>>

\* transitionDashboardClaimStatus, up to its transaction.
ReadForMove(o, c, to) ==
    /\ IsDashboardStatus(status[c])
    /\ status[c] # to
    /\ BeginRequest([op |-> "move", by |-> o, claim |-> c, from |-> status[c], to |-> to])

\* The update compares nothing, and the event says what was read.
CommitMove(r) ==
    /\ r.op = "move"
    /\ status' = [status EXCEPT ![r.claim] = r.to]
    /\ events' = [events EXCEPT ![r.claim] =
                     Append(@, [from |-> r.from, to |-> r.to, attempt |-> attempt[r.claim]])]
    /\ requests' = requests \ {r}
    /\ UNCHANGED <<attempt, failure, value, extraction, jobs, made, chosen>>

\* The request dies, or its transaction rolls back.
Abandon(r) ==
    /\ requests' = requests \ {r}
    /\ UNCHANGED <<vars, value, extraction, jobs, made, chosen>>

ReviewNext ==
    \/ \E c \in Claim : StartAttempt(c)
    \/ \E w \in Worker, c \in Claim : ReadClaim(w, c)
    \/ \E j \in jobs : GiveUp(j) \/ \E extracted \in Columns : PersistOutcome(j, extracted)
    \/ \E o \in Operator, c \in Claim :
         ReadForEdit(o, c) \/ \E to \in Result : ReadForMove(o, c, to)
    \/ \E r \in requests : CommitEdit(r) \/ CommitMove(r) \/ Abandon(r)

ReviewSpec == ReviewInit /\ [][ReviewNext]_reviewVars

-----------------------------------------------------------------------------

ReviewTypeOK ==
    /\ TypeOK
    /\ value \in [Claim -> Columns] /\ extraction \in [Claim -> Columns]
    /\ jobs \subseteq Job
    /\ requests \subseteq Edit \cup Move
    /\ made \in Nat
    /\ chosen \in [Claim -> Choices]

\* Once a claim has a result, only operators change its columns: late, duplicate
\* and superseded workers do not.
ResultsAreTheOperators ==
    [][\A c \in Claim : (status[c] \in Result /\ value'[c] # value[c]) =>
         \E r \in requests \ requests' : r.op = "edit" /\ r.claim = c]_reviewVars

\* What an operator chose for a column stands, whatever comes later: another edit from
\* an older snapshot, attempts that fail, workers that read the claim before they lost
\* it.  Only a later choice takes its place, or an extraction that settles the claim
\* with a value of its own for the column, or that had read it before the choice.
EditsStand == \A c \in Claim, f \in Field : chosen[c][f] \subseteq {value[c][f]}

\* The audit log of a claim is the path of its status, but for the moves of operators:
\* it ends in the current status, and an event that does not start where the one
\* before it ended is a move between results.
LogExplainsStatus == \A c \in Claim :
    LET log == events[c]
        To(i) == IF i = 0 THEN "NEW" ELSE log[i].to
    IN  /\ status[c] = To(Len(log))
        /\ \A i \in 1..Len(log) : log[i].from # To(i - 1) =>
               {log[i].from, log[i].to, To(i - 1)} \subseteq Result

\* A job that settles its claim.
Settles(j) ==
    /\ j \notin jobs' /\ status[j.claim] = "PROCESSING" /\ status'[j.claim] \in Result

\* "Keeps prior values" (tests/ingest-pipeline.test.ts): what was not extracted stays
\* as it is in the claim ...
Keeps(j, f) == extraction'[j.claim][f] = Null => value'[j.claim][f] = value[j.claim][f]

\* ... except where an operator edited the column while the extraction ran.
PriorValuesKept ==
    [][\A j \in jobs : Settles(j) => \A f \in Field \ j.missed : Keeps(j, f)]_reviewVars

\* ... always.
EditsSurviveExtraction ==
    [][\A j \in jobs : Settles(j) => \A f \in Field : Keeps(j, f)]_reviewVars
=============================================================================
