------------------------- MODULE ClaimReviewProofs -------------------------
(***************************************************************************)
(* Safety of ClaimReview for any claims, columns, values, operators and    *)
(* workers, any number of attempts and any number of requests.             *)
(***************************************************************************)
EXTENDS ClaimReview, TLAPS

-----------------------------------------------------------------------------
(* Status and log.                                                         *)

\* The status that a log leads to after its first i events.
LogTo(log, i) == IF i = 0 THEN "NEW" ELSE log[i].to

\* LogExplainsStatus, of one log and one status.
Explains(log, s) ==
    /\ s = LogTo(log, Len(log))
    /\ \A i \in 1..Len(log) : log[i].from # LogTo(log, i - 1) =>
           {log[i].from, log[i].to, LogTo(log, i - 1)} \subseteq Result

LEMMA AppendExplains ==
    ASSUME NEW log \in Seq(Event), NEW e \in Event, NEW s, Explains(log, s),
           e.from = s \/ {e.from, e.to, s} \subseteq Result
    PROVE  Explains(Append(log, e), e.to)
<1> DEFINE new == Append(log, e)
<1>1. /\ Len(new) = Len(log) + 1 /\ Len(log) \in Nat /\ new[Len(new)] = e
      /\ \A i \in 1..Len(log) : new[i] = log[i]
  OBVIOUS
<1>2. LogTo(new, Len(new)) = e.to
  BY <1>1 DEF LogTo
<1>3. \A i \in 0..Len(log) : LogTo(new, i) = LogTo(log, i)
  BY <1>1 DEF LogTo
<1>4. ASSUME NEW i \in 1..Len(new), new[i].from # LogTo(new, i - 1)
      PROVE  {new[i].from, new[i].to, LogTo(new, i - 1)} \subseteq Result
  <2>1. CASE i \in 1..Len(log)
    <3>1. new[i] = log[i] /\ LogTo(new, i - 1) = LogTo(log, i - 1)
      BY <1>1, <1>3, <2>1
    <3> QED
      BY <1>4, <2>1, <3>1 DEF Explains
  <2>2. CASE i = Len(new)
    <3>1. new[i] = e /\ LogTo(new, i - 1) = s
      BY <1>1, <1>3, <2>2 DEF Explains
    <3> QED
      BY <1>4, <3>1
  <2> QED
    BY <1>1, <2>1, <2>2
<1> HIDE DEF new
<1>5. Explains(new, e.to)
  BY <1>2, <1>4 DEF Explains
<1> QED
  BY <1>5 DEF new

LEMMA LogIsExplained ==
    LogExplainsStatus <=> \A c \in Claim : Explains(events[c], status[c])
BY DEF LogExplainsStatus, Explains, LogTo

\* A claim that has no result yet is processed.
Progresses(c) ==
    /\ status[c] \notin Result
    /\ \E to \in Status, n \in Nat, f \in Failure : Advance(c, status[c], to, n, f)

\* Every step processes one claim, or moves one between its results, or changes none.
LEMMA ClaimStep ==
    ASSUME ReviewTypeOK, ReviewNext
    PROVE  \/ UNCHANGED vars
           \/ \E c \in Claim : Progresses(c)
           \/ \E r \in requests : CommitMove(r)
<1>1. ASSUME NEW c \in Claim, Begin(c) \/ Retry(c) \/ Recover(c)
      PROVE  Progresses(c)
  <2>1. status[c] \notin Result /\ Advance(c, status[c], "PROCESSING", attempt[c] + 1, failure[c])
    BY <1>1 DEF Begin, Retry, Recover, Result
  <2>2. attempt[c] + 1 \in Nat /\ failure[c] \in Failure /\ "PROCESSING" \in Status
    BY DEF ReviewTypeOK, TypeOK, Status
  <2> QED
    BY <2>1, <2>2 DEF Progresses
<1>2. ASSUME NEW j \in jobs, GiveUp(j)
      PROVE  UNCHANGED vars \/ \E c \in Claim : Progresses(c)
  <2>1. CASE Current(j) /\ Fail(j.claim)
    <3>1. j.claim \in Claim /\ attempt[j.claim] \in Nat /\ "ERROR" \in Status
      BY DEF ReviewTypeOK, TypeOK, Job, Status, Outcome
    <3>2. PICK f \in {"retryable", "fatal"} :
              Advance(j.claim, status[j.claim], "ERROR", attempt[j.claim], f)
      BY <2>1 DEF Fail
    <3>3. f \in Failure /\ status[j.claim] \notin Result
      BY <2>1, <3>2 DEF Fail, Failure, Result
    <3> QED
      BY <3>1, <3>2, <3>3 DEF Progresses
  <2> QED
    BY <1>2, <2>1 DEF GiveUp
<1>3. ASSUME NEW j \in jobs, NEW extracted \in Columns, PersistOutcome(j, extracted)
      PROVE  UNCHANGED vars \/ \E c \in Claim : Progresses(c)
  <2>1. CASE Current(j)
    <3>1. /\ j.claim \in Claim /\ attempt[j.claim] \in Nat
          /\ failure[j.claim] \in Failure /\ Result \subseteq Status
      BY DEF ReviewTypeOK, TypeOK, Job, Status, Outcome, Result
    <3>2. PICK s \in Result :
              Advance(j.claim, status[j.claim], s, attempt[j.claim], failure[j.claim])
      BY <1>3, <2>1 DEF PersistOutcome, Current
    <3>3. status[j.claim] \notin Result
      BY <2>1 DEF Current, Result
    <3> QED
      BY <3>1, <3>2, <3>3 DEF Progresses
  <2> QED
    BY <1>3, <2>1 DEF PersistOutcome
<1>4. ASSUME NEW c \in Claim, StartAttempt(c)
      PROVE  Progresses(c)
  BY <1>1, <1>4 DEF StartAttempt
<1>5. ASSUME NEW o \in Operator, NEW c \in Claim,
             ReadForEdit(o, c) \/ \E to \in Result : ReadForMove(o, c, to)
      PROVE  UNCHANGED vars
  BY <1>5 DEF ReadForEdit, ReadForMove, BeginRequest
<1>6. ASSUME NEW r \in requests, CommitEdit(r) \/ Abandon(r)
      PROVE  UNCHANGED vars
  BY <1>6 DEF CommitEdit, Abandon
<1>7. ASSUME NEW w \in Worker, NEW c \in Claim, ReadClaim(w, c)
      PROVE  UNCHANGED vars
  BY <1>7 DEF ReadClaim
<1> QED
  BY <1>2, <1>3, <1>4, <1>5, <1>6, <1>7 DEF ReviewNext

-----------------------------------------------------------------------------
(* Types.                                                                  *)

LEMMA AdvanceTypes ==
    ASSUME TypeOK, NEW c \in Claim, NEW to \in Status, NEW n \in Nat, NEW f \in Failure,
           Advance(c, status[c], to, n, f)
    PROVE  /\ TypeOK' /\ status'[c] = to
           /\ \A d \in Claim \ {c} : status'[d] = status[d] /\ events'[d] = events[d]
           /\ [from |-> status[c], to |-> to, attempt |-> n] \in Event
           /\ events'[c] = Append(events[c], [from |-> status[c], to |-> to, attempt |-> n])
<1>1. [from |-> status[c], to |-> to, attempt |-> n] \in Event
  BY DEF TypeOK, Event
<1>2. events' = [events EXCEPT ![c] =
                    Append(events[c], [from |-> status[c], to |-> to, attempt |-> n])]
  BY DEF Advance, TypeOK
<1>3. TypeOK'
  BY <1>1, <1>2 DEF Advance, TypeOK
<1> QED
  BY <1>1, <1>2, <1>3 DEF Advance, TypeOK

LEMMA MoveTypes ==
    ASSUME ReviewTypeOK, NEW r \in requests, CommitMove(r)
    PROVE  /\ TypeOK' /\ r.claim \in Claim /\ r.from \in Result /\ r.to \in Result
           /\ status'[r.claim] = r.to
           /\ \A d \in Claim \ {r.claim} : status'[d] = status[d] /\ events'[d] = events[d]
           /\ [from |-> r.from, to |-> r.to, attempt |-> attempt[r.claim]] \in Event
           /\ events'[r.claim] = Append(events[r.claim],
                  [from |-> r.from, to |-> r.to, attempt |-> attempt[r.claim]])
<1> DEFINE e == [from |-> r.from, to |-> r.to, attempt |-> attempt[r.claim]]
<1>1. r \in Move
  BY DEF ReviewTypeOK, CommitMove, Edit, Move
<1>2. r.claim \in Claim /\ r.from \in Result /\ r.to \in Result /\ Result \subseteq Status
  BY <1>1 DEF Move, Result, Status, Outcome
<1>3. e \in Event
  BY <1>2 DEF ReviewTypeOK, TypeOK, Event
<1>4. events' = [events EXCEPT ![r.claim] = Append(events[r.claim], e)]
  BY DEF CommitMove, ReviewTypeOK, TypeOK
<1>5. /\ status' = [status EXCEPT ![r.claim] = r.to]
      /\ UNCHANGED <<attempt, failure>>
  BY DEF CommitMove
<1> HIDE DEF e
<1>6. TypeOK'
  BY <1>2, <1>3, <1>4, <1>5 DEF ReviewTypeOK, TypeOK
<1>7. /\ status'[r.claim] = r.to
      /\ events'[r.claim] = Append(events[r.claim], e)
      /\ \A d \in Claim \ {r.claim} : status'[d] = status[d] /\ events'[d] = events[d]
  BY <1>2, <1>4, <1>5 DEF ReviewTypeOK, TypeOK
<1> QED
  BY <1>2, <1>3, <1>6, <1>7 DEF e

\* What becomes of the choices of the operators.
LEMMA PersistChoices ==
    ASSUME chosen \in [Claim -> Choices], NEW j \in jobs, j.claim \in Claim,
           NEW extracted \in Columns, PersistOutcome(j, extracted)
    PROVE  /\ chosen' \in [Claim -> Choices]
           /\ \A d \in Claim \ {j.claim} : chosen'[d] = chosen[d]
           /\ Current(j) => \A f \in Field : chosen'[j.claim][f] =
                  IF extracted[f] # Null \/ f \in j.missed THEN {} ELSE chosen[j.claim][f]
<1> DEFINE left == [f \in Field |-> IF extracted[f] # Null \/ f \in j.missed
                                    THEN {} ELSE chosen[j.claim][f]]
<1>1. left \in Choices
  BY DEF Choices
<1>2. CASE Current(j)
  <2>1. chosen' = [chosen EXCEPT ![j.claim] = left]
    BY <1>2 DEF PersistOutcome
  <2>2. \A f \in Field : left[f] = IF extracted[f] # Null \/ f \in j.missed
                                    THEN {} ELSE chosen[j.claim][f]
    OBVIOUS
  <2> HIDE DEF left
  <2>3. chosen'[j.claim] = left
    BY <2>1
  <2> QED
    BY <1>1, <2>1, <2>2, <2>3
<1>3. CASE ~Current(j)
  BY <1>3 DEF PersistOutcome
<1> QED
  BY <1>2, <1>3

LEMMA EditChoices ==
    ASSUME chosen \in [Claim -> Choices], NEW r \in Edit, r.claim \in Claim, CommitEdit(r)
    PROVE  /\ chosen' \in [Claim -> Choices]
           /\ \A d \in Claim \ {r.claim} : chosen'[d] = chosen[d]
           /\ \A f \in Field : chosen'[r.claim][f] =
                  IF r.next[f] # r.read[f] THEN {r.next[f]} ELSE chosen[r.claim][f]
<1> DEFINE set == [f \in Field |-> IF r.next[f] # r.read[f]
                                   THEN {r.next[f]} ELSE chosen[r.claim][f]]
<1>1. set \in Choices
  BY DEF Choices, Edit, Columns
<1>2. chosen' = [chosen EXCEPT ![r.claim] = set]
  BY DEF CommitEdit
<1>3. \A f \in Field : set[f] = IF r.next[f] # r.read[f] THEN {r.next[f]} ELSE chosen[r.claim][f]
  OBVIOUS
<1> HIDE DEF set
<1>4. chosen'[r.claim] = set
  BY <1>2
<1> QED
  BY <1>1, <1>2, <1>3, <1>4

LEMMA NextTypes == ASSUME ReviewTypeOK, ReviewNext PROVE ReviewTypeOK'
<1>1. TypeOK'
  <2>1. CASE UNCHANGED vars
    BY <2>1 DEF ReviewTypeOK, TypeOK, vars
  <2>2. CASE \E c \in Claim : Progresses(c)
    BY <2>2, AdvanceTypes DEF ReviewTypeOK, Progresses
  <2>3. CASE \E r \in requests : CommitMove(r)
    BY <2>3, MoveTypes
  <2> QED
    BY <2>1, <2>2, <2>3, ClaimStep
<1> DEFINE T == /\ value' \in [Claim -> Columns] /\ extraction' \in [Claim -> Columns]
                /\ jobs' \subseteq Job /\ requests' \subseteq Edit \cup Move /\ made' \in Nat
                /\ chosen' \in [Claim -> Choices]
<1>2. ASSUME NEW c \in Claim, StartAttempt(c) PROVE T
  BY <1>2 DEF ReviewTypeOK, StartAttempt
<1>3. ASSUME NEW w \in Worker, NEW c \in Claim, ReadClaim(w, c) PROVE T
  <2>1. value[c] \in Columns /\ attempt[c] \in Nat
    BY DEF ReviewTypeOK, TypeOK
  <2>2. [worker |-> w, claim |-> c, attempt |-> attempt[c], read |-> value[c], missed |-> {}] \in Job
    BY <2>1 DEF Job
  <2> QED
    BY <1>3, <2>2 DEF ReviewTypeOK, ReadClaim
<1>4. ASSUME NEW j \in jobs, GiveUp(j) PROVE T
  BY <1>4 DEF ReviewTypeOK, GiveUp
<1>5. ASSUME NEW j \in jobs, NEW extracted \in Columns, PersistOutcome(j, extracted) PROVE T
  <2>1. j \in Job /\ j.claim \in Claim /\ j.read \in Columns
    BY DEF ReviewTypeOK, Job
  <2>2. Merged(j, extracted) \in Columns
    BY <2>1 DEF Merged, Columns
  <2>3. value' \in [Claim -> Columns] /\ extraction' \in [Claim -> Columns]
    BY <1>5, <2>1, <2>2 DEF ReviewTypeOK, PersistOutcome
  <2>4. chosen' \in [Claim -> Choices]
    BY <1>5, <2>1, PersistChoices DEF ReviewTypeOK
  <2> QED
    BY <1>5, <2>3, <2>4 DEF ReviewTypeOK, PersistOutcome
<1>6. ASSUME NEW r \in Edit \cup Move, BeginRequest(r) PROVE T
  BY <1>6 DEF ReviewTypeOK, BeginRequest
<1>7. ASSUME NEW o \in Operator, NEW c \in Claim, ReadForEdit(o, c) PROVE T
  <2>1. PICK next \in Columns :
            BeginRequest([op |-> "edit", by |-> o, claim |-> c, read |-> value[c], next |-> next])
    BY <1>7 DEF ReadForEdit
  <2>2. value[c] \in Columns
    BY DEF ReviewTypeOK
  <2>3. [op |-> "edit", by |-> o, claim |-> c, read |-> value[c], next |-> next] \in Edit
    BY <2>2 DEF Edit
  <2> QED
    BY <1>6, <2>1, <2>3
<1>8. ASSUME NEW o \in Operator, NEW c \in Claim, NEW to \in Result, ReadForMove(o, c, to) PROVE T
  <2>1. status[c] \in Result
    BY <1>8 DEF ReadForMove, IsDashboardStatus
  <2>2. [op |-> "move", by |-> o, claim |-> c, from |-> status[c], to |-> to] \in Move
    BY <2>1 DEF Move
  <2> QED
    BY <1>6, <1>8, <2>2 DEF ReadForMove
<1>9. ASSUME NEW r \in requests, CommitEdit(r) PROVE T
  <2>1. r \in Edit /\ r.claim \in Claim /\ r.next \in Columns
    <3>1. r \in Edit
      BY <1>9 DEF ReviewTypeOK, CommitEdit, Edit, Move
    <3> QED
      BY <3>1 DEF Edit
  <2>2. value[r.claim] \in Columns
    BY <2>1 DEF ReviewTypeOK
  <2> DEFINE edited == [f \in Field |-> IF f \in Changed(r) THEN r.next[f] ELSE value[r.claim][f]]
  <2>3. edited \in Columns
    BY <2>1, <2>2 DEF Columns
  <2>4. value' = [value EXCEPT ![r.claim] = edited]
    BY <1>9, <2>1 DEF CommitEdit, ReviewTypeOK
  <2> HIDE DEF edited
  <2>5. value' \in [Claim -> Columns]
    BY <2>3, <2>4 DEF ReviewTypeOK
  <2>6. Changed(r) \subseteq Field
    BY DEF Changed
  <2>7. ASSUME NEW j \in jobs
        PROVE  [j EXCEPT !.missed = IF j.claim = r.claim THEN @ \cup Changed(r) ELSE @] \in Job
    BY <2>6 DEF ReviewTypeOK, Job
  <2>8. jobs' \subseteq Job
    BY <1>9, <2>7 DEF CommitEdit
  <2>9. chosen' \in [Claim -> Choices]
    BY <1>9, <2>1, EditChoices DEF ReviewTypeOK
  <2> QED
    BY <1>9, <2>5, <2>8, <2>9 DEF ReviewTypeOK, CommitEdit
<1>10. ASSUME NEW r \in requests, CommitMove(r) \/ Abandon(r) PROVE T
  BY <1>10 DEF ReviewTypeOK, CommitMove, Abandon
<1> HIDE DEF T
<1>11. T
  BY <1>2, <1>3, <1>4, <1>5, <1>7, <1>8, <1>9, <1>10 DEF ReviewNext
<1> QED
  BY <1>1, <1>11 DEF T, ReviewTypeOK

LEMMA InitTypes == ReviewInit => ReviewTypeOK
BY DEF ReviewInit, Init, ReviewTypeOK, TypeOK, Columns, Choices, Status, Failure

-----------------------------------------------------------------------------
(* The inductive invariant.                                                *)

\* A claim that an operator is moving has a result: results are never taken back.
MovesHaveResults == \A r \in requests : r.op = "move" => status[r.claim] \in Result

\* Until the claim has a result, what a worker has read of it is what it still has, but
\* for the columns that an operator has edited meanwhile.  Not only while it is in
\* processing: an attempt may fail and the next one begin while the worker lives on.
ReadsAreCurrent == \A j \in jobs : status[j.claim] \notin Result =>
    \A f \in Field \ j.missed : j.read[f] = value[j.claim][f]

Inv ==
    ReviewTypeOK /\ LogExplainsStatus /\ MovesHaveResults /\ ReadsAreCurrent /\ EditsStand

LEMMA ResultsStay ==
    ASSUME ReviewTypeOK, ReviewNext, NEW c \in Claim, status[c] \in Result
    PROVE  status'[c] \in Result
BY ClaimStep, AdvanceTypes, MoveTypes DEF ReviewTypeOK, Progresses, vars

LEMMA NextLog ==
    ASSUME Inv, ReviewNext
    PROVE  LogExplainsStatus'
<1>1. CASE UNCHANGED vars
  BY <1>1 DEF Inv, LogExplainsStatus, vars
<1>2. ASSUME NEW c \in Claim, NEW e \in Event,
             \A d \in Claim \ {c} : status'[d] = status[d] /\ events'[d] = events[d],
             events'[c] = Append(events[c], e), status'[c] = e.to,
             e.from = status[c] \/ {e.from, e.to, status[c]} \subseteq Result
      PROVE  LogExplainsStatus'
  <2>1. \A d \in Claim : Explains(events[d], status[d]) /\ events[d] \in Seq(Event)
    BY LogIsExplained DEF Inv, ReviewTypeOK, TypeOK
  <2>2. Explains(events'[c], status'[c])
    BY <1>2, <2>1, AppendExplains
  <2>3. \A d \in Claim : Explains(events'[d], status'[d])
    BY <1>2, <2>1, <2>2
  <2> QED
    BY <2>3 DEF LogExplainsStatus, Explains, LogTo
<1>3. CASE \E c \in Claim : Progresses(c)
  <2>1. PICK c \in Claim, to \in Status, n \in Nat, f \in Failure : Advance(c, status[c], to, n, f)
    BY <1>3 DEF Progresses
  <2> DEFINE e == [from |-> status[c], to |-> to, attempt |-> n]
  <2>2. /\ e \in Event /\ events'[c] = Append(events[c], e) /\ status'[c] = to
        /\ \A d \in Claim \ {c} : status'[d] = status[d] /\ events'[d] = events[d]
    BY <2>1, AdvanceTypes DEF Inv, ReviewTypeOK
  <2>3. e.from = status[c] /\ e.to = to
    OBVIOUS
  <2> HIDE DEF e
  <2> QED
    BY <1>2, <2>2, <2>3
<1>4. CASE \E r \in requests : CommitMove(r)
  <2>1. PICK r \in requests : CommitMove(r)
    BY <1>4
  <2> DEFINE e == [from |-> r.from, to |-> r.to, attempt |-> attempt[r.claim]]
  <2>2. /\ e \in Event /\ r.claim \in Claim /\ r.from \in Result /\ r.to \in Result
        /\ events'[r.claim] = Append(events[r.claim], e) /\ status'[r.claim] = r.to
        /\ \A d \in Claim \ {r.claim} : status'[d] = status[d] /\ events'[d] = events[d]
    BY <2>1, MoveTypes DEF Inv
  <2>3. e.from = r.from /\ e.to = r.to /\ status[r.claim] \in Result
    BY <2>1 DEF CommitMove, Inv, MovesHaveResults
  <2> HIDE DEF e
  <2> QED
    BY <1>2, <2>2, <2>3
<1> QED
  BY <1>1, <1>3, <1>4, ClaimStep DEF Inv

LEMMA NextMoves == ASSUME Inv, ReviewNext PROVE MovesHaveResults'
<1> SUFFICES ASSUME NEW r \in requests', r.op = "move" PROVE status'[r.claim] \in Result
  BY DEF MovesHaveResults
<1>1. CASE r \in requests
  <2>1. r.claim \in Claim /\ status[r.claim] \in Result
    BY <1>1 DEF Inv, MovesHaveResults, ReviewTypeOK, Edit, Move
  <2> QED
    BY <2>1, ResultsStay DEF Inv
<1>2. CASE r \notin requests
  <2>1. PICK o \in Operator, c \in Claim :
            ReadForEdit(o, c) \/ \E to \in Result : ReadForMove(o, c, to)
    BY <1>2 DEF ReviewNext, StartAttempt, ReadClaim, GiveUp, PersistOutcome, CommitEdit,
       CommitMove, Abandon
  <2>2. ASSUME NEW to \in Result, ReadForMove(o, c, to)
        PROVE  status'[r.claim] \in Result
    BY <1>2, <2>2 DEF ReadForMove, BeginRequest, IsDashboardStatus, vars
  <2>3. ~ReadForEdit(o, c)
    BY <1>2 DEF ReadForEdit, BeginRequest
  <2> QED
    BY <2>1, <2>2, <2>3
<1> QED
  BY <1>1, <1>2

\* Columns change in two ways.
LEMMA ValueStep ==
    ASSUME ReviewTypeOK, ReviewNext
    PROVE  \/ value' = value
           \/ \E j \in jobs, extracted \in Columns : PersistOutcome(j, extracted) /\ Current(j)
           \/ \E r \in requests : CommitEdit(r)
BY DEF ReviewNext, StartAttempt, ReadClaim, GiveUp, PersistOutcome, ReadForEdit, ReadForMove,
   BeginRequest, CommitMove, Abandon

LEMMA PersistValues ==
    ASSUME ReviewTypeOK, NEW j \in jobs, NEW extracted \in Columns,
           PersistOutcome(j, extracted), Current(j)
    PROVE  /\ j.claim \in Claim /\ status[j.claim] = "PROCESSING" /\ status'[j.claim] \in Result
           /\ value'[j.claim] = Merged(j, extracted) /\ extraction'[j.claim] = extracted
           /\ \A d \in Claim \ {j.claim} : value'[d] = value[d] /\ status'[d] = status[d]
<1>1. j.claim \in Claim
  BY DEF ReviewTypeOK, Job
<1>2. PICK s \in Result : Advance(j.claim, "PROCESSING", s, attempt[j.claim], failure[j.claim])
  BY DEF PersistOutcome
<1>3. /\ status' = [status EXCEPT ![j.claim] = s]
      /\ value' = [value EXCEPT ![j.claim] = Merged(j, extracted)]
      /\ extraction' = [extraction EXCEPT ![j.claim] = extracted]
  BY <1>2 DEF PersistOutcome, Advance
<1> QED
  BY <1>1, <1>3 DEF ReviewTypeOK, TypeOK, Current

LEMMA EditValues ==
    ASSUME ReviewTypeOK, NEW r \in requests, CommitEdit(r)
    PROVE  /\ r.claim \in Claim /\ UNCHANGED vars
           /\ \A d \in Claim \ {r.claim} : value'[d] = value[d]
           /\ \A f \in Field : value'[r.claim][f] =
                  IF f \in Changed(r) THEN r.next[f] ELSE value[r.claim][f]
<1>1. r.claim \in Claim
  BY DEF ReviewTypeOK, Edit, Move
<1> DEFINE edited == [f \in Field |-> IF f \in Changed(r) THEN r.next[f] ELSE value[r.claim][f]]
<1>2. value' = [value EXCEPT ![r.claim] = edited]
  BY <1>1 DEF CommitEdit, ReviewTypeOK
<1>3. value'[r.claim] = edited /\ \A d \in Claim \ {r.claim} : value'[d] = value[d]
  BY <1>1, <1>2 DEF ReviewTypeOK
<1> QED
  BY <1>1, <1>3 DEF CommitEdit

LEMMA NextReads == ASSUME Inv, ReviewNext PROVE ReadsAreCurrent'
<1> SUFFICES ASSUME NEW j \in jobs', status'[j.claim] \notin Result, NEW f \in Field \ j.missed
             PROVE  j.read[f] = value'[j.claim][f]
  BY DEF ReadsAreCurrent
<1>1. j \in Job /\ j.claim \in Claim
  BY NextTypes DEF Inv, ReviewTypeOK, Job
<1>2. status[j.claim] \notin Result
  BY <1>1, ResultsStay DEF Inv
<1>3. ASSUME NEW w \in Worker, NEW c \in Claim, ReadClaim(w, c)
      PROVE  j.read[f] = value'[j.claim][f]
  <2>1. CASE j \in jobs
    BY <1>2, <1>3, <2>1 DEF Inv, ReadsAreCurrent, ReadClaim
  <2>2. CASE j \notin jobs
    <3>1. j.claim = c /\ j.read = value[c]
      BY <1>3, <2>2 DEF ReadClaim
    <3> QED
      BY <1>3, <3>1 DEF ReadClaim
  <2> QED
    BY <2>1, <2>2
<1>4. ASSUME NEW r \in requests, CommitEdit(r)
      PROVE  j.read[f] = value'[j.claim][f]
  <2>1. PICK i \in jobs :
            j = [i EXCEPT !.missed = IF i.claim = r.claim THEN @ \cup Changed(r) ELSE @]
    BY <1>4 DEF CommitEdit
  <2>2. i \in Job
    BY DEF Inv, ReviewTypeOK
  <2>3. /\ i.claim = j.claim /\ i.read = j.read
        /\ j.missed = IF i.claim = r.claim THEN i.missed \cup Changed(r) ELSE i.missed
    BY <2>1, <2>2 DEF Job
  <2>4. f \in Field \ i.missed
    BY <2>3
  <2>5. j.read[f] = value[j.claim][f]
    BY <1>2, <2>3, <2>4 DEF Inv, ReadsAreCurrent
  <2>6. CASE j.claim = r.claim
    <3>1. f \notin Changed(r)
      BY <2>3, <2>6
    <3> QED
      BY <1>4, <2>5, <2>6, <3>1, EditValues DEF Inv
  <2>7. CASE j.claim # r.claim
    BY <1>1, <1>4, <2>5, <2>7, EditValues DEF Inv
  <2> QED
    BY <2>6, <2>7
<1>5. CASE j \in jobs /\ ~\E r \in requests : CommitEdit(r)
  <2>1. j.read[f] = value[j.claim][f]
    BY <1>2, <1>5 DEF Inv, ReadsAreCurrent
  <2>2. ASSUME NEW i \in jobs, NEW extracted \in Columns, PersistOutcome(i, extracted), Current(i)
        PROVE  value'[j.claim] = value[j.claim]
    <3>1. j.claim # i.claim
      BY <2>2, PersistValues DEF Inv
    <3> QED
      BY <1>1, <2>2, <3>1, PersistValues DEF Inv
  <2> QED
    BY <1>5, <2>1, <2>2, ValueStep DEF Inv
<1>6. \/ j \in jobs
      \/ \E w \in Worker, c \in Claim : ReadClaim(w, c)
      \/ \E r \in requests : CommitEdit(r)
  BY DEF ReviewNext, StartAttempt, GiveUp, PersistOutcome, ReadForEdit, ReadForMove,
     BeginRequest, CommitMove, Abandon
<1> QED
  BY <1>3, <1>4, <1>5, <1>6

\* A job that settles its claim writes back what it read, where that is still current;
\* where it is not, the choice was made behind its back.
LEMMA NextStand == ASSUME Inv, ReviewNext PROVE EditsStand'
<1> SUFFICES ASSUME NEW c \in Claim, NEW f \in Field
             PROVE  chosen'[c][f] \subseteq {value'[c][f]}
  BY DEF EditsStand
<1>1. chosen[c][f] \subseteq {value[c][f]} /\ chosen \in [Claim -> Choices]
  BY DEF Inv, EditsStand, ReviewTypeOK
<1>2. ASSUME NEW j \in jobs, NEW extracted \in Columns, PersistOutcome(j, extracted)
      PROVE  chosen'[c][f] \subseteq {value'[c][f]}
  <2>1. j.claim \in Claim
    BY DEF Inv, ReviewTypeOK, Job
  <2>2. CASE ~Current(j)
    BY <1>1, <1>2, <2>2 DEF PersistOutcome
  <2>3. CASE Current(j) /\ c # j.claim
    BY <1>1, <1>2, <2>1, <2>3, PersistChoices, PersistValues DEF Inv
  <2>4. CASE Current(j) /\ c = j.claim
    <3>1. /\ value'[c] = Merged(j, extracted)
          /\ chosen'[c][f] = IF extracted[f] # Null \/ f \in j.missed THEN {} ELSE chosen[c][f]
      BY <1>1, <1>2, <2>1, <2>4, PersistChoices, PersistValues DEF Inv
    <3>2. CASE extracted[f] # Null \/ f \in j.missed
      BY <3>1, <3>2
    <3>3. CASE extracted[f] = Null /\ f \notin j.missed
      <4>1. j.read[f] = value[c][f]
        BY <2>4, <3>3 DEF Inv, ReadsAreCurrent, Current, Result
      <4>2. value'[c][f] = j.read[f]
        BY <3>1, <3>3 DEF Merged
      <4> QED
        BY <1>1, <3>1, <3>3, <4>1, <4>2
    <3> QED
      BY <3>2, <3>3
  <2> QED
    BY <2>2, <2>3, <2>4
<1>3. ASSUME NEW r \in requests, CommitEdit(r)
      PROVE  chosen'[c][f] \subseteq {value'[c][f]}
  <2>1. r \in Edit /\ r.claim \in Claim
    <3>1. r \in Edit
      BY <1>3 DEF Inv, ReviewTypeOK, CommitEdit, Edit, Move
    <3> QED
      BY <3>1 DEF Edit
  <2>2. CASE c # r.claim
    BY <1>1, <1>3, <2>1, <2>2, EditChoices, EditValues DEF Inv
  <2>3. CASE c = r.claim
    <3>1. /\ chosen'[c][f] = IF r.next[f] # r.read[f] THEN {r.next[f]} ELSE chosen[c][f]
          /\ value'[c][f] = IF f \in Changed(r) THEN r.next[f] ELSE value[c][f]
      BY <1>1, <1>3, <2>1, <2>3, EditChoices, EditValues DEF Inv
    <3> QED
      BY <1>1, <3>1 DEF Changed
  <2> QED
    BY <2>2, <2>3
<1>4. \/ UNCHANGED <<chosen, value>>
      \/ \E j \in jobs, extracted \in Columns : PersistOutcome(j, extracted)
      \/ \E r \in requests : CommitEdit(r)
  BY DEF ReviewNext, StartAttempt, ReadClaim, GiveUp, ReadForEdit, ReadForMove, BeginRequest,
     CommitMove, Abandon
<1> QED
  BY <1>1, <1>2, <1>3, <1>4

LEMMA InitInv == ReviewInit => Inv
<1> SUFFICES ASSUME ReviewInit PROVE Inv
  OBVIOUS
<1>1. \A c \in Claim : status[c] = "NEW" /\ events[c] = <<>>
  BY DEF ReviewInit, Init
<1>2. LogExplainsStatus
  <2>1. Explains(<<>>, "NEW")
    BY DEF Explains, LogTo
  <2> QED
    BY <1>1, <2>1, LogIsExplained
<1>3. MovesHaveResults /\ ReadsAreCurrent /\ EditsStand
  BY DEF ReviewInit, MovesHaveResults, ReadsAreCurrent, EditsStand
<1> QED
  BY <1>2, <1>3, InitTypes DEF Inv

THEOREM SpecInv == ReviewSpec => []Inv
<1>1. Inv /\ [ReviewNext]_reviewVars => Inv'
  <2> SUFFICES ASSUME Inv, [ReviewNext]_reviewVars PROVE Inv'
    OBVIOUS
  <2>1. CASE ReviewNext
    BY <2>1, NextTypes, NextLog, NextMoves, NextReads, NextStand DEF Inv
  <2>2. CASE UNCHANGED reviewVars
    BY <2>2 DEF Inv, ReviewTypeOK, TypeOK, LogExplainsStatus, MovesHaveResults, ReadsAreCurrent,
       EditsStand, reviewVars, vars
  <2> QED
    BY <2>1, <2>2
<1> QED
  BY <1>1, InitInv, PTL DEF ReviewSpec

-----------------------------------------------------------------------------
(* The theorems.                                                           *)

\* Claims, their columns, extractions and requests are well formed.
THEOREM ReviewTypes == ReviewSpec => []ReviewTypeOK
BY SpecInv, PTL DEF Inv

\* The audit log of a claim explains its status, even though the moves of operators
\* compare nothing: a moved claim has a result when it is read, and results stay.
THEOREM ReviewLogExplainsStatus == ReviewSpec => []LogExplainsStatus
BY SpecInv, PTL DEF Inv

LEMMA OnlyEditsChangeResults ==
    ASSUME Inv, ReviewNext, NEW c \in Claim, status[c] \in Result, value'[c] # value[c]
    PROVE  \E r \in requests \ requests' : r.op = "edit" /\ r.claim = c
<1>1. ASSUME NEW j \in jobs, NEW extracted \in Columns, PersistOutcome(j, extracted), Current(j)
      PROVE  FALSE
  <2>1. c # j.claim
    BY <1>1, PersistValues DEF Inv, Result
  <2> QED
    BY <1>1, <2>1, PersistValues DEF Inv
<1>2. ASSUME NEW r \in requests, CommitEdit(r)
      PROVE  r \in requests \ requests' /\ r.op = "edit" /\ r.claim = c
  BY <1>2, EditValues DEF Inv, CommitEdit
<1> QED
  BY <1>1, <1>2, ValueStep DEF Inv

\* Once a claim has a result, no worker changes its columns, however late it is and
\* however many of them there are.
THEOREM ReviewResultsAreTheOperators == ReviewSpec => ResultsAreTheOperators
<1>1. Inv /\ [ReviewNext]_reviewVars =>
          [\A c \in Claim : (status[c] \in Result /\ value'[c] # value[c]) =>
              \E r \in requests \ requests' : r.op = "edit" /\ r.claim = c]_reviewVars
  BY OnlyEditsChangeResults
<1> QED
  BY <1>1, SpecInv, PTL DEF ReviewSpec, ResultsAreTheOperators

\* What an operator chose for a column stands: no edit from an older snapshot, no failed
\* attempt and no worker that lost its claim puts another value in its place.
THEOREM ReviewEditsStand == ReviewSpec => []EditsStand
BY SpecInv, PTL DEF Inv

LEMMA SettlingKeeps ==
    ASSUME Inv, ReviewNext, NEW j \in jobs, Settles(j), NEW f \in Field \ j.missed
    PROVE  Keeps(j, f)
<1>1. j \in Job /\ j.claim \in Claim /\ status[j.claim] \notin Result
  BY DEF Inv, ReviewTypeOK, Job, Settles, Result
<1>2. ASSUME NEW i \in jobs, GiveUp(i)
      PROVE  status'[j.claim] \notin Result
  <2>1. CASE UNCHANGED vars
    BY <1>1, <2>1 DEF vars
  <2>2. CASE Current(i) /\ Fail(i.claim)
    <3>1. status' = [status EXCEPT ![i.claim] = "ERROR"]
      BY <2>2 DEF Fail, Advance
    <3> QED
      BY <1>1, <3>1 DEF Inv, ReviewTypeOK, TypeOK, Result
  <2> QED
    BY <1>2, <2>1, <2>2 DEF GiveUp
<1>3. ASSUME NEW r \in requests, CommitMove(r)
      PROVE  status'[j.claim] = status[j.claim]
  <2>1. r.claim # j.claim
    BY <1>1, <1>3 DEF CommitMove, Inv, MovesHaveResults
  <2> QED
    BY <1>1, <1>3, <2>1, MoveTypes DEF Inv
<1>4. PICK i \in jobs, extracted \in Columns : PersistOutcome(i, extracted)
  BY <1>1, <1>2, <1>3 DEF Settles, ReviewNext, StartAttempt, ReadClaim, ReadForEdit, ReadForMove,
     BeginRequest, CommitEdit, Abandon, vars
<1>5. i = j
  BY <1>4 DEF Settles, PersistOutcome
<1>6. Current(j)
  BY <1>1, <1>4, <1>5 DEF PersistOutcome, Settles, vars
<1>7. value'[j.claim] = Merged(j, extracted) /\ extraction'[j.claim] = extracted
  BY <1>4, <1>5, <1>6, PersistValues DEF Inv
<1>8. j.read[f] = value[j.claim][f]
  BY <1>1 DEF Inv, ReadsAreCurrent
<1> QED
  BY <1>7, <1>8 DEF Keeps, Merged

\* An extraction that settles a claim leaves what it did not extract as it is, except
\* for columns that operators have edited since the worker read the claim.
THEOREM ReviewPriorValuesKept == ReviewSpec => PriorValuesKept
<1>1. Inv /\ [ReviewNext]_reviewVars =>
          [\A j \in jobs : Settles(j) => \A f \in Field \ j.missed : Keeps(j, f)]_reviewVars
  BY SettlingKeeps
<1> QED
  BY <1>1, SpecInv, PTL DEF ReviewSpec, PriorValuesKept
=============================================================================
