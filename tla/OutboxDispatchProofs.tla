------------------------ MODULE OutboxDispatchProofs ------------------------
(***************************************************************************)
(* Safety of OutboxDispatch for any rows, any number of worker loops, any  *)
(* batch size and concurrency, and any number of faults.                   *)
(***************************************************************************)
EXTENDS OutboxDispatch, FiniteSetTheorems, TLAPS

LEMMA DispatcherIsSomeone == NoOne \notin Dispatcher
<1>1. 0 \in 0..MaxFaults
  BY SizeAssumption
<1>2. Dispatcher \subseteq (Sweeper \cup Entry) \X (0..MaxFaults)
  BY <1>1 DEF Dispatcher, Sweep
<1> QED
  BY <1>2, SweeperAssumption

-----------------------------------------------------------------------------
(* Types.                                                                  *)

Types ==
    /\ row \in [Entry -> Row]
    /\ todo \in [Dispatcher -> SUBSET Entry]
    /\ jobs \subseteq Job /\ IsFiniteSet(jobs)
    /\ lost \in [Dispatcher -> Nat]
    /\ sends \in [Entry -> Nat]
    /\ excused \in [Entry -> Nat]
    /\ faults \in Nat

\* The ways in which a step changes the jobs and the runners.
Takes(d, e) ==
    /\ jobs' = jobs \cup {[by |-> d, entry |-> e, pc |-> "sending"]}
    /\ e \in todo[d] /\ HasRunner(d) /\ lost' = lost
Loses(d) ==
    /\ jobs' = jobs /\ HasRunner(d)
    /\ lost' = [lost EXCEPT ![d] = @ + 1]
JobsStep ==
    \/ \E d \in Dispatcher, e \in Entry : Takes(d, e)
    \/ \E d \in Dispatcher : Loses(d)
    \/ lost' = lost /\ \E j \in jobs : \E pc \in {"marking", "clearing"} : GoOn(j, pc)
    \/ lost' = lost /\ jobs' \subseteq jobs

LEMMA EndDispatchTypes ==
    ASSUME Types, NEW j \in jobs, NEW pc, NEW status \in {"dispatched", "pending"},
           EndDispatch(j, pc, status)
    PROVE  Types' /\ jobs' \subseteq jobs /\ lost' = lost
<1>1. j \in Job /\ j.entry \in Entry
  BY DEF Types, Job
<1>2. row' \in [Entry -> Row]
  <2>1. [status |-> status, lease |-> NoOne, expired |-> FALSE] \in Row
    BY DEF Row
  <2> QED
    BY <1>1, <2>1 DEF Types, EndDispatch
<1>3. jobs' = jobs \ {j} /\ IsFiniteSet(jobs')
  BY FS_RemoveElement DEF Types, EndDispatch
<1> QED
  BY <1>2, <1>3 DEF Types, EndDispatch

LEMMA SendTypes ==
    ASSUME Types, NEW j \in jobs, Send(j) \/ SendThrows(j)
    PROVE  Types' /\ lost' = lost /\ (\E pc \in {"marking", "clearing"} : GoOn(j, pc))
<1>1. j \in Job /\ j.entry \in Entry
  BY DEF Types, Job
<1>2. PICK pc \in {"marking", "clearing"} : GoOn(j, pc)
  BY DEF Send, SendThrows, AfterSend
<1>3. [j EXCEPT !.pc = pc] \in Job
  BY <1>1, <1>2 DEF Job
<1>4. jobs' \subseteq Job
  BY <1>2, <1>3 DEF Types, GoOn
<1>5. IsFiniteSet(jobs')
  BY <1>2, FS_RemoveElement, FS_AddElement DEF Types, GoOn
<1>6. sends' \in [Entry -> Nat] /\ excused' \in [Entry -> Nat] /\ faults' \in Nat
  <2>1. sends[j.entry] + 1 \in Nat /\ excused[j.entry] + 1 \in Nat /\ faults + 1 \in Nat
    BY <1>1 DEF Types
  <2>2. CASE Send(j)
    BY <1>1, <2>1, <2>2 DEF Types, Send, Sent
  <2>3. CASE SendThrows(j)
    BY <1>1, <2>1, <2>3 DEF Types, SendThrows, Sent, Fault
  <2> QED
    BY <2>2, <2>3
<1>7. row' = row /\ todo' = todo /\ lost' = lost
  BY DEF Send, SendThrows
<1> QED
  BY <1>2, <1>4, <1>5, <1>6, <1>7 DEF Types

LEMMA NextTypes == ASSUME Types, Next PROVE Types' /\ JobsStep
<1>1. ASSUME NEW e \in Entry, Commit(e) \/ Expire(e) \/ Cleanup(e)
      PROVE  Types' /\ jobs' = jobs /\ lost' = lost
  <2>1. row' \in [Entry -> Row]
    <3>1. row[e] \in Row
      BY DEF Types
    <3>2. /\ [row[e] EXCEPT !.expired = TRUE] \in Row
          /\ \A status \in {"pending", "deleted"} : [row[e] EXCEPT !.status = status] \in Row
      BY <3>1 DEF Row
    <3> QED
      BY <1>1, <3>2 DEF Types, Commit, Expire, Cleanup
  <2>2. <<e, 0>> \in Dispatcher
    BY DEF Dispatcher
  <2>3. todo' \in [Dispatcher -> SUBSET Entry] /\ faults' \in Nat
    BY <1>1, <2>2 DEF Types, Commit, Expire, Cleanup, Fault
  <2> QED
    BY <1>1, <2>1, <2>3 DEF Types, Commit, Expire, Cleanup
<1>2. ASSUME NEW d \in Sweep, SelectBatch(d)
      PROVE  Types' /\ jobs' = jobs /\ lost' = lost
  <2>1. d \in Dispatcher /\ Batch \in SUBSET Entry
    BY DEF Dispatcher, Batch
  <2>2. todo' = [todo EXCEPT ![d] = Batch]
    BY <1>2 DEF SelectBatch
  <2>3. todo' \in [Dispatcher -> SUBSET Entry]
    BY <2>1, <2>2 DEF Types
  <2> QED
    BY <1>2, <2>3 DEF Types, SelectBatch
<1>3. ASSUME NEW p \in Process, Crash(p)
      PROVE  Types' /\ jobs' \subseteq jobs /\ lost' = lost
  <2>1. jobs' \subseteq jobs
    BY <1>3 DEF Crash
  <2>2. IsFiniteSet(jobs')
    BY <2>1, FS_Subset DEF Types
  <2>3. todo' \in [Dispatcher -> SUBSET Entry] /\ faults' \in Nat
    <3>1. \A d \in Dispatcher : {} \in SUBSET Entry /\ todo[d] \in SUBSET Entry
      BY DEF Types
    <3> QED
      BY <1>3, <3>1 DEF Types, Crash, Fault
  <2> QED
    BY <1>3, <2>1, <2>2, <2>3 DEF Types, Crash
<1>4. ASSUME NEW d \in Dispatcher, NEW e \in Entry, Claim(d, e)
      PROVE  Types' /\ JobsStep
  <2>1. /\ todo' \in [Dispatcher -> SUBSET Entry] /\ HasRunner(d) /\ lost' = lost
        /\ e \in todo[d]
    BY <1>4 DEF Types, Claim, TakesNext
  <2>2. CASE Claimable(e)
    <3>1. row' \in [Entry -> Row] /\ excused' \in [Entry -> Nat]
      <4>1. row[e] \in Row /\ excused[e] + 1 \in Nat
        BY DEF Types
      <4>2. [row[e] EXCEPT !.lease = d, !.expired = FALSE] \in Row
        BY <4>1 DEF Row
      <4>3. row' = [row EXCEPT ![e] = [row[e] EXCEPT !.lease = d, !.expired = FALSE]]
        BY <1>4, <2>2 DEF Types, Claim
      <4>4. excused' \in [Entry -> Nat]
        BY <1>4, <2>2, <4>1 DEF Types, Claim
      <4> QED
        BY <4>2, <4>3, <4>4 DEF Types
    <3>2. jobs' = jobs \cup {[by |-> d, entry |-> e, pc |-> "sending"]}
      BY <1>4, <2>2 DEF Claim
    <3>3. jobs' \subseteq Job
      BY <3>2 DEF Types, Job
    <3>4. IsFiniteSet(jobs')
      BY <3>2, FS_AddElement DEF Types
    <3> QED
      BY <1>4, <2>1, <3>1, <3>2, <3>3, <3>4 DEF Types, JobsStep, Takes, Claim
  <2>3. CASE ~Claimable(e)
    BY <1>4, <2>1, <2>3 DEF Types, JobsStep, Claim
  <2> QED
    BY <2>2, <2>3
<1>5. ASSUME NEW d \in Dispatcher, NEW e \in Entry, ClaimThrows(d, e)
      PROVE  Types' /\ Loses(d)
  <2>1. todo' \in [Dispatcher -> SUBSET Entry] /\ lost' \in [Dispatcher -> Nat]
    BY <1>5 DEF Types, ClaimThrows, TakesNext
  <2>2. row' \in [Entry -> Row] /\ excused' \in [Entry -> Nat]
    BY <1>5 DEF Types, ClaimThrows, Row
  <2> QED
    BY <1>5, <2>1, <2>2 DEF Types, ClaimThrows, TakesNext, Loses, Fault
<1>6. ASSUME NEW j \in jobs, EndThrows(j)
      PROVE  Types' /\ jobs' \subseteq jobs /\ lost' = lost
  <2>1. jobs' = jobs \ {j} /\ IsFiniteSet(jobs')
    BY <1>6, FS_RemoveElement DEF Types, EndThrows
  <2> QED
    BY <1>6, <2>1 DEF Types, EndThrows, Fault
<1>7. ASSUME NEW j \in jobs, Mark(j) \/ Clear(j)
      PROVE  Types' /\ jobs' \subseteq jobs /\ lost' = lost
  BY <1>7, EndDispatchTypes DEF Mark, Clear
<1> QED
  BY <1>1, <1>2, <1>3, <1>4, <1>5, <1>6, <1>7, SendTypes DEF Next, JobsStep

LEMMA InitTypes == Init => Types
BY FS_EmptySet DEF Init, Types, Row

LEMMA SpecTypes == Spec => []Types
<1>1. Types /\ UNCHANGED vars => Types'
  BY DEF Types, vars
<1> QED
  BY InitTypes, NextTypes, <1>1, PTL DEF Spec

-----------------------------------------------------------------------------
(* The limits of a sweep.                                                  *)

\* The selection of a sweep is finite and no larger than the batch size: the number
\* of claimable rows before a row tells the selected rows apart.
LEMMA BatchIsBounded == IsFiniteSet(Batch) /\ Cardinality(Batch) <= BatchSize
<1> DEFINE Before(e) == {f \in Entry : Claimable(f) /\ f < e}
           rank == [e \in Batch |-> Cardinality(Before(e))]
<1>0. \A e \in Entry : e \in Nat
  BY EntryAssumption
<1>1. ASSUME NEW e \in Entry
      PROVE  IsFiniteSet(Before(e)) /\ Cardinality(Before(e)) \in Nat
  <2>1. e \in Nat /\ Before(e) \in SUBSET Nat /\ \A f \in Before(e) : f <= e
    BY <1>0
  <2> HIDE DEF Before
  <2>2. IsFiniteSet(Before(e))
    BY <2>1, FS_BoundedSetOfNaturals
  <2> QED
    BY <2>2, FS_CardinalityType
<1>2. ASSUME NEW e \in Batch, NEW f \in Batch, e < f
      PROVE  rank[e] < rank[f]
  <2>1. e \in Entry /\ f \in Entry /\ Claimable(e)
    BY DEF Batch
  <2>2. e \notin Before(e) /\ Before(e) \cup {e} \subseteq Before(f)
    BY <1>0, <1>2, <2>1
  <2> HIDE DEF Before
  <2>3. IsFiniteSet(Before(e) \cup {e}) /\ Cardinality(Before(e) \cup {e}) = Cardinality(Before(e)) + 1
    BY <1>1, <2>1, <2>2, FS_AddElement
  <2>4. Cardinality(Before(e) \cup {e}) <= Cardinality(Before(f))
    BY <1>1, <2>1, <2>2, FS_Subset
  <2> QED
    BY <1>1, <2>1, <2>3, <2>4
<1>3. rank \in [Batch -> 0..(BatchSize - 1)]
  <2>1. ASSUME NEW e \in Batch
        PROVE  Cardinality(Before(e)) \in 0..(BatchSize - 1)
    BY <1>1, SizeAssumption DEF Batch
  <2> QED
    BY <2>1
<1>4. \A e, f \in Batch : rank[e] = rank[f] => e = f
  <2>1. \A e, f \in Batch : e = f \/ e < f \/ f < e
    BY <1>0 DEF Batch
  <2>2. \A e \in Batch : rank[e] \in Nat
    BY <1>3
  <2> HIDE DEF rank
  <2> QED
    BY <1>2, <2>1, <2>2
<1>5. rank \in Injection(Batch, 0..(BatchSize - 1))
  BY <1>3, <1>4 DEF Injection, IsInjective
<1>6. IsFiniteSet(0..(BatchSize - 1)) /\ Cardinality(0..(BatchSize - 1)) = BatchSize
  BY FS_Interval, SizeAssumption
<1> QED
  BY <1>5, <1>6, FS_Injection

Limited == \A d \in Dispatcher :
    /\ IsFiniteSet(todo[d]) /\ Cardinality(todo[d]) <= BatchSize
    /\ Cardinality(JobsOf(d)) + lost[d] <= Concurrency

\* Two sweeps of one worker are busy only if the earlier one has lost a runner.
Overlaps == \A s \in Sweeper, g, h \in 0..MaxFaults :
    (g < h /\ Busy(<<s, h>>)) => lost[<<s, g>>] > 0

LEMMA NextTodo ==
    ASSUME Types, Next, NEW d \in Dispatcher
    PROVE  \/ todo'[d] \subseteq todo[d]
           \/ todo'[d] = Batch /\ SelectBatch(d)
           \/ \E e \in Entry : todo'[d] = {e} /\ d = <<e, 0>>
<1>1. ASSUME NEW e \in Entry, Commit(e)
      PROVE  todo'[d] \subseteq todo[d] \/ (todo'[d] = {e} /\ d = <<e, 0>>)
  BY <1>1 DEF Types, Commit
<1>2. ASSUME NEW s \in Sweep, SelectBatch(s)
      PROVE  todo'[d] \subseteq todo[d] \/ (todo'[d] = Batch /\ s = d)
  BY <1>2 DEF Types, SelectBatch
<1>3. ASSUME NEW p \in Process, Crash(p)
      PROVE  todo'[d] \subseteq todo[d]
  BY <1>3 DEF Types, Crash
<1>4. ASSUME NEW c \in Dispatcher, NEW e \in Entry, Claim(c, e) \/ ClaimThrows(c, e)
      PROVE  todo'[d] \subseteq todo[d]
  BY <1>4 DEF Types, Claim, ClaimThrows, TakesNext
<1>5. ASSUME NEW e \in Entry, Expire(e) \/ Cleanup(e)
      PROVE  todo' = todo
  BY <1>5 DEF Expire, Cleanup
<1>6. ASSUME NEW j \in jobs, Send(j) \/ SendThrows(j) \/ Mark(j) \/ Clear(j) \/ EndThrows(j)
      PROVE  todo' = todo
  BY <1>6 DEF Send, SendThrows, Mark, Clear, EndDispatch, EndThrows
<1> QED
  BY <1>1, <1>2, <1>3, <1>4, <1>5, <1>6 DEF Next

LEMMA AddedOne ==
    ASSUME NEW S, NEW x, IsFiniteSet(S)
    PROVE  Cardinality(S \cup {x}) <= Cardinality(S) + 1
<1>1. Cardinality(S) \in Nat
  BY FS_CardinalityType
<1>2. Cardinality(S \cup {x}) = IF x \in S THEN Cardinality(S) ELSE Cardinality(S) + 1
  BY FS_AddElement
<1> QED
  BY <1>1, <1>2

LEMMA ReplacedOne ==
    ASSUME NEW S, NEW x \in S, NEW y, IsFiniteSet(S)
    PROVE  Cardinality((S \ {x}) \cup {y}) <= Cardinality(S)
<1>1. Cardinality(S) \in Nat
  BY FS_CardinalityType
<1>2. IsFiniteSet(S \ {x}) /\ Cardinality(S \ {x}) = Cardinality(S) - 1
  BY FS_RemoveElement
<1>3. Cardinality((S \ {x}) \cup {y}) <= Cardinality(S \ {x}) + 1
  BY <1>2, AddedOne
<1> QED
  BY <1>1, <1>2, <1>3

LEMMA NextJobsOf ==
    ASSUME Types, Next, NEW d \in Dispatcher, Cardinality(JobsOf(d)) + lost[d] <= Concurrency
    PROVE  Cardinality(JobsOf(d))' + lost'[d] <= Concurrency
<1>1. IsFiniteSet(JobsOf(d)) /\ Cardinality(JobsOf(d)) \in Nat /\ IsFiniteSet(JobsOf(d)')
      /\ Cardinality(JobsOf(d)') \in Nat
  <2>1. IsFiniteSet(jobs) /\ IsFiniteSet(jobs')
    BY NextTypes DEF Types
  <2>2. JobsOf(d) \in SUBSET jobs /\ JobsOf(d)' \in SUBSET jobs'
    BY DEF JobsOf
  <2>3. IsFiniteSet(JobsOf(d)) /\ IsFiniteSet(JobsOf(d)')
    BY <2>1, <2>2, FS_Subset
  <2> QED
    BY <2>3, FS_CardinalityType
<1>2. lost[d] \in Nat /\ lost'[d] \in Nat /\ Concurrency \in Nat
  BY NextTypes, SizeAssumption DEF Types
<1>3. CASE lost' = lost /\ jobs' \subseteq jobs
  <2>1. JobsOf(d)' \in SUBSET JobsOf(d)
    BY <1>3 DEF JobsOf
  <2>2. Cardinality(JobsOf(d)') <= Cardinality(JobsOf(d))
    BY <1>1, <2>1, FS_Subset
  <2> QED
    BY <1>1, <1>2, <1>3, <2>2
<1>4. ASSUME NEW c \in Dispatcher, NEW e \in Entry, Takes(c, e)
      PROVE  Cardinality(JobsOf(d))' + lost'[d] <= Concurrency
  <2> DEFINE k == [by |-> c, entry |-> e, pc |-> "sending"]
  <2>1. CASE c = d
    <3>1. JobsOf(d)' = JobsOf(d) \cup {k}
      BY <1>4, <2>1 DEF JobsOf, Takes
    <3>2. Cardinality(JobsOf(d) \cup {k}) <= Cardinality(JobsOf(d)) + 1
      BY <1>1, AddedOne
    <3>3. Cardinality(JobsOf(d)) + lost[d] < Concurrency /\ lost' = lost
      BY <1>4, <2>1 DEF HasRunner, Takes
    <3> QED
      BY <1>1, <1>2, <3>1, <3>2, <3>3
  <2>2. CASE c # d
    <3>1. JobsOf(d)' = JobsOf(d) /\ lost' = lost
      BY <1>4, <2>2 DEF JobsOf, Takes
    <3> QED
      BY <3>1
  <2> QED
    BY <2>1, <2>2
<1>5. ASSUME NEW c \in Dispatcher, Loses(c)
      PROVE  Cardinality(JobsOf(d))' + lost'[d] <= Concurrency
  <2>1. JobsOf(d)' = JobsOf(d)
    BY <1>5 DEF JobsOf, Loses
  <2>2. lost'[d] = IF c = d THEN lost[d] + 1 ELSE lost[d]
    BY <1>5 DEF Types, Loses
  <2>3. c = d => Cardinality(JobsOf(d)) + lost[d] < Concurrency
    BY <1>5 DEF Loses, HasRunner
  <2> QED
    BY <1>1, <1>2, <2>1, <2>2, <2>3
<1>6. ASSUME NEW j \in jobs, NEW pc, GoOn(j, pc), lost' = lost
      PROVE  Cardinality(JobsOf(d))' + lost'[d] <= Concurrency
  <2> DEFINE k == [j EXCEPT !.pc = pc]
  <2>1. j \in Job /\ k.by = j.by
    BY DEF Types, Job
  <2>2. CASE j.by = d
    <3>1. j \in JobsOf(d)
      BY <2>2 DEF JobsOf
    <3>2. JobsOf(d)' = (JobsOf(d) \ {j}) \cup {k}
      BY <1>6, <2>1, <2>2 DEF JobsOf, GoOn
    <3>3. Cardinality((JobsOf(d) \ {j}) \cup {k}) <= Cardinality(JobsOf(d))
      BY <1>1, <3>1, ReplacedOne
    <3> QED
      BY <1>1, <1>2, <1>6, <3>2, <3>3
  <2>3. CASE j.by # d
    <3>1. JobsOf(d)' = JobsOf(d)
      BY <1>6, <2>1, <2>3 DEF JobsOf, GoOn
    <3> QED
      BY <1>6, <3>1
  <2> QED
    BY <2>2, <2>3
<1> QED
  BY <1>3, <1>4, <1>5, <1>6, NextTypes DEF JobsStep

\* A sweep becomes busy when it selects a batch, and in no other way.
LEMMA BecomesBusy ==
    ASSUME Types, Next, NEW d \in Sweep, ~Busy(d), Busy(d)'
    PROVE  SelectBatch(d)
<1>1. d \in Dispatcher /\ \A e \in Entry : d # <<e, 0>>
  BY SweeperAssumption DEF Dispatcher, Sweep
<1>2. todo[d] = {} /\ \A j \in jobs : j.by # d
  BY DEF Busy, JobsOf
<1>3. \A j \in jobs' : j.by # d
  <2>1. ASSUME NEW j \in jobs, NEW pc, GoOn(j, pc)
        PROVE  \A k \in jobs' : k.by # d
    <3>1. [j EXCEPT !.pc = pc].by = j.by
      BY DEF Types, Job
    <3> QED
      BY <1>2, <2>1, <3>1 DEF GoOn
  <2> QED
    BY <1>2, <2>1, NextTypes DEF JobsStep, Takes, Loses
<1>4. todo'[d] # {}
  BY <1>3 DEF Busy, JobsOf
<1> QED
  BY <1>1, <1>2, <1>4, NextTodo

LEMMA NextOverlaps == ASSUME Types, Overlaps, Next PROVE Overlaps'
<1> SUFFICES ASSUME NEW s \in Sweeper, NEW g \in 0..MaxFaults, NEW h \in 0..MaxFaults,
                    g < h, Busy(<<s, h>>)'
             PROVE  lost'[<<s, g>>] > 0
  BY DEF Overlaps
<1> DEFINE d == <<s, h>>
           e == <<s, g>>
<1>1. d \in Dispatcher /\ e \in Dispatcher /\ d \in Sweep
  BY DEF Dispatcher, Sweep
<1>2. lost[e] > 0 => lost'[e] > 0
  <2>1. lost[e] \in Nat
    BY <1>1 DEF Types
  <2> HIDE DEF e
  <2> QED
    BY <1>1, <2>1, NextTypes DEF Types, JobsStep, Takes, Loses
<1>3. CASE Busy(d)
  BY <1>2, <1>3 DEF Overlaps
<1>4. CASE ~Busy(d)
  <2>1. lost[e] > 0
    BY <1>1, <1>4, BecomesBusy DEF SelectBatch, Turn
  <2> QED
    BY <1>2, <2>1
<1> QED
  BY <1>3, <1>4

LEMMA SpecLimited == Spec => []Limited
<1>1. Init => Limited
  <2> SUFFICES ASSUME Init PROVE Limited
    OBVIOUS
  <2>1. \A d \in Dispatcher : todo[d] = {} /\ JobsOf(d) = {} /\ lost[d] = 0
    BY DEF Init, JobsOf
  <2>2. IsFiniteSet({}) /\ Cardinality({}) = 0
    BY FS_EmptySet
  <2> QED
    BY <2>1, <2>2, SizeAssumption DEF Limited
<1>2. ASSUME Types, Limited, Next PROVE Limited'
  <2> SUFFICES ASSUME NEW d \in Dispatcher
               PROVE  /\ IsFiniteSet(todo'[d]) /\ Cardinality(todo'[d]) <= BatchSize
                      /\ Cardinality(JobsOf(d))' + lost'[d] <= Concurrency
    BY DEF Limited
  <2>1. Cardinality(JobsOf(d))' + lost'[d] <= Concurrency
    BY <1>2, NextJobsOf DEF Limited
  <2>2. CASE todo'[d] \subseteq todo[d]
    <3>1. IsFiniteSet(todo[d]) /\ Cardinality(todo[d]) \in Nat /\ Cardinality(todo[d]) <= BatchSize
      BY <1>2, FS_CardinalityType DEF Limited
    <3>2. IsFiniteSet(todo'[d]) /\ Cardinality(todo'[d]) <= Cardinality(todo[d])
      BY <2>2, <3>1, FS_Subset
    <3>3. Cardinality(todo'[d]) \in Nat
      BY <3>2, FS_CardinalityType
    <3> QED
      BY <2>1, <3>1, <3>2, <3>3, SizeAssumption
  <2>3. CASE todo'[d] = Batch
    BY <2>1, <2>3, BatchIsBounded
  <2>4. ASSUME NEW e, todo'[d] = {e}
        PROVE  IsFiniteSet(todo'[d]) /\ Cardinality(todo'[d]) <= BatchSize
    <3>1. IsFiniteSet({e}) /\ Cardinality({e}) = 1
      BY FS_Singleton
    <3> QED
      BY <2>4, <3>1, SizeAssumption
  <2> QED
    BY <1>2, <2>1, <2>2, <2>3, <2>4, NextTodo
<1>3. Limited /\ UNCHANGED vars => Limited'
  BY DEF Limited, vars, JobsOf
<1> QED
  BY SpecTypes, <1>1, <1>2, <1>3, PTL DEF Spec

LEMMA SpecOverlaps == Spec => []Overlaps
<1>1. Init => Overlaps
  BY DEF Init, Overlaps, Busy, JobsOf, Dispatcher, Sweep
<1>2. Overlaps /\ UNCHANGED vars => Overlaps'
  BY DEF Overlaps, Busy, JobsOf, vars
<1> QED
  BY SpecTypes, NextOverlaps, <1>1, <1>2, PTL DEF Spec

\* However many rows are pending, a sweep selects no more than a batch and has no more
\* runners than its concurrency allows; it runs beside an earlier sweep of the same
\* worker only after a claim of that one threw.
THEOREM OutboxTypeOK == Spec => []TypeOK
<1>1. Types /\ Limited /\ Overlaps => TypeOK
  BY DEF Types, Limited, Overlaps, TypeOK
<1> QED
  BY SpecTypes, SpecLimited, SpecOverlaps, <1>1, PTL

-----------------------------------------------------------------------------
(* Duplicates.  A message may be sent for every dispatch that has claimed  *)
(* the row and has not been seen to succeed.  One such dispatch is free    *)
(* while the row is leased, or struck off; the others are excused.         *)

Unsent(J, e) == {j \in J : j.entry = e /\ j.pc # "marking"}
Permit(e) ==
    IF row[e].status \in {"absent", "pending"} /\ row[e].lease = NoOne THEN 0 ELSE 1
Budget == \A e \in Entry :
    sends[e] + Cardinality(Unsent(jobs, e)) <= excused[e] + Permit(e)

LEMMA UnsentFinite ==
    ASSUME NEW J, IsFiniteSet(J), NEW e
    PROVE  IsFiniteSet(Unsent(J, e)) /\ Cardinality(Unsent(J, e)) \in Nat
<1>1. Unsent(J, e) \in SUBSET J
  BY DEF Unsent
<1>2. IsFiniteSet(Unsent(J, e))
  BY <1>1, FS_Subset
<1> QED
  BY <1>2, FS_CardinalityType

LEMMA UnsentSubset ==
    ASSUME NEW J, IsFiniteSet(J), NEW K \in SUBSET J, NEW e
    PROVE  Cardinality(Unsent(K, e)) <= Cardinality(Unsent(J, e))
<1>1. Unsent(K, e) \in SUBSET Unsent(J, e)
  BY DEF Unsent
<1> QED
  BY <1>1, UnsentFinite, FS_Subset

LEMMA UnsentDropped ==
    ASSUME NEW J, IsFiniteSet(J), NEW j \in J, j.pc # "marking"
    PROVE  Cardinality(Unsent(J \ {j}, j.entry)) = Cardinality(Unsent(J, j.entry)) - 1
<1>1. j \in Unsent(J, j.entry) /\ Unsent(J \ {j}, j.entry) = Unsent(J, j.entry) \ {j}
  BY DEF Unsent
<1> QED
  BY <1>1, UnsentFinite, FS_RemoveElement

LEMMA UnsentClaimed ==
    ASSUME NEW J, IsFiniteSet(J), NEW d, NEW f, NEW e
    PROVE  LET K == J \cup {[by |-> d, entry |-> f, pc |-> "sending"]}
           IN  Cardinality(Unsent(K, e)) <= Cardinality(Unsent(J, e)) + (IF e = f THEN 1 ELSE 0)
<1> DEFINE k == [by |-> d, entry |-> f, pc |-> "sending"]
           K == J \cup {k}
<1>1. IsFiniteSet(Unsent(J, e)) /\ Cardinality(Unsent(J, e)) \in Nat
  BY UnsentFinite
<1>2. CASE e = f
  <2>1. Unsent(K, e) = Unsent(J, e) \cup {k}
    BY <1>2 DEF Unsent
  <2>2. Cardinality(Unsent(J, e) \cup {k}) <= Cardinality(Unsent(J, e)) + 1
    BY <1>1, AddedOne
  <2> QED
    BY <1>2, <2>1, <2>2
<1>3. CASE e # f
  <2>1. Unsent(K, e) = Unsent(J, e)
    BY <1>3 DEF Unsent
  <2> QED
    BY <1>1, <1>3, <2>1
<1> QED
  BY <1>2, <1>3

LEMMA UnsentMoved ==
    ASSUME Types, NEW j \in jobs, j.pc = "sending", NEW pc \in {"marking", "clearing"}, NEW e,
           GoOn(j, pc)
    PROVE  Cardinality(Unsent(jobs', e)) <=
               Cardinality(Unsent(jobs, e)) - (IF pc = "marking" /\ e = j.entry THEN 1 ELSE 0)
<1> DEFINE k == [j EXCEPT !.pc = pc]
           U == Unsent(jobs, e)
<1>1. j \in Job /\ k.entry = j.entry /\ k.pc = pc
  BY DEF Types, Job
<1>2. IsFiniteSet(U) /\ Cardinality(U) \in Nat
  BY UnsentFinite DEF Types
<1>3. jobs' = (jobs \ {j}) \cup {k}
  BY DEF GoOn
<1>4. CASE e # j.entry
  <2>1. Unsent(jobs', e) = U
    BY <1>1, <1>3, <1>4 DEF Unsent
  <2> QED
    BY <1>2, <1>4, <2>1
<1>5. CASE e = j.entry /\ pc = "marking"
  <2>1. j \in U /\ Unsent(jobs', e) = U \ {j}
    BY <1>1, <1>3, <1>5 DEF Unsent
  <2>2. Cardinality(U \ {j}) = Cardinality(U) - 1
    BY <1>2, <2>1, FS_RemoveElement
  <2> QED
    BY <1>2, <1>5, <2>1, <2>2
<1>6. CASE e = j.entry /\ pc = "clearing"
  <2>1. j \in U /\ Unsent(jobs', e) = (U \ {j}) \cup {k}
    BY <1>1, <1>3, <1>6 DEF Unsent
  <2>2. Cardinality((U \ {j}) \cup {k}) <= Cardinality(U)
    BY <1>2, <2>1, ReplacedOne
  <2> QED
    BY <1>2, <1>6, <2>1, <2>2
<1> QED
  BY <1>4, <1>5, <1>6

LEMMA ClaimBudget ==
    ASSUME Types, Budget, NEW d \in Dispatcher, NEW f \in Entry, Claim(d, f) \/ ClaimThrows(d, f)
    PROVE  Budget'
<1> SUFFICES ASSUME NEW e \in Entry
             PROVE  sends'[e] + Cardinality(Unsent(jobs', e)) <= excused'[e] + Permit(e)'
  BY DEF Budget
<1> DEFINE n == Cardinality(Unsent(jobs, e))
<1>1. /\ n \in Nat /\ sends[e] \in Nat /\ excused[e] \in Nat /\ Permit(e) \in {0, 1}
      /\ sends[e] + n <= excused[e] + Permit(e)
  BY UnsentFinite DEF Types, Budget, Permit
<1>2. sends' = sends /\ d # NoOne
  BY DispatcherIsSomeone DEF Claim, ClaimThrows
<1>3. Cardinality(Unsent(jobs', e)) \in Nat
  <2>1. Types'
    BY NextTypes DEF Next
  <2> QED
    BY <2>1, UnsentFinite DEF Types
<1>4. CASE row' = row /\ excused' = excused /\ jobs' = jobs
  BY <1>1, <1>2, <1>4 DEF Permit
<1>5. CASE /\ row' = [row EXCEPT ![f].lease = d, ![f].expired = FALSE]
           /\ excused' = [excused EXCEPT ![f] = IF row[f].expired THEN @ + 1 ELSE @]
           /\ Claimable(f)
           /\ \/ jobs' = jobs
              \/ jobs' = jobs \cup {[by |-> d, entry |-> f, pc |-> "sending"]}
  <2>1. Cardinality(Unsent(jobs', e)) <= n + (IF e = f THEN 1 ELSE 0)
    <3> DEFINE K == jobs \cup {[by |-> d, entry |-> f, pc |-> "sending"]}
    <3>1. Cardinality(Unsent(K, e)) <= n + (IF e = f THEN 1 ELSE 0)
      BY UnsentClaimed DEF Types
    <3>2. jobs' = jobs \/ jobs' = K
      BY <1>5
    <3> HIDE DEF K
    <3>3. n <= n + (IF e = f THEN 1 ELSE 0)
      BY <1>1
    <3> QED
      BY <3>1, <3>2, <3>3
  <2>2. CASE e # f
    <3>1. row'[e] = row[e] /\ excused'[e] = excused[e]
      BY <1>5, <2>2 DEF Types
    <3> QED
      BY <1>1, <1>2, <1>3, <2>1, <2>2, <3>1 DEF Permit
  <2>3. CASE e = f
    <3>1. row'[e].lease = d
      BY <1>5, <2>3 DEF Types, Row
    <3>2. Permit(e)' = 1
      BY <1>2, <3>1 DEF Permit
    <3>3. excused'[e] = IF row[e].expired THEN excused[e] + 1 ELSE excused[e]
      BY <1>5, <2>3 DEF Types
    <3>4. row[e].expired \/ Permit(e) = 0
      BY <1>5, <2>3 DEF Claimable, Pending, Permit
    <3> QED
      BY <1>1, <1>2, <1>3, <2>1, <2>3, <3>2, <3>3, <3>4
  <2> QED
    BY <2>2, <2>3
<1> QED
  BY <1>4, <1>5 DEF Claim, ClaimThrows

LEMMA SendBudget ==
    ASSUME Types, Budget, NEW j \in jobs, Send(j) \/ SendThrows(j)
    PROVE  Budget'
<1> SUFFICES ASSUME NEW e \in Entry
             PROVE  sends'[e] + Cardinality(Unsent(jobs', e)) <= excused'[e] + Permit(e)'
  BY DEF Budget
<1> DEFINE n == Cardinality(Unsent(jobs, e))
<1>1. /\ n \in Nat /\ sends[e] \in Nat /\ excused[e] \in Nat /\ Permit(e) \in {0, 1}
      /\ sends[e] + n <= excused[e] + Permit(e)
  BY UnsentFinite DEF Types, Budget, Permit
<1>2. j.entry \in Entry /\ j.pc = "sending" /\ Permit(e)' = Permit(e)
  BY DEF Types, Job, Send, SendThrows, Permit
<1>3. Cardinality(Unsent(jobs', e)) \in Nat
  BY SendTypes, UnsentFinite DEF Types
<1>4. CASE Sent(j.entry) /\ GoOn(j, "marking") /\ excused' = excused
  <2>1. Cardinality(Unsent(jobs', e)) <= n - (IF e = j.entry THEN 1 ELSE 0)
    BY <1>2, <1>4, UnsentMoved
  <2>2. sends'[e] = sends[e] + (IF e = j.entry THEN 1 ELSE 0)
    BY <1>1, <1>2, <1>4 DEF Types, Sent
  <2> QED
    BY <1>1, <1>2, <1>3, <1>4, <2>1, <2>2
<1>5. CASE /\ GoOn(j, "clearing")
           /\ \/ UNCHANGED <<sends, excused>>
              \/ Sent(j.entry) /\ excused' = [excused EXCEPT ![j.entry] = @ + 1]
  <2>1. Cardinality(Unsent(jobs', e)) <= n
    BY <1>1, <1>2, <1>5, UnsentMoved
  <2>2. \/ sends'[e] = sends[e] /\ excused'[e] = excused[e]
        \/ sends'[e] = sends[e] + 1 /\ excused'[e] = excused[e] + 1
    BY <1>1, <1>2, <1>5 DEF Types, Sent
  <2> QED
    BY <1>1, <1>2, <1>3, <2>1, <2>2
<1> QED
  BY <1>4, <1>5 DEF Send, SendThrows, AfterSend

LEMMA EndBudget ==
    ASSUME Types, Budget, NEW j \in jobs, Mark(j) \/ Clear(j)
    PROVE  Budget'
<1> SUFFICES ASSUME NEW e \in Entry
             PROVE  sends'[e] + Cardinality(Unsent(jobs', e)) <= excused'[e] + Permit(e)'
  BY DEF Budget
<1> DEFINE n == Cardinality(Unsent(jobs, e))
<1>1. /\ n \in Nat /\ sends[e] \in Nat /\ excused[e] \in Nat /\ Permit(e) \in {0, 1}
      /\ sends[e] + n <= excused[e] + Permit(e)
  BY UnsentFinite DEF Types, Budget, Permit
<1>2. sends' = sends /\ excused' = excused /\ jobs' = jobs \ {j} /\ j \in Job
  BY DEF Types, Mark, Clear, EndDispatch
<1>3. Cardinality(Unsent(jobs', e)) <= n
  BY <1>2, UnsentSubset DEF Types
<1>4. Cardinality(Unsent(jobs', e)) \in Nat
  <2>1. IsFiniteSet(jobs')
    BY <1>2, FS_RemoveElement DEF Types
  <2> QED
    BY <2>1, UnsentFinite
<1>5. CASE row'[e] = row[e]
  BY <1>1, <1>2, <1>3, <1>4, <1>5 DEF Permit
<1>6. CASE row'[e] # row[e]
  <2>1. e = j.entry /\ Owns(j)
    BY <1>6 DEF Types, Mark, Clear, EndDispatch
  <2>2. CASE Mark(j)
    <3>1. row'[e].status = "dispatched"
      BY <2>1, <2>2 DEF Types, Mark, EndDispatch
    <3>2. Permit(e)' = 1
      BY <3>1 DEF Permit
    <3> QED
      BY <1>1, <1>2, <1>3, <1>4, <3>2
  <2>3. CASE Clear(j)
    <3>1. Permit(e) = 1 /\ Permit(e)' \in {0, 1}
      BY <1>2, <2>1, DispatcherIsSomeone DEF Owns, Permit, Job
    <3>2. Cardinality(Unsent(jobs', e)) = n - 1
      BY <1>2, <2>1, <2>3, UnsentDropped DEF Types, Clear, EndDispatch
    <3> QED
      BY <1>1, <1>2, <3>1, <3>2
  <2> QED
    BY <2>2, <2>3
<1> QED
  BY <1>5, <1>6

LEMMA SpecBudget == Spec => []Budget
<1>1. ASSUME Init PROVE Budget
  <2>1. \A e \in Entry : Unsent(jobs, e) = {}
    BY <1>1 DEF Init, Unsent
  <2>2. Cardinality({}) = 0
    BY FS_EmptySet
  <2>3. \A e \in Entry : sends[e] = 0 /\ excused[e] = 0 /\ Permit(e) = 0
    BY <1>1 DEF Init, Permit
  <2> QED
    BY <2>1, <2>2, <2>3 DEF Budget
<1>2. ASSUME Types, Budget, Next PROVE Budget'
  <2>1. ASSUME NEW f \in Entry, Commit(f) \/ Expire(f) \/ Cleanup(f)
        PROVE  Budget'
    <3>1. sends' = sends /\ excused' = excused /\ jobs' = jobs
      BY <2>1 DEF Commit, Expire, Cleanup
    <3>2. ASSUME NEW e \in Entry
          PROVE  Permit(e) \in {0, 1} /\ Permit(e)' \in {0, 1} /\ Permit(e) <= Permit(e)'
      BY <1>2, <2>1 DEF Types, Row, Commit, Expire, Cleanup, Pending, Permit
    <3> QED
      BY <1>2, <3>1, <3>2, UnsentFinite DEF Types, Budget
  <2>2. ASSUME NEW s \in Sweep, SelectBatch(s)
        PROVE  Budget'
    BY <1>2, <2>2 DEF SelectBatch, Budget, Permit
  <2>3. ASSUME jobs' \subseteq jobs, row' = row, sends' = sends, excused' = excused
        PROVE  Budget'
    <3>1. \A e \in Entry : Cardinality(Unsent(jobs', e)) <= Cardinality(Unsent(jobs, e))
      BY <1>2, <2>3, UnsentSubset DEF Types
    <3>2. \A e \in Entry : /\ Cardinality(Unsent(jobs, e)) \in Nat
                           /\ Cardinality(Unsent(jobs', e)) \in Nat
      BY <1>2, NextTypes, UnsentFinite DEF Types
    <3>3. \A e \in Entry : Permit(e)' = Permit(e) /\ Permit(e) \in {0, 1}
      BY <2>3 DEF Permit
    <3> QED
      BY <1>2, <2>3, <3>1, <3>2, <3>3 DEF Types, Budget
  <2>4. ASSUME NEW p \in Process, Crash(p)
        PROVE  Budget'
    BY <2>3, <2>4 DEF Crash
  <2>5. ASSUME NEW j \in jobs, EndThrows(j)
        PROVE  Budget'
    BY <2>3, <2>5 DEF EndThrows
  <2> QED
    BY <1>2, <2>1, <2>2, <2>4, <2>5, ClaimBudget, SendBudget, EndBudget DEF Next
<1>3. Budget /\ UNCHANGED vars => Budget'
  BY DEF Budget, Permit, vars
<1> QED
  BY SpecTypes, <1>1, <1>2, <1>3, PTL DEF Spec

\* Of the messages sent for a row, at most one is not owed to a stale lease or to an
\* answer that was lost.
THEOREM OutboxNoNeedlessDuplicate == Spec => []NoNeedlessDuplicate
<1>1. ASSUME Types, Budget PROVE NoNeedlessDuplicate
  <2>1. \A e \in Entry : Cardinality(Unsent(jobs, e)) \in Nat
    BY <1>1, UnsentFinite DEF Types
  <2>2. \A e \in Entry : Permit(e) \in {0, 1}
    BY DEF Permit
  <2> QED
    BY <1>1, <2>1, <2>2 DEF Types, Budget, NoNeedlessDuplicate
<1> QED
  BY SpecTypes, SpecBudget, <1>1, PTL

-----------------------------------------------------------------------------
(* Leases, and the promise of OutboxDelivery.                              *)

\* A dispatch without the lease leaves the row alone.
THEOREM OutboxLoserNeverWrites == Spec => LoserNeverWrites
<1>1. ASSUME Types, Next, NEW j \in jobs, row[j.entry].lease # j.by, j \notin jobs'
      PROVE  row'[j.entry] = row[j.entry]
  <2>1. ASSUME NEW k \in jobs, Mark(k) \/ Clear(k)
        PROVE  row'[j.entry] = row[j.entry]
    BY <1>1, <2>1 DEF Mark, Clear, EndDispatch, Owns
  <2>2. ASSUME NEW k \in jobs, Send(k) \/ SendThrows(k) \/ EndThrows(k)
        PROVE  row'[j.entry] = row[j.entry]
    BY <2>2 DEF Send, SendThrows, EndThrows
  <2>3. ASSUME NEW p \in Process, Crash(p)
        PROVE  row'[j.entry] = row[j.entry]
    BY <2>3 DEF Crash
  <2>4. ASSUME NEW d \in Dispatcher, NEW e \in Entry, Claim(d, e) \/ ClaimThrows(d, e)
        PROVE  FALSE
    BY <1>1, <2>4 DEF Claim, ClaimThrows
  <2>5. ASSUME NEW e \in Entry, Commit(e) \/ Expire(e) \/ Cleanup(e)
        PROVE  FALSE
    BY <1>1, <2>5 DEF Commit, Expire, Cleanup
  <2>6. ASSUME NEW s \in Sweep, SelectBatch(s)
        PROVE  FALSE
    BY <1>1, <2>6 DEF SelectBatch
  <2> QED
    BY <1>1, <2>1, <2>2, <2>3, <2>4, <2>5, <2>6 DEF Next
<1>2. Types /\ [Next]_vars =>
         [\A j \in jobs : (row[j.entry].lease # j.by /\ j \notin jobs') =>
              row'[j.entry] = row[j.entry]]_vars
  BY <1>1
<1> QED
  BY SpecTypes, <1>2, PTL DEF Spec, LoserNeverWrites

\* A dispatch that is about to strike its row off has sent it.
MarkedIsSent == \A j \in jobs :
    /\ row[j.entry].status # "absent"
    /\ j.pc = "marking" => sends[j.entry] > 0

LEMMA NextMarkedIsSent == ASSUME Types, MarkedIsSent, Next PROVE MarkedIsSent'
<1> SUFFICES ASSUME NEW k \in jobs'
             PROVE  row'[k.entry].status # "absent" /\ (k.pc = "marking" => sends'[k.entry] > 0)
  BY DEF MarkedIsSent
<1>1. k \in Job /\ k.entry \in Entry
  BY NextTypes DEF Types, Job
<1> DEFINE Onward(e) == /\ sends'[e] = sends[e] \/ sends'[e] = sends[e] + 1
                        /\ row[e].status # "absent" => row'[e].status # "absent"
<1>2. \A e \in Entry : Onward(e)
  <2>0. \A j \in jobs : j.entry \in Entry
    BY DEF Types, Job
  <2>1. ASSUME NEW j \in jobs, Send(j) \/ SendThrows(j)
        PROVE  \A e \in Entry : Onward(e)
    BY <2>0, <2>1 DEF Types, Send, SendThrows, Sent
  <2>5. ASSUME NEW j \in jobs, Mark(j) \/ Clear(j)
        PROVE  \A e \in Entry : Onward(e)
    BY <2>0, <2>5 DEF Types, Mark, Clear, EndDispatch
  <2>6. ASSUME NEW j \in jobs, EndThrows(j)
        PROVE  \A e \in Entry : Onward(e)
    BY <2>6 DEF EndThrows
  <2>2. ASSUME NEW d \in Dispatcher, NEW f \in Entry, Claim(d, f) \/ ClaimThrows(d, f)
        PROVE  \A e \in Entry : Onward(e)
    BY <2>2 DEF Types, Row, Claim, ClaimThrows
  <2>3. ASSUME NEW f \in Entry, Commit(f) \/ Expire(f) \/ Cleanup(f)
        PROVE  \A e \in Entry : Onward(e)
    BY <2>3 DEF Types, Row, Commit, Expire, Cleanup
  <2>4. ASSUME NEW d, SelectBatch(d) \/ Crash(d)
        PROVE  \A e \in Entry : Onward(e)
    BY <2>4 DEF Types, SelectBatch, Crash
  <2> HIDE DEF Onward
  <2> QED
    BY <2>1, <2>2, <2>3, <2>4, <2>5, <2>6 DEF Next
<1>3. CASE k \in jobs
  <2>1. Onward(k.entry) /\ sends[k.entry] \in Nat
    BY <1>1, <1>2 DEF Types
  <2> QED
    BY <1>3, <2>1 DEF MarkedIsSent
<1>4. CASE k \notin jobs
  <2>1. ASSUME NEW d \in Dispatcher, NEW e \in Entry, Claim(d, e) \/ ClaimThrows(d, e)
        PROVE  row[k.entry].status # "absent" /\ k.pc = "sending"
    BY <1>4, <2>1 DEF Claim, ClaimThrows, Claimable, Pending
  <2>2. ASSUME NEW j \in jobs, Send(j)
        PROVE  row[k.entry].status # "absent" /\ (k.pc = "marking" => sends'[k.entry] > 0)
    BY <1>1, <1>4, <2>2 DEF Types, Job, Send, AfterSend, GoOn, Sent, MarkedIsSent
  <2>3. ASSUME NEW j \in jobs, SendThrows(j)
        PROVE  row[k.entry].status # "absent" /\ k.pc = "clearing"
    BY <1>1, <1>4, <2>3 DEF Types, Job, SendThrows, AfterSend, GoOn, MarkedIsSent
  <2>4. ASSUME NEW j \in jobs, Mark(j) \/ Clear(j) \/ EndThrows(j)
        PROVE  FALSE
    BY <1>4, <2>4 DEF Mark, Clear, EndDispatch, EndThrows
  <2>5. ASSUME NEW e \in Entry, Commit(e) \/ Expire(e) \/ Cleanup(e)
        PROVE  FALSE
    BY <1>4, <2>5 DEF Commit, Expire, Cleanup
  <2>6. ASSUME NEW d, SelectBatch(d) \/ Crash(d)
        PROVE  FALSE
    BY <1>4, <2>6 DEF SelectBatch, Crash
  <2>7. row[k.entry].status # "absent" /\ (k.pc = "marking" => sends'[k.entry] > 0)
    BY <2>1, <2>2, <2>3, <2>4, <2>5, <2>6 DEF Next
  <2> QED
    BY <1>1, <1>2, <2>7
<1> QED
  BY <1>3, <1>4

\* The dispatcher implements the promise.
THEOREM OutboxImplementsDelivery == Spec => DeliverySpec
<1> DEFINE State == [e \in Entry |-> CASE row[e].status = "absent" -> "absent"
                                      [] row[e].status = "pending" -> "pending"
                                      [] OTHER -> "done"]
<1>1. Init => Delivery!Init
  BY DEF Init, Delivery!Init
<1>2. Init => MarkedIsSent
  BY DEF Init, MarkedIsSent
<1>3. MarkedIsSent /\ UNCHANGED vars => MarkedIsSent'
  BY DEF MarkedIsSent, vars
<1>4. ASSUME Types, MarkedIsSent, [Next]_vars
      PROVE  [Delivery!Next]_Delivery!vars
  <2>1. ASSUME NEW e \in Entry, Commit(e)
        PROVE  Delivery!Commit(e)
    BY <1>4, <2>1 DEF Types, Row, Commit, Delivery!Commit
  <2>2. ASSUME NEW j \in jobs, Send(j) \/ SendThrows(j)
        PROVE  Delivery!Deliver(j.entry) \/ UNCHANGED Delivery!vars
    BY <1>4, <2>2 DEF Types, Job, Send, SendThrows, Sent, MarkedIsSent, Delivery!Deliver,
                       Delivery!vars
  <2>3. ASSUME NEW j \in jobs, Mark(j)
        PROVE  Delivery!StrikeOff(j.entry) \/ UNCHANGED Delivery!vars
    <3>1. j.entry \in Entry /\ sends[j.entry] > 0 /\ sends' = sends
      BY <1>4, <2>3 DEF Types, Job, Mark, EndDispatch, MarkedIsSent
    <3>2. CASE Owns(j)
      <4>1. row[j.entry].status = "pending"
        BY <3>2 DEF Owns, Pending
      <4>2. \A e \in Entry : row'[e] =
              IF e = j.entry THEN [status |-> "dispatched", lease |-> NoOne, expired |-> FALSE]
                             ELSE row[e]
        BY <1>4, <2>3, <3>1, <3>2 DEF Types, Mark, EndDispatch
      <4>3. row'[j.entry].status = "dispatched"
        BY <3>1, <4>2
      <4> QED
        BY <3>1, <4>1, <4>2, <4>3 DEF Delivery!StrikeOff
    <3>3. CASE ~Owns(j)
      BY <2>3, <3>1, <3>3 DEF Mark, EndDispatch, Delivery!vars
    <3> QED
      BY <3>2, <3>3
  <2>4. ASSUME \A e \in Entry : row'[e].status = row[e].status, UNCHANGED sends
        PROVE  UNCHANGED Delivery!vars
    BY <2>4 DEF Delivery!vars
  <2>5. ASSUME NEW j \in jobs, Clear(j) \/ EndThrows(j)
        PROVE  UNCHANGED Delivery!vars
    BY <1>4, <2>4, <2>5 DEF Types, Row, Job, Clear, EndDispatch, Owns, Pending, EndThrows
  <2>6. ASSUME NEW d \in Dispatcher, NEW e \in Entry, Claim(d, e) \/ ClaimThrows(d, e)
        PROVE  UNCHANGED Delivery!vars
    BY <1>4, <2>4, <2>6 DEF Types, Row, Claim, ClaimThrows
  <2>7. ASSUME NEW e \in Entry, Expire(e)
        PROVE  UNCHANGED Delivery!vars
    BY <1>4, <2>4, <2>7 DEF Types, Row, Expire
  <2>8. ASSUME NEW e \in Entry, Cleanup(e)
        PROVE  UNCHANGED Delivery!vars
    BY <1>4, <2>8 DEF Types, Row, Cleanup, Delivery!vars
  <2>9. ASSUME NEW d, SelectBatch(d) \/ Crash(d)
        PROVE  UNCHANGED Delivery!vars
    BY <2>4, <2>9 DEF SelectBatch, Crash
  <2>10. CASE UNCHANGED vars
    BY <2>4, <2>10 DEF vars
  <2>11. \A j \in jobs : j.entry \in Entry
    BY <1>4 DEF Types, Job
  <2> QED
    BY <1>4, <2>1, <2>2, <2>3, <2>5, <2>6, <2>7, <2>8, <2>9, <2>10, <2>11
       DEF Next, Delivery!Next
<1> QED
  BY SpecTypes, NextMarkedIsSent, <1>1, <1>2, <1>3, <1>4, PTL DEF Spec, DeliverySpec, Delivery!Spec
=============================================================================
