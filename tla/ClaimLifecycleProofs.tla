------------------------ MODULE ClaimLifecycleProofs ------------------------
(***************************************************************************)
(* Safety of ClaimLifecycle for any set of claims and unboundedly many     *)
(* attempts.                                                               *)
(***************************************************************************)
EXTENDS ClaimLifecycle, TLAPS

\* Every action is an Advance of one claim from the status that it is in, as the
\* caller's literal and guard agree: to a new attempt that is processed, or from
\* PROCESSING to an outcome of the same attempt.
Step(c, to, n, f) ==
    /\ Advance(c, status[c], to, n, f)
    /\ \/ to = "PROCESSING" /\ n = attempt[c] + 1
       \/ to \in Outcome /\ n = attempt[c] /\ status[c] = "PROCESSING"

LEMMA NextIsStep ==
    ASSUME TypeOK, Next
    PROVE  \E c \in Claim, to \in Status, n \in Nat, f \in Failure : Step(c, to, n, f)
<1>1. PICK c \in Claim : Begin(c) \/ Retry(c) \/ Recover(c) \/ Succeed(c) \/ Fail(c)
  BY DEF Next
<1> DEFINE m == attempt[c] + 1
<1>2. /\ attempt[c] \in Nat /\ m \in Nat /\ failure[c] \in Failure
      /\ "PROCESSING" \in Status
  BY DEF TypeOK, Status
<1>3. CASE Begin(c) \/ Retry(c) \/ Recover(c)
  <2>1. Step(c, "PROCESSING", m, failure[c])
    BY <1>3 DEF Begin, Retry, Recover, Step
  <2> QED
    BY <1>2, <2>1
<1>4. CASE Succeed(c)
  <2>1. PICK s \in {"READY", "REVIEW_REQUIRED"} : Advance(c, "PROCESSING", s, attempt[c], failure[c])
    BY <1>4 DEF Succeed
  <2>2. s \in Status /\ Step(c, s, attempt[c], failure[c])
    BY <1>4, <2>1 DEF Succeed, Step, Outcome, Status
  <2> QED
    BY <1>2, <2>2
<1>5. CASE Fail(c)
  <2>1. PICK f \in {"retryable", "fatal"} : Advance(c, "PROCESSING", "ERROR", attempt[c], f)
    BY <1>5 DEF Fail
  <2>2. /\ f \in Failure /\ "ERROR" \in Status
        /\ Step(c, "ERROR", attempt[c], f)
    BY <1>5, <2>1 DEF Fail, Step, Outcome, Status, Failure
  <2> QED
    BY <1>2, <2>2
<1> QED
  BY <1>1, <1>3, <1>4, <1>5

\* The log ends with the claim's status and attempt.  SettledOnce and EventChain
\* are inductive only together with it: a new event is compared with the last one.
LogIsCurrent == \A c \in Claim :
    IF Len(events[c]) = 0
    THEN status[c] = "NEW" /\ attempt[c] = 0
    ELSE /\ events[c][Len(events[c])].to = status[c]
         /\ events[c][Len(events[c])].attempt = attempt[c]
         /\ \A i \in 1..Len(events[c]) : events[c][i].attempt <= attempt[c]
         /\ status[c] = "PROCESSING" =>
               \A i \in 1..Len(events[c]) :
                  events[c][i].to \in Outcome => events[c][i].attempt < attempt[c]

Inv == TypeOK /\ LogIsCurrent /\ EventChain /\ SettledOnce

LEMMA InitInv == Init => Inv
BY DEF Init, Inv, TypeOK, LogIsCurrent, EventChain, SettledOnce, Status, Failure

LEMMA StepInv ==
    ASSUME Inv, NEW c \in Claim, NEW to \in Status, NEW n \in Nat, NEW f \in Failure,
           Step(c, to, n, f)
    PROVE  Inv'
<1> DEFINE old == events[c]
           new == events'[c]
           e == [from |-> status[c], to |-> to, attempt |-> n]
<1>1. /\ status' = [status EXCEPT ![c] = to]
      /\ attempt' = [attempt EXCEPT ![c] = n]
      /\ failure' = [failure EXCEPT ![c] = f]
      /\ events' = [events EXCEPT ![c] = Append(@, e)]
  BY DEF Step, Advance
<1>2. status[c] \in Status /\ attempt[c] \in Nat /\ old \in Seq(Event) /\ e \in Event
  BY DEF Inv, TypeOK, Event
<1>3. TypeOK'
  BY <1>1, <1>2 DEF Inv, TypeOK
<1>4. /\ new = Append(old, e) /\ status'[c] = to /\ attempt'[c] = n
      /\ Len(new) = Len(old) + 1 /\ Len(old) \in Nat
      /\ new[Len(new)] = e
      /\ \A i \in 1..Len(old) : new[i] = old[i]
  BY <1>1, <1>2 DEF Inv, TypeOK
<1>5. \A d \in Claim : d # c =>
          events'[d] = events[d] /\ status'[d] = status[d] /\ attempt'[d] = attempt[d]
  BY <1>1 DEF Inv, TypeOK
<1>6. /\ Len(old) = 0 => status[c] = "NEW" /\ attempt[c] = 0
      /\ Len(old) # 0 => old[Len(old)].to = status[c]
      /\ \A i \in 1..Len(old) : old[i].attempt \in Nat /\ old[i].attempt <= attempt[c]
      /\ status[c] = "PROCESSING" =>
            \A i \in 1..Len(old) : old[i].to \in Outcome => old[i].attempt < attempt[c]
  <2>1. \A i \in 1..Len(old) : old[i] \in Event
    BY <1>2
  <2> QED
    BY <2>1 DEF Inv, LogIsCurrent, Event
<1>7. attempt[c] <= n
  BY <1>2 DEF Step
<1>8. LogIsCurrent'
  <2> SUFFICES ASSUME NEW d \in Claim
               PROVE  (IF Len(events[d]) = 0
                       THEN status[d] = "NEW" /\ attempt[d] = 0
                       ELSE /\ events[d][Len(events[d])].to = status[d]
                            /\ events[d][Len(events[d])].attempt = attempt[d]
                            /\ \A i \in 1..Len(events[d]) : events[d][i].attempt <= attempt[d]
                            /\ status[d] = "PROCESSING" =>
                                 \A i \in 1..Len(events[d]) :
                                    events[d][i].to \in Outcome => events[d][i].attempt < attempt[d])'
    BY DEF LogIsCurrent
  <2>1. CASE d # c
    BY <1>5, <2>1 DEF Inv, LogIsCurrent
  <2>2. CASE d = c
    <3>1. \A i \in 1..Len(new) : new[i].attempt <= n
      BY <1>2, <1>4, <1>6, <1>7
    <3>2. ASSUME to = "PROCESSING", NEW i \in 1..Len(new), new[i].to \in Outcome
          PROVE  new[i].attempt < n
      <4>1. i \in 1..Len(old) /\ n = attempt[c] + 1
        BY <1>4, <3>2 DEF Step, Outcome
      <4> QED
        BY <1>2, <1>4, <1>6, <4>1
    <3>3. Len(new) # 0 /\ e.to = to /\ e.attempt = n
      BY <1>4
    <3>4. /\ new[Len(new)].to = to /\ new[Len(new)].attempt = n
          /\ to = "PROCESSING" =>
               \A i \in 1..Len(new) : new[i].to \in Outcome => new[i].attempt < n
      BY <1>4, <3>2, <3>3
    <3>5. events'[d] = new /\ status'[d] = to /\ attempt'[d] = n
      BY <1>4, <2>2
    <3> HIDE DEF new, e, old
    <3> QED
      BY <3>1, <3>3, <3>4, <3>5
  <2> QED
    BY <2>1, <2>2
<1>9. EventChain'
  <2> DEFINE To(log, i) == IF i = 0 THEN "NEW" ELSE log[i].to
  <2>1. ASSUME NEW d \in Claim
        PROVE  /\ \A i \in 1..Len(events'[d]) : events'[d][i].from = To(events'[d], i - 1)
               /\ status'[d] = To(events'[d], Len(events'[d]))
    <3>1. /\ \A i \in 1..Len(events[d]) : events[d][i].from = To(events[d], i - 1)
          /\ status[d] = To(events[d], Len(events[d]))
      BY DEF Inv, EventChain
    <3>2. CASE d # c
      BY <1>5, <3>1, <3>2
    <3>3. CASE d = c
      <4>1. ASSUME NEW i \in 1..Len(new)
            PROVE  new[i].from = To(new, i - 1)
        <5>1. CASE i \in 1..Len(old)
          BY <1>4, <3>1, <3>3, <5>1
        <5>2. CASE i = Len(new)
          BY <1>4, <3>1, <3>3, <5>2
        <5> QED
          BY <1>4, <5>1, <5>2
      <4>2. to = To(new, Len(new))
        BY <1>4
      <4>3. events'[d] = new /\ status'[d] = to
        BY <1>4, <3>3
      <4> HIDE DEF new, old, e, To
      <4> QED
        BY <4>1, <4>2, <4>3
    <3> QED
      BY <3>2, <3>3
  <2> QED
    BY <2>1 DEF EventChain
<1>10. SettledOnce'
  <2> SUFFICES ASSUME NEW d \in Claim, NEW i \in 1..Len(events'[d]), NEW j \in 1..Len(events'[d]),
                      i < j, events'[d][i].to \in Outcome
               PROVE  events'[d][i].attempt < events'[d][j].attempt
    BY DEF SettledOnce, Outcome
  <2>1. CASE d # c
    BY <1>5, <2>1 DEF Inv, SettledOnce
  <2>2. CASE d = c /\ j \in 1..Len(old)
    <3>1. i \in 1..Len(old)
      BY <1>4, <2>2
    <3> QED
      BY <1>4, <2>2, <3>1 DEF Inv, SettledOnce
  <2>3. CASE d = c /\ j = Len(new)
    <3>1. i \in 1..Len(old) /\ new[i] = old[i] /\ new[j].attempt = n
      BY <1>4, <2>3
    <3>2. CASE to = "PROCESSING" /\ n = attempt[c] + 1
      BY <1>2, <1>6, <2>3, <3>1, <3>2
    <3>3. CASE status[c] = "PROCESSING" /\ n = attempt[c]
      BY <1>2, <1>6, <2>3, <3>1, <3>3
    <3> QED
      BY <3>2, <3>3 DEF Step
  <2> QED
    BY <1>4, <2>1, <2>2, <2>3
<1> QED
  BY <1>3, <1>8, <1>9, <1>10 DEF Inv

LEMMA SpecInv == Spec => []Inv
<1>1. Inv /\ [Next]_vars => Inv'
  <2> SUFFICES ASSUME Inv, [Next]_vars PROVE Inv'
    OBVIOUS
  <2>1. CASE Next
    BY <2>1, NextIsStep, StepInv DEF Inv
  <2>2. CASE UNCHANGED vars
    BY <2>2 DEF vars, Inv, TypeOK, LogIsCurrent, EventChain, SettledOnce
  <2> QED
    BY <2>1, <2>2
<1> QED
  BY InitInv, <1>1, PTL DEF Spec

\* The audit log of a claim is an unbroken path to its status.
THEOREM LifecycleEventChain == Spec => []EventChain
BY SpecInv, PTL DEF Inv

\* No attempt is settled twice.
THEOREM LifecycleSettledOnce == Spec => []SettledOnce
BY SpecInv, PTL DEF Inv

\* A claim whose failure is final never changes again.
THEOREM LifecycleFatalIsFinal == Spec => FatalIsFinal
<1>1. ASSUME Inv, [Next]_vars, NEW c \in Claim, status[c] = "ERROR", failure[c] = "fatal"
      PROVE  status'[c] = "ERROR" /\ attempt'[c] = attempt[c]
  <2>2. CASE Next
    <3>1. PICK d \in Claim : Begin(d) \/ Retry(d) \/ Recover(d) \/ Succeed(d) \/ Fail(d)
      BY <2>2 DEF Next
    <3>2. d # c
      BY <1>1, <3>1 DEF Begin, Retry, Recover, Succeed, Fail
    <3>3. status' = [status EXCEPT ![d] = status'[d]] /\ attempt' = [attempt EXCEPT ![d] = attempt'[d]]
      BY <3>1 DEF Begin, Retry, Recover, Succeed, Fail, Advance, Inv, TypeOK
    <3> QED
      BY <1>1, <3>2, <3>3 DEF Inv, TypeOK
  <2>3. CASE UNCHANGED vars
    BY <1>1, <2>3 DEF vars
  <2> QED
    BY <1>1, <2>2, <2>3
<1>2. Inv /\ [Next]_vars =>
        [\A c \in Claim : (status[c] = "ERROR" /\ failure[c] = "fatal") =>
            status'[c] = "ERROR" /\ attempt'[c] = attempt[c]]_vars
  BY <1>1
<1> QED
  BY SpecInv, <1>2, PTL DEF Spec, FatalIsFinal

=============================================================================
