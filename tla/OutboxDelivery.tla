--------------------------- MODULE OutboxDelivery ---------------------------
(***************************************************************************)
(* What the claim ingest outbox promises, with no dispatchers or leases:   *)
(* a row that was committed is delivered to the queue, perhaps more than   *)
(* once and perhaps late, and is not struck off before it was.             *)
(***************************************************************************)
EXTENDS Naturals

CONSTANT Entry       \* outbox rows

VARIABLES state,     \* of each row: "absent", "pending" or "done"
          copies     \* how many messages SQS accepted for it

vars == <<state, copies>>

Init ==
    /\ state = [e \in Entry |-> "absent"]
    /\ copies = [e \in Entry |-> 0]

Commit(e) ==
    /\ state[e] = "absent"
    /\ state' = [state EXCEPT ![e] = "pending"]
    /\ UNCHANGED copies

Deliver(e) ==
    /\ state[e] # "absent"
    /\ copies' = [copies EXCEPT ![e] = @ + 1]
    /\ UNCHANGED state

StrikeOff(e) ==
    /\ state[e] = "pending"
    /\ copies[e] > 0
    /\ state' = [state EXCEPT ![e] = "done"]
    /\ UNCHANGED copies

Next == \E e \in Entry : Commit(e) \/ Deliver(e) \/ StrikeOff(e)

Spec == Init /\ [][Next]_vars
=============================================================================
