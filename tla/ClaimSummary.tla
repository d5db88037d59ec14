---------------------------- MODULE ClaimSummary ----------------------------
(***************************************************************************)
(* The claim counters of an organization: ClaimOrganizationSummary, which  *)
(* triggers on the Claim table keep up to date, the migration that counts  *)
(* the claims and then creates the triggers, and the script that           *)
(* reconciles the counters with the claims.  A trigger runs within the     *)
(* transaction of the write, so a write and its trigger are one step; the  *)
(* script reads in one statement and overwrites in later ones.             *)
(***************************************************************************)
EXTENDS Integers, FiniteSetsExt, Functions

CONSTANTS Org, Claim, Status,
          Absent,         \* a claim that is not in the table
          Script,         \* processes that run the reconciliation script
          MaxEvents       \* bound: how many claim writes and dying scripts there may be

ASSUME AbsentAssumption == Absent \notin [org : Org, status : Status]
ASSUME EventsAssumption == MaxEvents \in Nat
ASSUME TableAssumption == IsFiniteSet(Claim)

VARIABLES
    claims,     \* the Claim table
    summary,    \* the ClaimOrganizationSummary rows, by organization
    stage,      \* of the migration: "before", "counted" (the claims), "live" (the triggers)
    plans,      \* what each script has still to write: counters by organization
    checked,    \* history: the organizations that the last run of each script has found
                \* with claims, but for those whose counts came too late
    events

vars == <<claims, summary, stage, plans, checked, events>>

ClaimRow == [org : Org, status : Status]

Nothing == [o \in {} |-> 0]

Init ==
    /\ claims \in [Claim -> ClaimRow \cup {Absent}]
    /\ summary = Nothing
    /\ stage = "before"
    /\ plans = [s \in Script |-> Nothing]
    /\ checked = [s \in Script |-> {}]
    /\ events = 0

ClaimsOf(o) == {c \in Claim : claims[c] # Absent /\ claims[c].org = o}

\* COUNT(*) and COUNT(*) FILTER (WHERE status = ...) over the claims of an organization.
Counted(o) ==
    [total |-> Cardinality(ClaimsOf(o)),
     by |-> [st \in Status |-> Cardinality({c \in ClaimsOf(o) : claims[c].status = st})]]

Zero == [total |-> 0, by |-> [st \in Status |-> 0]]

Add(row, st, n) == [total |-> row.total + n, by |-> [row.by EXCEPT ![st] = @ + n]]

\* What loadPrecomputedClaimStatusSummary finds for an organization.
Shown(o) == IF o \in DOMAIN summary THEN summary[o] ELSE Zero

Put(rows, o, row) == [x \in DOMAIN rows \cup {o} |-> IF x = o THEN row ELSE rows[x]]

\* Mutant: the first claim's counters are written again for every claim.
IncrementInserts(rows, o, st) == Put(rows, o, Add(Zero, st, 1))

\* claimflow_increment_claim_organization_summary
Increment(rows, o, st) ==
    Put(rows, o, Add(IF o \in DOMAIN rows THEN rows[o] ELSE Zero, st, 1))

\* claimflow_decrement_claim_organization_summary
Decrement(rows, o, st) ==
    IF o \notin DOMAIN rows THEN rows
    ELSE LET row == Add(rows[o], st, -1)
         IN  IF row.total <= 0 THEN Restrict(rows, DOMAIN rows \ {o}) ELSE Put(rows, o, row)

\* claimflow_transition_claim_organization_summary
Transition(rows, o, from, to) ==
    IF o \notin DOMAIN rows THEN rows
    ELSE [rows EXCEPT ![o] = Add(Add(@, from, -1), to, 1)]

\* claimflow_sync_claim_organization_summary
Sync(rows, old, new) ==
    CASE old = Absent -> Increment(rows, new.org, new.status)
      [] new = Absent -> Decrement(rows, old.org, old.status)
      [] old # Absent /\ new # Absent /\ old.org # new.org ->
             Increment(Decrement(rows, old.org, old.status), new.org, new.status)
      [] OTHER -> Transition(rows, new.org, old.status, new.status)

\* The organizations whose counters a write changes.
Touched(c, new) == {row.org : row \in {claims[c], new} \ {Absent}}

\* A claim is inserted, deleted, moved or changes its status.
WriteClaim(c, new) ==
    /\ events < MaxEvents
    /\ new # claims[c]
    /\ claims' = [claims EXCEPT ![c] = new]
    /\ summary' = IF stage = "live" THEN Sync(summary, claims[c], new) ELSE summary
    /\ checked' = [s \in Script |-> checked[s] \ (Touched(c, new) \cap DOMAIN plans[s])]
    /\ events' = events + 1
    /\ UNCHANGED <<stage, plans>>

\* The migration counts the claims of a snapshot; claims are written until CREATE
\* TRIGGER, which waits for the writes under way, has its lock.
CountClaims ==
    /\ stage = "before"
    /\ stage' = "counted"
    /\ summary' = [o \in {x \in Org : ClaimsOf(x) # {}} |-> Counted(o)]
    /\ UNCHANGED <<claims, plans, checked, events>>

CreateTrigger ==
    /\ stage = "counted"
    /\ stage' = "live"
    /\ UNCHANGED <<claims, summary, plans, checked, events>>

\* Mutant: the script joins claims and counters with an inner join.
DriftedRows == {o \in DOMAIN summary : ClaimsOf(o) # {} /\ summary[o] # Counted(o)}

\* FROM canonical LEFT JOIN "ClaimOrganizationSummary": organizations with claims.
Drifted == {o \in Org : ClaimsOf(o) # {} /\ (o \in DOMAIN summary => summary[o] # Counted(o))}

Select(s) ==
    /\ stage = "live"
    /\ plans[s] = Nothing
    /\ plans' = [plans EXCEPT ![s] = [o \in Drifted |-> Counted(o)]]
    /\ checked' = [checked EXCEPT ![s] = {o \in Org : ClaimsOf(o) # {}}]
    /\ UNCHANGED <<claims, summary, stage, events>>

\* The row is written over with what the SELECT has counted: by a count that came too
\* late also where another run had put the counters right.
Upsert(s) == \E o \in DOMAIN plans[s] :
    /\ summary' = Put(summary, o, plans[s][o])
    /\ plans' = [plans EXCEPT ![s] = Restrict(@, DOMAIN @ \ {o})]
    /\ checked' = [t \in Script |-> IF o \in checked[s] THEN checked[t]
                                    ELSE checked[t] \ ({o} \ DOMAIN plans[t])]
    /\ UNCHANGED <<claims, stage, events>>

\* A statement throws, or the process dies: the other organizations stay as they are.
ScriptDies(s) ==
    /\ plans[s] # Nothing
    /\ events < MaxEvents
    /\ plans' = [plans EXCEPT ![s] = Nothing]
    /\ checked' = [checked EXCEPT ![s] = @ \ DOMAIN plans[s]]
    /\ events' = events + 1
    /\ UNCHANGED <<claims, summary, stage>>

Next ==
    \/ \E c \in Claim, new \in ClaimRow \cup {Absent} : WriteClaim(c, new)
    \/ CountClaims \/ CreateTrigger
    \/ \E s \in Script : Select(s) \/ Upsert(s) \/ ScriptDies(s)

\* Nothing runs the script but an operator (ops:reconcile-summaries).
Spec == Init /\ [][Next]_vars

-----------------------------------------------------------------------------

\* A row counts at least one claim; where it has drifted, that may be of a status of
\* which it shows less than none.
CounterRow == [total : Nat \ {0}, by : [Status -> Int]]

TypeOK ==
    /\ claims \in [Claim -> ClaimRow \cup {Absent}]
    /\ DOMAIN summary \subseteq Org /\ \A o \in DOMAIN summary : summary[o] \in CounterRow
    /\ stage \in {"before", "counted", "live"}
    /\ DOMAIN plans = Script
    /\ \A s \in Script : /\ DOMAIN plans[s] \subseteq Org
                         /\ \A o \in DOMAIN plans[s] : plans[s][o] \in CounterRow
    /\ checked \in [Script -> SUBSET Org]
    /\ events \in 0..MaxEvents

Exact(o) == Shown(o) = Counted(o)

\* The triggers never introduce drift: when the counters of an organization are right,
\* only a reconciliation that counted before a concurrent write makes them wrong.
WritesKeepExact == [][stage = "live" /\ plans' = plans => \A o \in Org : Exact(o) => Exact(o)']_vars

\* A run puts right every organization that it has found with claims, drifted in the
\* migration's gap or by earlier runs: once it has gone over it, the counters are right,
\* and they stay right while claims are written.  The exceptions are claims of the
\* organization that were written between the count and the update, and an update by
\* another run of which this is true.
RunRepairs == \A s \in Script : \A o \in checked[s] \ DOMAIN plans[s] : Exact(o)
=============================================================================
