----------------------------- MODULE ClaimTable -----------------------------
(***************************************************************************)
(* The claims of an organization as a list shows them: which match its     *)
(* filter, and where its order puts them.  Lists read one batch of rows    *)
(* after another, each behind a cursor, while workers and operators go on  *)
(* creating and changing claims.                                           *)
(***************************************************************************)
EXTENDS Integers, Sequences, SequencesExt, FiniteSets, FiniteSetsExt

CONSTANTS Claim,        \* ids, which are ordered
          View,         \* the lists that are looked at
          Receives,     \* receive counts of failures
          MaxWrites     \* bound: writes while a list is read

ASSUME ClaimAssumption == Claim \subseteq Nat \ {0} /\ IsFiniteSet(Claim)
ASSUME ViewAssumption ==
    View \subseteq {"export", "dashboard", "updated_desc", "failure_oldest_first",
                    "receive_count_desc"}
ASSUME WritesAssumption == MaxWrites \in Nat /\ Receives \subseteq Nat

VARIABLES
    view,       \* the list this is about
    rows,       \* the claims, with what the list looks at
    now,        \* the clock
    writes

table == <<view, rows, now, writes>>

\* at is the column the list sorts by: createdAt, updatedAt or latestWorkerFailureAt (and
\* updatedAt instead where the claim is not dated); a claim matches once it is created and
\* as long as the filter and, in the lists of errors, its status say so.  Time 0 is none.
Row == [matches : BOOLEAN, at : Nat, count : Nat, dated : BOOLEAN]

ByCreation == view \in {"export", "dashboard"}

Counts == IF view = "receive_count_desc" THEN Receives ELSE {0}

Unlisted == [matches |-> FALSE, at |-> 0, count |-> 0, dated |-> TRUE]

\* Lists to begin with: rows of two ranks, so that some are ties.
InitialRow ==
    LET Listed(at, n, dated) == [matches |-> TRUE, at |-> at, count |-> n, dated |-> dated]
    IN  {Unlisted} \cup
        IF view = "receive_count_desc" THEN {Listed(1, n, TRUE) : n \in Counts}
        ELSE {Listed(1, 0, view # "failure_oldest_first"), Listed(2, 0, TRUE)}

TableInit ==
    /\ view \in View
    /\ rows \in [Claim -> InitialRow]
    /\ now = 2
    /\ writes = 0

\* A row is written, in the same millisecond as the write before it or later (a claim is
\* created some time before it is listed, so that its time may be the same all the same).
Times == IF ByCreation THEN {now + 1} ELSE {now, now + 1}

\* What the list does not see of a write, changes nothing.
Write(c, time, row) ==
    /\ writes < MaxWrites
    /\ now' = time
    /\ row # rows[c] /\ rows' = [rows EXCEPT ![c] = row]
    /\ writes' = writes + 1
    /\ UNCHANGED view

\* A claim begins to match: it is created (its createdAt is that of a transaction that may
\* have begun earlier), is changed, or enters ERROR.
Enter(c) == \E t \in Times, lag \in (IF ByCreation THEN 0..1 ELSE {0}), n \in Counts :
    /\ ~rows[c].matches
    /\ Write(c, t, [matches |-> TRUE, count |-> n, dated |-> TRUE,
                    at |-> IF ByCreation /\ rows[c].at # 0 THEN rows[c].at ELSE t - lag])

\* A claim stops to match, or is retried.
Leave(c) == \E t \in Times :
    /\ rows[c].matches
    /\ Write(c, t, IF ByCreation THEN [rows[c] EXCEPT !.matches = FALSE] ELSE Unlisted)

\* A claim is written and goes on to match: @updatedAt.
Touch(c) == \E t \in Times :
    /\ rows[c].matches
    /\ Write(c, t, [rows[c] EXCEPT !.at =
           IF view \in {"updated_desc", "receive_count_desc"} \/ ~rows[c].dated THEN t ELSE @])

\* What other processes do while a list is read.  (What they did before, the initial rows
\* stand for.)
TableNext == \E c \in Claim : Enter(c) \/ Leave(c) \/ Touch(c)

-----------------------------------------------------------------------------

\* What the columns of ORDER BY say of a claim, and what a cursor holds of it.
SortKey(c) == <<rows[c].count, rows[c].at, c>>

\* Later in the ascending order of all columns.
Above(k, l) ==
    \/ k[1] > l[1]
    \/ k[1] = l[1] /\ k[2] > l[2]
    \/ k[1] = l[1] /\ k[2] = l[2] /\ k[3] > l[3]

\* k comes before l on the list.
Before(k, l) == IF view = "failure_oldest_first" THEN Above(l, k) ELSE Above(k, l)

NoCursor == <<>>

\* Mutant: of the rows of the cursor's time, none is behind the cursor.
BehindLater(k, cursor, direction) ==
    \/ cursor = NoCursor
    \/ direction = "next" /\ Before(cursor, k) /\ k[2] # cursor[2]
    \/ direction = "prev" /\ Before(k, cursor) /\ k[2] # cursor[2]

\* Mutant: the row of the cursor is read again.
BehindOrAt(k, cursor, direction) ==
    \/ cursor = NoCursor
    \/ direction = "next" /\ ~Before(k, cursor)
    \/ direction = "prev" /\ ~Before(cursor, k)

\* applyExportCursor, applyTimestampCursor, buildErrorClaimCursorWhereSql
Behind(k, cursor, direction) ==
    \/ cursor = NoCursor
    \/ direction = "next" /\ Before(cursor, k)
    \/ direction = "prev" /\ Before(k, cursor)

\* SELECT ... WHERE (filter and cursor) ORDER BY ... LIMIT take
Fetch(cursor, direction, take) ==
    LET keys == {SortKey(c) : c \in {x \in Claim : rows[x].matches}}
        found == {k \in keys : Behind(k, cursor, direction)}
        Rank(k) == Cardinality({l \in found : IF direction = "next" THEN Before(l, k) ELSE Before(k, l)})
    IN  [i \in 1..Min({take, Cardinality(found)}) |-> CHOOSE k \in found : Rank(k) = i - 1]
=============================================================================
