------------------------- MODULE SummaryCacheProofs -------------------------
(***************************************************************************)
(* Safety of ClaimSummary and SummaryCache for any organizations, readers, *)
(* scripts, statuses and finite table of claims.                           *)
(***************************************************************************)
EXTENDS SummaryCache, FiniteSetTheorems, TLAPS

-----------------------------------------------------------------------------
(* Counting.                                                               *)

\* Two sets that agree but for one element.
LEMMA CardinalitySwap ==
    ASSUME NEW S, NEW T, NEW c, IsFiniteSet(S), \A x : x # c => (x \in S <=> x \in T)
    PROVE  /\ Cardinality(S) \in Nat /\ Cardinality(T) \in Nat
           /\ c \in S /\ c \in T => Cardinality(T) = Cardinality(S)
           /\ c \in S /\ c \notin T => Cardinality(T) = Cardinality(S) - 1
           /\ c \notin S /\ c \in T => Cardinality(T) = Cardinality(S) + 1
           /\ c \notin S /\ c \notin T => Cardinality(T) = Cardinality(S)
<1>1. Cardinality(S) \in Nat
  BY FS_CardinalityType
<1>2. CASE (c \in S <=> c \in T)
  <2>1. S = T
    BY <1>2
  <2> QED
    BY <1>1, <1>2, <2>1
<1>3. CASE c \in S /\ c \notin T
  <2>1. T = S \ {c}
    BY <1>3
  <2>2. IsFiniteSet(T) /\ Cardinality(T) = Cardinality(S) - 1
    BY <1>3, <2>1, FS_RemoveElement
  <2> QED
    BY <1>1, <1>3, <2>2, FS_CardinalityType
<1>4. CASE c \notin S /\ c \in T
  <2>1. T = S \cup {c}
    BY <1>4
  <2>2. Cardinality(T) = Cardinality(S) + 1
    BY <1>4, <2>1, FS_AddElement
  <2> QED
    BY <1>1, <1>4, <2>2
<1> QED
  BY <1>2, <1>3, <1>4

\* Counters, be they right or not.
Counters == [total : Int, by : [Status -> Int]]

In(row, o) == row # Absent /\ row.org = o

\* The claims of an organization in a table, and their counters.
RowsOf(table, o) == {c \in Claim : In(table[c], o)}
OfStatus(table, o, st) == {c \in RowsOf(table, o) : table[c].status = st}
CountersOf(table, o) ==
    [total |-> Cardinality(RowsOf(table, o)),
     by |-> [st \in Status |-> Cardinality(OfStatus(table, o, st))]]

LEMMA CountedNowAndThen ==
    ASSUME NEW o
    PROVE  /\ Counted(o) = CountersOf(claims, o) /\ Counted(o)' = CountersOf(claims', o)
           /\ ClaimsOf(o) = RowsOf(claims, o)
BY DEF Counted, CountersOf, ClaimsOf, RowsOf, OfStatus, In

LEMMA CountersEqual ==
    ASSUME NEW x \in Counters, NEW y \in Counters, x.total = y.total,
           \A st \in Status : x.by[st] = y.by[st]
    PROVE  x = y
BY DEF Counters

LEMMA AddCounts ==
    ASSUME NEW x \in Counters, NEW st \in Status, NEW n \in Int
    PROVE  /\ Add(x, st, n) \in Counters
           /\ Add(x, st, n).total = x.total + n
           /\ \A s \in Status : Add(x, st, n).by[s] = IF s = st THEN x.by[s] + n ELSE x.by[s]
BY DEF Counters, Add

LEMMA CountersTypes ==
    ASSUME NEW table, NEW o
    PROVE  /\ IsFiniteSet(RowsOf(table, o)) /\ Cardinality(RowsOf(table, o)) \in Nat
           /\ \A st : IsFiniteSet(OfStatus(table, o, st))
           /\ CountersOf(table, o) \in Counters
           /\ CountersOf(table, o).total = Cardinality(RowsOf(table, o))
           /\ \A st \in Status : CountersOf(table, o).by[st] = Cardinality(OfStatus(table, o, st))
<1>1. IsFiniteSet(RowsOf(table, o)) /\ Cardinality(RowsOf(table, o)) \in Nat
  BY TableAssumption, FS_Subset, FS_CardinalityType DEF RowsOf
<1>2. ASSUME NEW st
      PROVE  /\ IsFiniteSet(OfStatus(table, o, st))
             /\ Cardinality(OfStatus(table, o, st)) \in Nat
  BY <1>1, FS_Subset, FS_CardinalityType DEF OfStatus
<1> QED
  BY <1>1, <1>2 DEF Counters, CountersOf

\* Without claims all counters are zero.
LEMMA NoClaimsZero ==
    ASSUME NEW table, NEW o, CountersOf(table, o).total = 0
    PROVE  CountersOf(table, o) = Zero
<1>1. RowsOf(table, o) = {}
  BY CountersTypes, FS_EmptySet
<1>2. \A st \in Status : OfStatus(table, o, st) = {}
  BY <1>1 DEF OfStatus
<1>3. Cardinality({}) = 0
  BY FS_EmptySet
<1>4. \A st \in Status : CountersOf(table, o).by[st] = Zero.by[st]
  BY <1>2, <1>3, CountersTypes DEF Zero
<1>5. Zero \in Counters /\ Zero.total = 0
  BY DEF Zero, Counters
<1> QED
  BY <1>4, <1>5, CountersTypes, CountersEqual

\* What one write does to the counters of an organization.
LEMMA WriteCounts ==
    ASSUME NEW table, NEW new, NEW c \in Claim, \A x \in Claim \ {c} : new[x] = table[x], NEW o
    PROVE  /\ ~In(table[c], o) /\ ~In(new[c], o) => CountersOf(new, o) = CountersOf(table, o)
           /\ ~In(table[c], o) /\ In(new[c], o) /\ new[c].status \in Status =>
                  CountersOf(new, o) = Add(CountersOf(table, o), new[c].status, 1)
           /\ In(table[c], o) /\ ~In(new[c], o) /\ table[c].status \in Status =>
                  CountersOf(new, o) = Add(CountersOf(table, o), table[c].status, -1)
           /\ In(table[c], o) /\ In(new[c], o) /\ table[c].status \in Status
              /\ new[c].status \in Status =>
                  CountersOf(new, o) =
                      Add(Add(CountersOf(table, o), table[c].status, -1), new[c].status, 1)
<1> DEFINE a == CountersOf(table, o)
           b == CountersOf(new, o)
           row == new[c]
<1>1. row = new[c]
  OBVIOUS
<1>2. a \in Counters /\ b \in Counters
  BY CountersTypes
<1>3. /\ c \in RowsOf(table, o) <=> In(table[c], o)
      /\ c \in RowsOf(new, o) <=> In(row, o)
      /\ \A x : x # c => (x \in RowsOf(table, o) <=> x \in RowsOf(new, o))
      /\ RowsOf(table, o) \subseteq Claim /\ RowsOf(new, o) \subseteq Claim
  BY <1>1 DEF RowsOf
<1>4. /\ In(table[c], o) /\ In(row, o) => b.total = a.total
      /\ In(table[c], o) /\ ~In(row, o) => b.total = a.total - 1
      /\ ~In(table[c], o) /\ In(row, o) => b.total = a.total + 1
      /\ ~In(table[c], o) /\ ~In(row, o) => b.total = a.total
  <2>1. /\ IsFiniteSet(RowsOf(table, o))
        /\ a.total = Cardinality(RowsOf(table, o)) /\ b.total = Cardinality(RowsOf(new, o))
    BY CountersTypes
  <2> HIDE DEF a, b
  <2> QED
    BY <1>3, <2>1, CardinalitySwap
<1>5. ASSUME NEW st \in Status
      PROVE  b.by[st] = a.by[st] - (IF In(table[c], o) /\ table[c].status = st THEN 1 ELSE 0)
                                 + (IF In(row, o) /\ row.status = st THEN 1 ELSE 0)
  <2>1. /\ c \in OfStatus(table, o, st) <=> In(table[c], o) /\ table[c].status = st
        /\ c \in OfStatus(new, o, st) <=> In(row, o) /\ row.status = st
        /\ \A x : x # c => (x \in OfStatus(table, o, st) <=> x \in OfStatus(new, o, st))
    BY <1>1, <1>3 DEF OfStatus
  <2>2. /\ IsFiniteSet(OfStatus(table, o, st))
        /\ a.by[st] = Cardinality(OfStatus(table, o, st))
        /\ b.by[st] = Cardinality(OfStatus(new, o, st))
    BY CountersTypes
  <2> HIDE DEF a, b
  <2> QED
    BY <2>1, <2>2, CardinalitySwap
<1>6. a.total \in Int /\ b.total \in Int /\ \A st \in Status : a.by[st] \in Int /\ b.by[st] \in Int
  BY <1>2 DEF Counters
<1> HIDE DEF a, b, row
<1>7. ASSUME ~In(table[c], o), ~In(row, o)
      PROVE  b = a
  BY <1>2, <1>4, <1>5, <1>6, <1>7, CountersEqual
<1>8. ASSUME ~In(table[c], o), In(row, o), row.status \in Status
      PROVE  b = Add(a, row.status, 1)
  <2> DEFINE more == Add(a, row.status, 1)
  <2>1. /\ more \in Counters /\ more.total = a.total + 1
        /\ \A s \in Status : more.by[s] = IF s = row.status THEN a.by[s] + 1 ELSE a.by[s]
    BY <1>2, <1>8, AddCounts
  <2> HIDE DEF more
  <2>2. b = more
    BY <1>2, <1>4, <1>5, <1>6, <1>8, <2>1, CountersEqual
  <2> QED
    BY <1>8, <2>2 DEF more
<1>9. ASSUME In(table[c], o), ~In(row, o), table[c].status \in Status
      PROVE  b = Add(a, table[c].status, -1)
  <2> DEFINE less == Add(a, table[c].status, -1)
  <2>1. /\ less \in Counters /\ less.total = a.total - 1
        /\ \A s \in Status : less.by[s] = IF s = table[c].status THEN a.by[s] - 1 ELSE a.by[s]
    <3>1. /\ less \in Counters /\ less.total = a.total + (-1)
          /\ \A s \in Status :
                less.by[s] = IF s = table[c].status THEN a.by[s] + (-1) ELSE a.by[s]
      BY <1>2, <1>9, AddCounts
    <3> HIDE DEF less
    <3> QED
      BY <1>6, <3>1
  <2> HIDE DEF less
  <2>2. b = less
    BY <1>2, <1>4, <1>5, <1>6, <1>9, <2>1, CountersEqual
  <2> QED
    BY <1>9, <2>2 DEF less
<1>10. ASSUME In(table[c], o), In(row, o), table[c].status \in Status, row.status \in Status
       PROVE  b = Add(Add(a, table[c].status, -1), row.status, 1)
  <2> DEFINE less == Add(a, table[c].status, -1)
             both == Add(less, row.status, 1)
  <2>1. /\ less \in Counters /\ less.total = a.total - 1
        /\ \A s \in Status : less.by[s] = IF s = table[c].status THEN a.by[s] - 1 ELSE a.by[s]
    <3>1. /\ less \in Counters /\ less.total = a.total + (-1)
          /\ \A s \in Status :
                less.by[s] = IF s = table[c].status THEN a.by[s] + (-1) ELSE a.by[s]
      BY <1>2, <1>10, AddCounts
    <3> HIDE DEF less
    <3> QED
      BY <1>6, <3>1
  <2> HIDE DEF less
  <2>2. /\ both \in Counters /\ both.total = less.total + 1
        /\ \A s \in Status : both.by[s] = IF s = row.status THEN less.by[s] + 1 ELSE less.by[s]
    BY <1>10, <2>1, AddCounts
  <2> HIDE DEF both
  <2>3. b.total = both.total
    BY <1>4, <1>6, <1>10, <2>1, <2>2
  <2>4. \A s \in Status : b.by[s] = both.by[s]
    BY <1>5, <1>6, <1>10, <2>1, <2>2
  <2>5. b = both
    BY <1>2, <2>2, <2>3, <2>4, CountersEqual
  <2> QED
    BY <1>10, <2>5 DEF both, less
<1> QED
  BY <1>7, <1>8, <1>9, <1>10 DEF a, b, row

-----------------------------------------------------------------------------
(* The triggers.                                                           *)

RowAt(rows, o) == IF o \in DOMAIN rows THEN rows[o] ELSE Zero

LEMMA IncrementShows ==
    ASSUME NEW rows, NEW p, NEW st, NEW o
    PROVE  RowAt(Increment(rows, p, st), o) =
               IF o = p THEN Add(RowAt(rows, p), st, 1) ELSE RowAt(rows, o)
<1>1. Increment(rows, p, st) = Put(rows, p, Add(RowAt(rows, p), st, 1))
  BY DEF Increment, RowAt
<1> DEFINE row == Add(RowAt(rows, p), st, 1)
<1> HIDE DEF row
<1>2. RowAt(Put(rows, p, row), o) = IF o = p THEN row ELSE RowAt(rows, o)
  BY DEF Put, RowAt
<1> QED
  BY <1>1, <1>2 DEF row

LEMMA DecrementShows ==
    ASSUME NEW rows, NEW p, NEW st, NEW o
    PROVE  /\ o # p => RowAt(Decrement(rows, p, st), o) = RowAt(rows, o)
           /\ p \in DOMAIN rows =>
                  RowAt(Decrement(rows, p, st), p) =
                      IF Add(rows[p], st, -1).total <= 0 THEN Zero ELSE Add(rows[p], st, -1)
<1>1. CASE p \notin DOMAIN rows
  BY <1>1 DEF Decrement
<1> DEFINE row == Add(rows[p], st, -1)
<1>2. CASE p \in DOMAIN rows /\ row.total <= 0
  <2>1. Decrement(rows, p, st) = [x \in DOMAIN rows \ {p} |-> rows[x]]
    BY <1>2 DEF Decrement, Restrict
  <2> QED
    BY <1>2, <2>1 DEF RowAt
<1>3. CASE p \in DOMAIN rows /\ ~(row.total <= 0)
  <2>1. Decrement(rows, p, st) = Put(rows, p, row)
    BY <1>3 DEF Decrement
  <2> HIDE DEF row
  <2>2. /\ o # p => RowAt(Put(rows, p, row), o) = RowAt(rows, o)
        /\ RowAt(Put(rows, p, row), p) = row
    BY DEF Put, RowAt
  <2> QED
    BY <1>3, <2>1, <2>2 DEF row
<1> QED
  BY <1>1, <1>2, <1>3

LEMMA TransitionShows ==
    ASSUME NEW rows, NEW p, NEW from, NEW to, NEW o
    PROVE  /\ o # p => RowAt(Transition(rows, p, from, to), o) = RowAt(rows, o)
           /\ p \in DOMAIN rows =>
                  RowAt(Transition(rows, p, from, to), p) = Add(Add(rows[p], from, -1), to, 1)
BY DEF Transition, RowAt

\* What the trigger does to the counters of an organization, by what the write did to it.
LEMMA SyncShows ==
    ASSUME NEW rows, NEW old \in ClaimRow \cup {Absent}, NEW new \in ClaimRow \cup {Absent},
           new # old, NEW o
    PROVE  LET after == RowAt(Sync(rows, old, new), o) IN
           /\ ~In(old, o) /\ ~In(new, o) => after = RowAt(rows, o)
           /\ ~In(old, o) /\ In(new, o) => after = Add(RowAt(rows, o), new.status, 1)
           /\ In(old, o) /\ ~In(new, o) /\ o \in DOMAIN rows =>
                  after = IF Add(rows[o], old.status, -1).total <= 0 THEN Zero
                          ELSE Add(rows[o], old.status, -1)
           /\ In(old, o) /\ In(new, o) /\ o \in DOMAIN rows =>
                  after = Add(Add(rows[o], old.status, -1), new.status, 1)
<1>1. CASE old = Absent
  <2>1. new # Absent /\ Sync(rows, old, new) = Increment(rows, new.org, new.status)
    BY <1>1 DEF Sync
  <2> QED
    BY <1>1, <2>1, IncrementShows DEF In
<1>2. CASE old # Absent /\ new = Absent
  <2>1. Sync(rows, old, new) = Decrement(rows, old.org, old.status)
    BY <1>2 DEF Sync
  <2> QED
    BY <1>2, <2>1, DecrementShows DEF In
<1>3. CASE old # Absent /\ new # Absent /\ old.org # new.org
  <2> DEFINE less == Decrement(rows, old.org, old.status)
  <2>1. Sync(rows, old, new) = Increment(less, new.org, new.status)
    BY <1>3 DEF Sync
  <2>2. /\ o # old.org => RowAt(less, o) = RowAt(rows, o)
        /\ old.org \in DOMAIN rows =>
             RowAt(less, old.org) = IF Add(rows[old.org], old.status, -1).total <= 0 THEN Zero
                                    ELSE Add(rows[old.org], old.status, -1)
    BY DecrementShows
  <2> HIDE DEF less
  <2>3. RowAt(Sync(rows, old, new), o) =
            IF o = new.org THEN Add(RowAt(less, o), new.status, 1) ELSE RowAt(less, o)
    BY <2>1, IncrementShows
  <2> QED
    BY <1>3, <2>2, <2>3 DEF In
<1>4. CASE old # Absent /\ new # Absent /\ old.org = new.org
  <2>1. Sync(rows, old, new) = Transition(rows, new.org, old.status, new.status)
    BY <1>4 DEF Sync
  <2> QED
    BY <1>4, <2>1, TransitionShows DEF In
<1> QED
  BY <1>1, <1>2, <1>3, <1>4

\* A write to a claim keeps right counters right.
LEMMA WriteKeepsExact ==
    ASSUME claims \in [Claim -> ClaimRow \cup {Absent}], stage = "live",
           NEW c \in Claim, NEW new \in ClaimRow \cup {Absent}, WriteClaim(c, new),
           NEW o \in Org, Exact(o)
    PROVE  Exact(o)'
<1> DEFINE old == claims[c]
           a == CountersOf(claims, o)
           b == CountersOf(claims', o)
<1>1. /\ old \in ClaimRow \cup {Absent} /\ new # old
      /\ claims' = [claims EXCEPT ![c] = new] /\ summary' = Sync(summary, old, new)
      /\ claims'[c] = new /\ \A x \in Claim \ {c} : claims'[x] = claims[x]
      /\ In(old, o) => old.status \in Status
      /\ In(new, o) => new.status \in Status
  BY DEF WriteClaim, In, ClaimRow
<1>2. RowAt(summary, o) = a
  BY CountedNowAndThen DEF Exact, Shown, RowAt
<1>3. a \in Counters /\ b \in Counters /\ a.total = Cardinality(RowsOf(claims, o))
  BY CountersTypes
<1>4. In(old, o) => o \in DOMAIN summary
  <2>1. SUFFICES ASSUME In(old, o), o \notin DOMAIN summary PROVE FALSE
    OBVIOUS
  <2>2. c \in RowsOf(claims, o)
    BY <2>1 DEF RowsOf
  <2>3. a.total = 0
    BY <1>2, <2>1 DEF RowAt, Zero
  <2> QED
    BY <1>3, <2>2, <2>3, CountersTypes, FS_EmptySet
<1>5. o \in DOMAIN summary => summary[o] = a
  BY <1>2 DEF RowAt
<1>6. /\ ~In(old, o) /\ ~In(new, o) => b = a
      /\ ~In(old, o) /\ In(new, o) => b = Add(a, new.status, 1)
      /\ In(old, o) /\ ~In(new, o) => b = Add(a, old.status, -1)
      /\ In(old, o) /\ In(new, o) => b = Add(Add(a, old.status, -1), new.status, 1)
  <2>1. \A x \in Claim \ {c} : claims'[x] = claims[x]
    BY <1>1
  <2>2. /\ ~In(claims[c], o) /\ ~In(claims'[c], o) => b = a
        /\ ~In(claims[c], o) /\ In(claims'[c], o) /\ claims'[c].status \in Status =>
               b = Add(a, claims'[c].status, 1)
        /\ In(claims[c], o) /\ ~In(claims'[c], o) /\ claims[c].status \in Status =>
               b = Add(a, claims[c].status, -1)
        /\ In(claims[c], o) /\ In(claims'[c], o) /\ claims[c].status \in Status
           /\ claims'[c].status \in Status =>
               b = Add(Add(a, claims[c].status, -1), claims'[c].status, 1)
    BY <2>1, WriteCounts
  <2> HIDE DEF a, b
  <2> QED
    BY <1>1, <2>2
<1>7. b.total <= 0 => b = Zero
  <2>1. b.total \in Nat
    BY CountersTypes
  <2> QED
    BY <2>1, NoClaimsZero
<1> DEFINE after == RowAt(Sync(summary, old, new), o)
<1>8. /\ ~In(old, o) /\ ~In(new, o) => after = RowAt(summary, o)
      /\ ~In(old, o) /\ In(new, o) => after = Add(RowAt(summary, o), new.status, 1)
      /\ In(old, o) /\ ~In(new, o) /\ o \in DOMAIN summary =>
             after = IF Add(summary[o], old.status, -1).total <= 0 THEN Zero
                     ELSE Add(summary[o], old.status, -1)
      /\ In(old, o) /\ In(new, o) /\ o \in DOMAIN summary =>
             after = Add(Add(summary[o], old.status, -1), new.status, 1)
  BY <1>1, SyncShows
<1> HIDE DEF a, b, old, after
<1>9. after = b
  BY <1>2, <1>4, <1>5, <1>6, <1>7, <1>8
<1>10. RowAt(summary', o) = CountersOf(claims', o)
  BY <1>1, <1>9 DEF after, b, old
<1> QED
  BY <1>10, CountedNowAndThen DEF Exact, Shown, RowAt

-----------------------------------------------------------------------------
(* Types.                                                                  *)

RowsOK(rows) == DOMAIN rows \subseteq Org /\ \A o \in DOMAIN rows : rows[o] \in CounterRow

LEMMA AddTypes ==
    ASSUME NEW row \in CounterRow, NEW st \in Status, NEW to \in Status
    PROVE  /\ Add(row, st, 1) \in CounterRow
           /\ Add(Zero, st, 1) \in CounterRow
           /\ ~(Add(row, st, -1).total <= 0) => Add(row, st, -1) \in CounterRow
           /\ Add(Add(row, st, -1), to, 1) \in CounterRow
BY DEF Add, CounterRow, Zero

LEMMA PutTypes ==
    ASSUME NEW rows, RowsOK(rows), NEW o \in Org, NEW row \in CounterRow
    PROVE  RowsOK(Put(rows, o, row))
BY DEF RowsOK, Put

LEMMA RestrictTypes ==
    ASSUME NEW rows, RowsOK(rows), NEW o
    PROVE  RowsOK(Restrict(rows, DOMAIN rows \ {o}))
BY DEF RowsOK, Restrict

LEMMA IncrementTypes ==
    ASSUME NEW rows, RowsOK(rows), NEW o \in Org, NEW st \in Status
    PROVE  RowsOK(Increment(rows, o, st))
<1> DEFINE row == Add(IF o \in DOMAIN rows THEN rows[o] ELSE Zero, st, 1)
<1>1. row \in CounterRow
  BY AddTypes DEF RowsOK, Add, CounterRow, Zero
<1> HIDE DEF row
<1>2. RowsOK(Put(rows, o, row))
  BY <1>1, PutTypes
<1> QED
  BY <1>2 DEF row, Increment

LEMMA DecrementTypes ==
    ASSUME NEW rows, RowsOK(rows), NEW o \in Org, NEW st \in Status
    PROVE  RowsOK(Decrement(rows, o, st))
<1> DEFINE row == Add(rows[o], st, -1)
<1>1. CASE o \notin DOMAIN rows
  BY <1>1 DEF Decrement
<1>2. CASE o \in DOMAIN rows /\ row.total <= 0
  BY <1>2, RestrictTypes DEF Decrement
<1>3. CASE o \in DOMAIN rows /\ ~(row.total <= 0)
  <2>1. row \in CounterRow
    BY <1>3, AddTypes DEF RowsOK
  <2>2. Decrement(rows, o, st) = Put(rows, o, row)
    BY <1>3 DEF Decrement
  <2> HIDE DEF row
  <2> QED
    BY <2>1, <2>2, PutTypes
<1> QED
  BY <1>1, <1>2, <1>3

LEMMA SyncTypes ==
    ASSUME NEW rows, RowsOK(rows), NEW old \in ClaimRow \cup {Absent},
           NEW new \in ClaimRow \cup {Absent}, new # old
    PROVE  RowsOK(Sync(rows, old, new))
<1>1. /\ old # Absent => old.org \in Org /\ old.status \in Status
      /\ new # Absent => new.org \in Org /\ new.status \in Status
  BY DEF ClaimRow
<1>2. CASE old = Absent
  <2>1. new # Absent /\ Sync(rows, old, new) = Increment(rows, new.org, new.status)
    BY <1>2 DEF Sync
  <2> QED
    BY <1>1, <2>1, IncrementTypes
<1>3. CASE old # Absent /\ new = Absent
  <2>1. Sync(rows, old, new) = Decrement(rows, old.org, old.status)
    BY <1>3 DEF Sync
  <2> QED
    BY <1>1, <1>3, <2>1, DecrementTypes
<1>4. CASE old # Absent /\ new # Absent /\ old.org # new.org
  <2> DEFINE less == Decrement(rows, old.org, old.status)
  <2>1. Sync(rows, old, new) = Increment(less, new.org, new.status)
    BY <1>4 DEF Sync
  <2>2. RowsOK(less)
    BY <1>1, <1>4, DecrementTypes
  <2> HIDE DEF less
  <2> QED
    BY <1>1, <1>4, <2>1, <2>2, IncrementTypes
<1>5. CASE old # Absent /\ new # Absent /\ old.org = new.org
  <2>1. Sync(rows, old, new) = Transition(rows, new.org, old.status, new.status)
    BY <1>5 DEF Sync
  <2>2. \A o \in DOMAIN rows : Add(Add(rows[o], old.status, -1), new.status, 1) \in CounterRow
    BY <1>1, <1>5, AddTypes DEF RowsOK
  <2> QED
    BY <2>1, <2>2 DEF RowsOK, Transition
<1> QED
  BY <1>2, <1>3, <1>4, <1>5

LEMMA CountedRow ==
    ASSUME NEW o, ClaimsOf(o) # {}
    PROVE  Counted(o) \in CounterRow
<1>1. Counted(o) = CountersOf(claims, o) /\ ClaimsOf(o) = RowsOf(claims, o)
  BY CountedNowAndThen
<1>2. CountersOf(claims, o).total # 0
  BY <1>1, CountersTypes, FS_EmptySet
<1>3. CountersOf(claims, o) \in Counters /\ CountersOf(claims, o).total \in Nat
  BY CountersTypes
<1> QED
  BY <1>1, <1>2, <1>3 DEF Counters, CounterRow

LEMMA TypesByRows ==
    TypeOK <=> /\ claims \in [Claim -> ClaimRow \cup {Absent}]
               /\ RowsOK(summary)
               /\ stage \in {"before", "counted", "live"}
               /\ DOMAIN plans = Script /\ \A s \in Script : RowsOK(plans[s])
               /\ checked \in [Script -> SUBSET Org]
               /\ events \in 0..MaxEvents
BY DEF TypeOK, RowsOK

LEMMA SummaryNextTypes == ASSUME TypeOK, [Next]_vars PROVE TypeOK'
<1> USE TypesByRows
<1>1. RowsOK(Nothing)
  BY DEF RowsOK, Nothing
<1>2. ASSUME NEW c \in Claim, NEW new \in ClaimRow \cup {Absent}, WriteClaim(c, new)
      PROVE  TypeOK'
  <2>1. claims' \in [Claim -> ClaimRow \cup {Absent}] /\ claims[c] \in ClaimRow \cup {Absent}
    BY <1>2 DEF WriteClaim, TypeOK
  <2>2. RowsOK(summary')
    BY <1>2, <2>1, SyncTypes DEF WriteClaim
  <2>3. events' \in 0..MaxEvents
    BY <1>2, EventsAssumption DEF WriteClaim, TypeOK
  <2> QED
    BY <1>2, <2>1, <2>2, <2>3 DEF WriteClaim, TypeOK, RowsOK
<1>3. CASE CountClaims
  <2>1. RowsOK(summary')
    BY <1>3, CountedRow DEF CountClaims, RowsOK
  <2> QED
    BY <1>3, <2>1 DEF CountClaims, TypeOK, RowsOK
<1>4. CASE CreateTrigger
  BY <1>4 DEF CreateTrigger, TypeOK
<1>5. ASSUME NEW s \in Script, Select(s)
      PROVE  TypeOK'
  <2>1. RowsOK([o \in Drifted |-> Counted(o)])
    BY CountedRow DEF RowsOK, Drifted
  <2>2. DOMAIN plans' = Script /\ \A t \in Script : RowsOK(plans'[t])
    BY <1>5, <2>1 DEF Select
  <2> QED
    BY <1>5, <2>2 DEF Select, TypeOK, RowsOK
<1>6. ASSUME NEW s \in Script, Upsert(s)
      PROVE  TypeOK'
  <2>1. PICK o \in DOMAIN plans[s] :
            /\ summary' = Put(summary, o, plans[s][o])
            /\ plans' = [plans EXCEPT ![s] = Restrict(plans[s], DOMAIN plans[s] \ {o})]
            /\ checked' = [t \in Script |-> IF o \in checked[s] THEN checked[t]
                                            ELSE checked[t] \ ({o} \ DOMAIN plans[t])]
    BY <1>6 DEF Upsert
  <2>2. o \in Org /\ plans[s][o] \in CounterRow
    BY DEF TypeOK
  <2>3. RowsOK(summary')
    BY <2>1, <2>2, PutTypes
  <2>4. DOMAIN plans' = Script /\ \A t \in Script : RowsOK(plans'[t])
    BY <2>1, RestrictTypes
  <2>5. checked' \in [Script -> SUBSET Org]
    BY <2>1 DEF TypeOK
  <2>6. UNCHANGED <<claims, stage, events>>
    BY <1>6 DEF Upsert
  <2> QED
    BY <2>3, <2>4, <2>5, <2>6 DEF TypeOK, RowsOK
<1>7. ASSUME NEW s \in Script, ScriptDies(s)
      PROVE  TypeOK'
  <2>1. DOMAIN plans' = Script /\ \A t \in Script : RowsOK(plans'[t])
    BY <1>1, <1>7 DEF ScriptDies
  <2>2. events' \in 0..MaxEvents
    BY <1>7, EventsAssumption DEF ScriptDies, TypeOK
  <2> QED
    BY <1>7, <2>1, <2>2 DEF ScriptDies, TypeOK, RowsOK
<1>8. CASE UNCHANGED vars
  BY <1>8 DEF vars, TypeOK
<1> QED
  BY <1>2, <1>3, <1>4, <1>5, <1>6, <1>7, <1>8 DEF Next

\* A row never shows zero claims or fewer, however far it has drifted: the decrement
\* deletes it first, and the migration and the script write none for such organizations.
THEOREM SummaryTypes == Spec => []TypeOK
<1>1. Init => TypeOK
  BY EventsAssumption DEF Init, TypeOK, Nothing
<1> QED
  BY <1>1, SummaryNextTypes, PTL DEF Spec

-----------------------------------------------------------------------------
(* The theorems.                                                           *)

LEMMA NextKeepsExact ==
    ASSUME TypeOK, Next, stage = "live", plans' = plans, NEW o \in Org, Exact(o)
    PROVE  Exact(o)'
<1>1. ASSUME NEW c \in Claim, NEW new \in ClaimRow \cup {Absent}, WriteClaim(c, new)
      PROVE  Exact(o)'
  BY <1>1, WriteKeepsExact DEF TypeOK
<1>2. ASSUME NEW s \in Script, Select(s)
      PROVE  Exact(o)'
  BY <1>2 DEF Select, Exact, Shown, Counted, ClaimsOf
<1>3. ASSUME NEW s \in Script, Upsert(s)
      PROVE  FALSE
  <2>1. PICK p \in DOMAIN plans[s] : plans' = [plans EXCEPT ![s] = Restrict(@, DOMAIN @ \ {p})]
    BY <1>3 DEF Upsert
  <2>2. p \notin DOMAIN plans'[s]
    BY <2>1 DEF Restrict, TypeOK
  <2> QED
    BY <2>1, <2>2
<1>4. ASSUME NEW s \in Script, ScriptDies(s)
      PROVE  FALSE
  BY <1>4 DEF ScriptDies, TypeOK
<1> QED
  BY <1>1, <1>2, <1>3, <1>4 DEF Next, CountClaims, CreateTrigger

-----------------------------------------------------------------------------
(* The reconciliation.                                                     *)

\* A run's counts of the organizations that it has checked are true while it has still to
\* write them, and their counters are right once it has.
Repairs ==
    /\ \A s \in Script : checked[s] # {} => stage = "live"
    /\ \A s \in Script : \A o \in checked[s] :
           IF o \in DOMAIN plans[s] THEN plans[s][o] = Counted(o) ELSE Exact(o)

\* A step that leaves an organization's claims and counters as they are.
LEMMA Unmoved ==
    ASSUME NEW o, Counted(o)' = Counted(o), Shown(o)' = Shown(o)
    PROVE  Exact(o)' <=> Exact(o)
BY DEF Exact

\* A write does not change the counts of the organizations that it does not touch.
LEMMA UntouchedCounts ==
    ASSUME claims \in [Claim -> ClaimRow \cup {Absent}], NEW c \in Claim, NEW new,
           WriteClaim(c, new), NEW o, o \notin Touched(c, new)
    PROVE  Counted(o)' = Counted(o)
<1>1. /\ \A x \in Claim \ {c} : claims'[x] = claims[x]
      /\ ~In(claims[c], o) /\ ~In(claims'[c], o)
  <2>1. claims' = [claims EXCEPT ![c] = new]
    BY DEF WriteClaim
  <2>2. \A row \in {claims[c], new} : row # Absent => row.org # o
    BY DEF Touched
  <2> QED
    BY <2>1, <2>2 DEF In
<1>2. CountersOf(claims', o) = CountersOf(claims, o)
  <2>1. \A x \in Claim \ {c} : claims'[x] = claims[x]
    BY <1>1
  <2>2. ~In(claims[c], o) /\ ~In(claims'[c], o) => CountersOf(claims', o) = CountersOf(claims, o)
    BY <2>1, WriteCounts
  <2> QED
    BY <1>1, <2>2
<1> QED
  BY <1>2, CountedNowAndThen

LEMMA SelectRepairs ==
    ASSUME TypeOK, Repairs, NEW s \in Script, Select(s) PROVE Repairs'
<1>1. /\ plans' = [plans EXCEPT ![s] = [o \in Drifted |-> Counted(o)]]
      /\ checked' = [checked EXCEPT ![s] = {o \in Org : ClaimsOf(o) # {}}]
      /\ UNCHANGED <<claims, summary, stage>> /\ stage = "live"
  BY DEF Select
<1>2. \A o : Counted(o)' = Counted(o) /\ (Exact(o)' <=> Exact(o))
  BY <1>1 DEF Exact, Shown, Counted, ClaimsOf
<1>3. ASSUME NEW o \in Org, ClaimsOf(o) # {}, o \notin Drifted
      PROVE  Exact(o)
  BY <1>3 DEF Drifted, Exact, Shown
<1>4. /\ plans'[s] = [o \in Drifted |-> Counted(o)]
      /\ checked'[s] = {o \in Org : ClaimsOf(o) # {}}
      /\ \A t \in Script : t # s => plans'[t] = plans[t] /\ checked'[t] = checked[t]
  BY <1>1 DEF TypeOK
<1>5. ASSUME NEW t \in Script, NEW o \in checked'[t]
      PROVE  (IF o \in DOMAIN plans[t] THEN plans[t][o] = Counted(o) ELSE Exact(o))'
  BY <1>2, <1>3, <1>4, <1>5 DEF Repairs
<1> QED
  BY <1>1, <1>5 DEF Repairs

LEMMA UpsertRepairs ==
    ASSUME TypeOK, Repairs, NEW s \in Script, Upsert(s) PROVE Repairs'
<1>1. PICK p \in DOMAIN plans[s] :
          /\ summary' = Put(summary, p, plans[s][p])
          /\ plans' = [plans EXCEPT ![s] = Restrict(@, DOMAIN @ \ {p})]
          /\ checked' = [t \in Script |-> IF p \in checked[s] THEN checked[t]
                                          ELSE checked[t] \ ({p} \ DOMAIN plans[t])]
  BY DEF Upsert
<1>2. UNCHANGED <<claims, stage>> /\ \A o : Counted(o)' = Counted(o)
  BY DEF Upsert, Counted, ClaimsOf
<1>3. \A o : o # p => (Exact(o)' <=> Exact(o))
  BY <1>1, <1>2 DEF Exact, Shown, Put
<1>4. p \in checked[s] => Exact(p)'
  BY <1>1, <1>2 DEF Repairs, Exact, Shown, Put
<1>5. /\ DOMAIN plans'[s] = DOMAIN plans[s] \ {p}
      /\ \A o \in DOMAIN plans'[s] : plans'[s][o] = plans[s][o]
      /\ \A t \in Script : t # s => plans'[t] = plans[t]
  BY <1>1 DEF TypeOK, Restrict
<1>6. ASSUME NEW t \in Script
      PROVE  /\ checked'[t] \subseteq checked[t]
             /\ p \in checked'[t] /\ p \notin DOMAIN plans[t] => p \in checked[s]
             /\ s = t /\ p \in checked'[s] => p \in checked[s]
  BY <1>1
<1>7. ASSUME NEW t \in Script, NEW o \in checked'[t]
      PROVE  (IF o \in DOMAIN plans[t] THEN plans[t][o] = Counted(o) ELSE Exact(o))'
  <2>1. IF o \in DOMAIN plans[t] THEN plans[t][o] = Counted(o) ELSE Exact(o)
    BY <1>6 DEF Repairs
  <2> QED
    BY <1>2, <1>3, <1>4, <1>5, <1>6, <2>1
<1> QED
  BY <1>2, <1>6, <1>7 DEF Repairs

LEMMA WriteRepairs ==
    ASSUME TypeOK, Repairs, NEW c \in Claim, NEW new \in ClaimRow \cup {Absent},
           WriteClaim(c, new)
    PROVE  Repairs'
<1>1. /\ UNCHANGED <<stage, plans>>
      /\ \A s \in Script : checked'[s] = checked[s] \ (Touched(c, new) \cap DOMAIN plans[s])
  BY DEF WriteClaim
<1>2. ASSUME NEW s \in Script, NEW o \in checked'[s]
      PROVE  (IF o \in DOMAIN plans[s] THEN plans[s][o] = Counted(o) ELSE Exact(o))'
  <2>1. o \in checked[s] /\ o \in Org /\ stage = "live"
    BY <1>1 DEF Repairs, TypeOK
  <2>2. CASE o \in DOMAIN plans[s]
    <3>1. o \notin Touched(c, new) /\ plans[s][o] = Counted(o)
      BY <1>1, <2>1, <2>2 DEF Repairs
    <3>2. Counted(o)' = Counted(o)
      BY <3>1, UntouchedCounts DEF TypeOK
    <3> QED
      BY <1>1, <2>2, <3>1, <3>2
  <2>3. CASE o \notin DOMAIN plans[s]
    <3>1. Exact(o)
      BY <2>1, <2>3 DEF Repairs
    <3>2. Exact(o)'
      BY <2>1, <3>1, WriteKeepsExact DEF TypeOK
    <3> QED
      BY <1>1, <2>3, <3>2
  <2> QED
    BY <2>2, <2>3
<1> QED
  BY <1>1, <1>2 DEF Repairs

LEMMA NextRepairs == ASSUME TypeOK, Repairs, [Next]_vars PROVE Repairs'
<1>1. CASE CountClaims
  <2>1. \A s \in Script : checked[s] = {}
    BY <1>1 DEF CountClaims, Repairs
  <2> QED
    BY <1>1, <2>1 DEF CountClaims, Repairs
<1>2. CASE CreateTrigger \/ UNCHANGED vars
  <2>1. /\ UNCHANGED <<claims, summary, plans, checked>>
        /\ stage = "live" => stage' = "live"
    BY <1>2 DEF CreateTrigger, vars
  <2>2. \A o : Counted(o)' = Counted(o) /\ (Exact(o)' <=> Exact(o))
    BY <2>1 DEF Exact, Shown, Counted, ClaimsOf
  <2> QED
    BY <2>1, <2>2 DEF Repairs
<1>3. ASSUME NEW s \in Script, ScriptDies(s)
      PROVE  Repairs'
  <2>1. /\ UNCHANGED <<claims, summary, stage>>
        /\ plans'[s] = Nothing /\ checked'[s] = checked[s] \ DOMAIN plans[s]
        /\ \A t \in Script : t # s => plans'[t] = plans[t] /\ checked'[t] = checked[t]
    BY <1>3 DEF ScriptDies, TypeOK
  <2>2. \A o : Counted(o)' = Counted(o) /\ (Exact(o)' <=> Exact(o))
    BY <2>1 DEF Exact, Shown, Counted, ClaimsOf
  <2>3. DOMAIN Nothing = {}
    BY DEF Nothing
  <2> QED
    BY <2>1, <2>2, <2>3 DEF Repairs
<1> QED
  BY <1>1, <1>2, <1>3, WriteRepairs, SelectRepairs, UpsertRepairs DEF Next

\* What a run of the reconciliation has gone over is right, and remains so under writes,
\* unless a count that a write has overtaken is written.
THEOREM ReconciliationRepairs == Spec => []RunRepairs
<1>1. Init => Repairs
  BY DEF Init, Repairs
<1>2. Repairs => RunRepairs
  BY DEF Repairs, RunRepairs
<1> QED
  BY <1>1, <1>2, NextRepairs, SummaryTypes, PTL DEF Spec

-----------------------------------------------------------------------------
(* The triggers under everything else.                                     *)

\* Triggers never make right counters wrong, whatever else has drifted.
THEOREM TriggersKeepExact == Spec => WritesKeepExact
<1>1. TypeOK /\ [Next]_vars =>
          [stage = "live" /\ plans' = plans => \A o \in Org : Exact(o) => Exact(o)']_vars
  BY NextKeepsExact
<1> QED
  BY <1>1, SummaryTypes, PTL DEF Spec, WritesKeepExact

-----------------------------------------------------------------------------
(* The caches.                                                             *)

LoadShape ==
    /\ DOMAIN load = Reader
    /\ \A r \in Reader : load[r] = [view |-> load[r].view, value |-> load[r].value,
                                    current |-> load[r].current]

Loading(r, v) == load[r].view = v /\ load[r].current

\* Readers load views, the history of a view that someone may look at goes on until now,
\* and all that was read for the current window is in it.
CacheInv ==
    /\ LoadShape
    /\ DOMAIN entry = View
    /\ \A r \in Reader : load[r].current => load[r].view \in View
    /\ \A v \in View : Asked(v) => ValueOf(v) \in seen[v]
    /\ \A r \in Reader : (load[r].current /\ load[r].value # NoValue) =>
           load[r].value \in seen[load[r].view]
    /\ CacheIsRecent

\* Loads and entries are in the history that a step keeps.
LEMMA Remembers ==
    ASSUME NEW history, Remember(history), LoadShape', DOMAIN entry' = View,
           \A r \in Reader : load'[r].current => load'[r].view \in View,
           \A r \in Reader : (load'[r].current /\ load'[r].value # NoValue) =>
               load'[r].value \in history[load'[r].view],
           \A v \in View : entry'[v] # NoValue => entry'[v] \in history[v]
    PROVE  CacheInv'
<1>1. ASSUME NEW v \in View, Asked(v)'
      PROVE  ValueOf(v)' \in seen'[v] /\ history[v] \subseteq seen'[v]
  BY <1>1 DEF Remember
<1>2. \A v \in View : (Asked(v) => ValueOf(v) \in seen[v])'
  BY <1>1
<1>3. ASSUME NEW r \in Reader, load'[r].current, load'[r].value # NoValue
      PROVE  load'[r].value \in seen'[load'[r].view]
  <2>1. PICK v \in View : v = load'[r].view
    BY <1>3
  <2>2. Asked(v)'
    BY <1>3, <2>1 DEF Asked
  <2> QED
    BY <1>1, <1>3, <2>1, <2>2
<1>4. ASSUME NEW v \in View, entry'[v] # NoValue
      PROVE  entry'[v] \in seen'[v]
  <2>1. Asked(v)'
    BY <1>4 DEF Asked
  <2> QED
    BY <1>1, <1>4, <2>1
<1> QED
  BY <1>2, <1>3, <1>4 DEF CacheInv, CacheIsRecent

LEMMA CacheNextInv == ASSUME CacheInv, [CacheNext]_allVars PROVE CacheInv'
<1>1. CASE CountersChange
  BY <1>1, Remembers DEF CountersChange, CacheInv, LoadShape, CacheIsRecent
<1>2. ASSUME NEW r \in Reader, NEW v \in View, Miss(r, v)
      PROVE  CacheInv'
  <2>1. load' = [load EXCEPT ![r] = [view |-> v, value |-> NoValue, current |-> TRUE]]
    BY <1>2 DEF Miss
  <2>2. \A q \in Reader : q # r => load'[q] = load[q]
    BY <2>1 DEF CacheInv, LoadShape
  <2>3. load'[r] = [view |-> v, value |-> NoValue, current |-> TRUE] /\ DOMAIN load' = Reader
    BY <2>1 DEF CacheInv, LoadShape
  <2>4. LoadShape'
    BY <2>2, <2>3 DEF CacheInv, LoadShape
  <2>5. /\ \A q \in Reader : load'[q].current => load'[q].view \in View
        /\ \A q \in Reader : (load'[q].current /\ load'[q].value # NoValue) =>
               load'[q].value \in seen[load'[q].view]
    BY <2>2, <2>3 DEF CacheInv
  <2> QED
    BY <1>2, <2>4, <2>5, Remembers DEF Miss, CacheInv, CacheIsRecent
<1>3. ASSUME NEW r \in Reader, Load(r)
      PROVE  CacheInv'
  <2>1. /\ load' = [load EXCEPT ![r].value = ValueOf(load[r].view)]
        /\ UNCHANGED <<entry, seen, summary>>
    BY <1>3 DEF Load, vars
  <2>2. \A q \in Reader : /\ load'[q].view = load[q].view /\ load'[q].current = load[q].current
                          /\ q # r => load'[q].value = load[q].value
                          /\ load'[r].value = ValueOf(load[r].view)
    BY <2>1 DEF CacheInv, LoadShape
  <2>3. LoadShape'
    BY <2>1 DEF CacheInv, LoadShape
  <2>4. \A v \in View : (Asked(v) => ValueOf(v) \in seen[v])'
    <3>1. ASSUME NEW v \in View PROVE Asked(v)' <=> Asked(v)
      BY <2>1, <2>2 DEF Asked
    <3>2. ASSUME NEW v \in View PROVE ValueOf(v)' = ValueOf(v)
      BY <2>1 DEF ValueOf, Shown
    <3> QED
      BY <2>1, <3>1, <3>2 DEF CacheInv
  <2>5. load[r].current => ValueOf(load[r].view) \in seen[load[r].view]
    BY DEF CacheInv, Asked
  <2>6. \A q \in Reader : (load'[q].current /\ load'[q].value # NoValue) =>
            load'[q].value \in seen'[load'[q].view]
    BY <2>1, <2>2, <2>5 DEF CacheInv
  <2> QED
    BY <2>1, <2>2, <2>3, <2>4, <2>6 DEF CacheInv, CacheIsRecent
<1>4. ASSUME NEW r \in Reader, load' = [load EXCEPT ![r] = NoLoad]
      PROVE  /\ LoadShape'
             /\ \A q \in Reader : load'[q].current => load'[q].view \in View
             /\ \A q \in Reader : (load'[q].current /\ load'[q].value # NoValue) =>
                    load'[q].value \in seen[load'[q].view]
  <2>1. LoadShape'
    BY <1>4 DEF CacheInv, LoadShape, NoLoad
  <2>2. \A q \in Reader : load'[q] = IF q = r THEN NoLoad ELSE load[q]
    BY <1>4 DEF CacheInv, LoadShape
  <2>3. ~NoLoad.current
    BY DEF NoLoad
  <2> QED
    BY <2>1, <2>2, <2>3 DEF CacheInv
<1>5. ASSUME NEW r \in Reader, Store(r)
      PROVE  CacheInv'
  <2>1. entry' = [v \in View |-> IF Stored(r, v) THEN load[r].value ELSE entry[v]]
    BY <1>5 DEF Store
  <2>2. \A v \in View : entry'[v] # NoValue => entry'[v] \in seen[v]
    BY <1>5, <2>1 DEF Store, Stored, CacheInv, CacheIsRecent
  <2> QED
    BY <1>4, <1>5, <2>1, <2>2, Remembers DEF Store
<1>6. ASSUME NEW r \in Reader, LoadFails(r)
      PROVE  CacheInv'
  BY <1>4, <1>6, Remembers DEF LoadFails, CacheInv, CacheIsRecent
<1>7. CASE NextWindow
  <2>1. /\ entry' = [v \in View |-> NoValue]
        /\ load' = [r \in Reader |-> [load[r] EXCEPT !.current = FALSE]]
        /\ Remember(NoHistory)
    BY <1>7 DEF NextWindow
  <2>2. \A r \in Reader : load[r] = [view |-> load[r].view, value |-> load[r].value,
                                     current |-> load[r].current]
    BY DEF CacheInv, LoadShape
  <2>3. \A r \in Reader : load'[r] = [view |-> load[r].view, value |-> load[r].value,
                                      current |-> FALSE]
    <3> TAKE r \in Reader
    <3>1. load'[r] = [load[r] EXCEPT !.current = FALSE]
      BY <2>1
    <3>2. PICK v, w, c : /\ load[r] = [view |-> v, value |-> w, current |-> c]
                         /\ v = load[r].view /\ w = load[r].value
      BY <2>2
    <3> QED
      BY <3>1, <3>2
  <2>4. LoadShape' /\ \A r \in Reader : ~load'[r].current
    BY <2>1, <2>3 DEF LoadShape
  <2> QED
    BY <2>1, <2>4, Remembers
<1>8. ASSUME NEW o \in Org, Revalidate(o)
      PROVE  CacheInv'
  <2> DEFINE history == [v \in View |-> IF v \in {o, AllOrgs} /\ ~HasRead(v) THEN {} ELSE seen[v]]
  <2>1. /\ entry' = [v \in View |-> IF v \in Revalidated(o) THEN NoValue ELSE entry[v]]
        /\ load' = load /\ Remember(history)
    BY <1>8 DEF Revalidate
  <2>2. \A v \in View : entry'[v] # NoValue => entry'[v] \in history[v]
    BY <2>1 DEF Revalidated, CacheInv, CacheIsRecent
  <2>3. ASSUME NEW r \in Reader, load'[r].current, load'[r].value # NoValue
        PROVE  load'[r].value \in history[load'[r].view]
    <3>1. load[r].view \in View /\ HasRead(load[r].view)
      BY <2>1, <2>3 DEF CacheInv, HasRead
    <3> QED
      BY <2>1, <2>3, <3>1 DEF CacheInv
  <2> HIDE DEF history
  <2> QED
    BY <2>1, <2>2, <2>3, Remembers DEF CacheInv, LoadShape
<1>9. CASE UNCHANGED allVars
  <2>1. \A v \in View : ValueOf(v)' = ValueOf(v)
    BY <1>9 DEF allVars, vars, ValueOf, Shown
  <2> QED
    BY <1>9, <2>1 DEF allVars, cacheVars, CacheInv, LoadShape, Asked, CacheIsRecent
<1> QED
  BY <1>1, <1>2, <1>3, <1>5, <1>6, <1>7, <1>8, <1>9 DEF CacheNext

LEMMA CacheInitInv == CacheInit => CacheInv
<1> SUFFICES ASSUME CacheInit PROVE CacheInv
  OBVIOUS
<1>1. /\ entry = [v \in View |-> NoValue] /\ load = [r \in Reader |-> NoLoad]
  BY DEF CacheInit
<1>2. LoadShape /\ \A r \in Reader : ~load[r].current
  BY <1>1 DEF LoadShape, NoLoad
<1> QED
  BY <1>1, <1>2 DEF CacheInv, CacheIsRecent, Asked

\* A cached summary was true within its window and, unless it was being loaded at the
\* time, since the last revalidation, however many readers load and store it.
THEOREM CacheShowsRecent == CacheSpec => []CacheIsRecent
<1>1. CacheInv => CacheIsRecent
  BY DEF CacheInv
<1> QED
  BY <1>1, CacheInitInv, CacheNextInv, PTL DEF CacheSpec

\* The caches only read: with them the counters behave as they do alone.
THEOREM CacheImplementsSummary == CacheSpec => Spec
<1>1. CacheInit => Init
  BY DEF CacheInit
<1>2. [CacheNext]_allVars => [Next]_vars
  BY DEF CacheNext, CountersChange, Miss, Load, Store, LoadFails, NextWindow, Revalidate, allVars
<1> QED
  BY <1>1, <1>2, PTL DEF CacheSpec, Spec

\* So the triggers keep right counters right under the caches as well.
THEOREM CachedCountersKeepExact == CacheSpec => WritesKeepExact
BY CacheImplementsSummary, TriggersKeepExact

\* And a run of the reconciliation repairs them.
THEOREM CachedCountersAreRepaired == CacheSpec => []RunRepairs
BY CacheImplementsSummary, ReconciliationRepairs
=============================================================================
