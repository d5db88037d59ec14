-------------------------- MODULE ClaimListsProofs --------------------------
(***************************************************************************)
(* Safety of the lists and of the export for any claims, pages, batches    *)
(* and limits, and any number of writes meanwhile.                         *)
(***************************************************************************)
EXTENDS ClaimLists, FiniteSetTheorems, FunctionTheorems, SequenceTheorems, TLAPS

-----------------------------------------------------------------------------
(* The order of the lists.                                                 *)

Key == Nat \X Nat \X Nat

LEMMA AboveIsOrder ==
    ASSUME NEW k \in Key, NEW l \in Key, NEW m \in Key
    PROVE  /\ ~Above(k, k)
           /\ Above(k, l) /\ Above(l, m) => Above(k, m)
           /\ k = l \/ Above(k, l) \/ Above(l, k)
<1>1. /\ k[1] \in Nat /\ k[2] \in Nat /\ k[3] \in Nat
      /\ l[1] \in Nat /\ l[2] \in Nat /\ l[3] \in Nat
      /\ m[1] \in Nat /\ m[2] \in Nat /\ m[3] \in Nat
  BY DEF Key
<1>2. k[1] = l[1] /\ k[2] = l[2] /\ k[3] = l[3] => k = l
  BY DEF Key
<1> QED
  BY <1>1, <1>2 DEF Above

\* k is read before l.
Leads(direction, k, l) == IF direction = "next" THEN Before(k, l) ELSE Before(l, k)

LEMMA LeadsIsOrder ==
    ASSUME NEW d, NEW k \in Key, NEW l \in Key, NEW m \in Key
    PROVE  /\ ~Leads(d, k, k)
           /\ Leads(d, k, l) /\ Leads(d, l, m) => Leads(d, k, m)
           /\ k = l \/ Leads(d, k, l) \/ Leads(d, l, k)
BY AboveIsOrder DEF Leads, Before

Rank(direction, found, k) == Cardinality({l \in found : Leads(direction, l, k)})

LEMMA CountTo ==
    ASSUME NEW n \in Nat
    PROVE  IsFiniteSet(1 .. n) /\ Cardinality(1 .. n) = n
<1>1. /\ IsFiniteSet(1 .. n) /\ Cardinality(1 .. n) = IF 1 > n THEN 0 ELSE n - 1 + 1
  BY FS_Interval
<1> QED
  BY <1>1

\* The rank grows with the order ...
LEMMA RankGrows ==
    ASSUME NEW d, NEW found \in SUBSET Key, IsFiniteSet(found), NEW k \in found, NEW l \in found
    PROVE  /\ Rank(d, found, k) \in 0 .. (Cardinality(found) - 1)
           /\ Leads(d, k, l) => Rank(d, found, k) < Rank(d, found, l)
<1> DEFINE before(x) == {y \in found : Leads(d, y, x)}
<1>1. ASSUME NEW x \in found
      PROVE  /\ IsFiniteSet(before(x)) /\ Cardinality(before(x)) \in Nat
             /\ before(x) \in SUBSET found /\ x \notin before(x)
  <2>1. before(x) \in SUBSET found /\ x \notin before(x)
    BY LeadsIsOrder
  <2> HIDE DEF before
  <2> QED
    BY <2>1, FS_Subset, FS_CardinalityType
<1>2. Cardinality(found) \in Nat
  BY FS_CardinalityType
<1>3. Cardinality(before(k)) < Cardinality(found)
  <2> HIDE DEF before
  <2>1. Cardinality(before(k)) <= Cardinality(found) /\ Cardinality(before(k)) # Cardinality(found)
    BY <1>1, FS_Subset
  <2> QED
    BY <1>1, <1>2, <2>1
<1>4. ASSUME Leads(d, k, l)
      PROVE  Cardinality(before(k)) < Cardinality(before(l))
  <2>1. before(k) \in SUBSET before(l) /\ k \in before(l)
    BY <1>4, LeadsIsOrder
  <2> HIDE DEF before
  <2>2. /\ Cardinality(before(k)) <= Cardinality(before(l))
        /\ Cardinality(before(k)) # Cardinality(before(l))
    BY <1>1, <2>1, FS_Subset
  <2> QED
    BY <1>1, <2>2
<1> QED
  BY <1>1, <1>2, <1>3, <1>4 DEF Rank

\* ... and takes each value.
LEMMA RankTakesAll ==
    ASSUME NEW d, NEW found \in SUBSET Key, IsFiniteSet(found), NEW i \in 1 .. Cardinality(found)
    PROVE  \E k \in found : Rank(d, found, k) = i - 1
<1> DEFINE n == Cardinality(found)
           f == [k \in found |-> Rank(d, found, k) + 1]
<1>1. n \in Nat
  BY FS_CardinalityType
<1>2. IsFiniteSet(1 .. n) /\ Cardinality(1 .. n) = n
  BY <1>1, CountTo
<1>3. \A k \in found : Rank(d, found, k) + 1 \in 1 .. n
  BY <1>1, RankGrows
<1>4. ASSUME NEW k \in found, NEW l \in found, k # l
      PROVE  Rank(d, found, k) # Rank(d, found, l)
  <2>1. Leads(d, k, l) \/ Leads(d, l, k)
    BY <1>4, LeadsIsOrder
  <2>2. Rank(d, found, k) \in Int /\ Rank(d, found, l) \in Int
    BY RankGrows
  <2> QED
    BY <2>1, <2>2, RankGrows
<1>5. f \in Injection(found, 1 .. n)
  <2>1. f \in [found -> 1 .. n]
    BY <1>3
  <2>2. \A k, l \in found : f[k] = f[l] => k = l
    <3>1. \A k \in found : Rank(d, found, k) \in Int
      BY RankGrows
    <3> QED
      BY <1>4, <3>1
  <2> HIDE DEF f
  <2> QED
    BY <2>1, <2>2, Fun_IsInj
<1> HIDE DEF f
<1>6. f \in Surjection(found, 1 .. n)
  BY <1>2, <1>5, FS_Injection
<1>7. PICK k \in found : f[k] = i
  BY <1>6 DEF Surjection
<1>8. Rank(d, found, k) \in Int /\ f[k] = Rank(d, found, k) + 1
  BY RankGrows DEF f
<1> QED
  BY <1>7, <1>8

-----------------------------------------------------------------------------
(* What a query returns.                                                   *)

Keys == {SortKey(c) : c \in {x \in Claim : rows[x].matches}}
Found(cursor, direction) == {k \in Keys : Behind(k, cursor, direction)}

LEMMA KeysAreFinite ==
    ASSUME rows \in [Claim -> Row]
    PROVE  /\ Keys \in SUBSET Key /\ IsFiniteSet(Keys)
           /\ \A k \in Keys : k[3] \in Claim /\ rows[k[3]].matches /\ k = SortKey(k[3])
           /\ \A c \in Claim : SortKey(c) \in Key /\ SortKey(c)[3] = c
           /\ \A c \in Claim : rows[c].matches <=> SortKey(c) \in Keys
<1> DEFINE M == {x \in Claim : rows[x].matches}
           f == [c \in M |-> SortKey(c)]
<1>1. \A c \in Claim : SortKey(c) \in Key /\ SortKey(c)[3] = c
  BY ClaimAssumption DEF SortKey, Key, Row
<1>2. Keys \in SUBSET Key
  BY <1>1 DEF Keys
<1>3. IsFiniteSet(M)
  BY ClaimAssumption, FS_Subset
<1>4. Keys = {SortKey(c) : c \in M}
  BY DEF Keys
<1>5. \A c \in Claim : rows[c].matches <=> SortKey(c) \in Keys
  BY <1>1, <1>4
<1> HIDE DEF M
<1>6. f \in Surjection(M, Keys)
  BY <1>4, Fun_IsSurj
<1> HIDE DEF f
<1>7. IsFiniteSet(Keys)
  BY <1>3, <1>6, FS_Surjection
<1>8. \A k \in Keys : k[3] \in Claim /\ rows[k[3]].matches /\ k = SortKey(k[3])
  BY <1>1 DEF Keys
<1> QED
  BY <1>1, <1>2, <1>5, <1>7, <1>8

LEMMA SmallerOf ==
    ASSUME NEW a \in Nat, NEW b \in Nat
    PROVE  Min({a, b}) = IF a <= b THEN a ELSE b
<1>1. CASE a <= b
  <2>1. a \in {a, b} /\ \A y \in {a, b} : a =< y
    BY <1>1
  <2>2. \A x \in {a, b} : (\A y \in {a, b} : x =< y) => x = a
    BY <1>1
  <2> QED
    BY <1>1, <2>1, <2>2 DEF Min
<1>2. CASE ~(a <= b)
  <2>1. b \in {a, b} /\ \A y \in {a, b} : b =< y
    BY <1>2
  <2>2. \A x \in {a, b} : (\A y \in {a, b} : x =< y) => x = b
    BY <1>2
  <2> QED
    BY <1>2, <2>1, <2>2 DEF Min
<1> QED
  BY <1>1, <1>2

\* Each row is where its rank says.
LEMMA FetchRanks ==
    ASSUME rows \in [Claim -> Row], NEW cursor, NEW d, NEW take \in Nat
    PROVE  /\ Found(cursor, d) \in SUBSET Key /\ IsFiniteSet(Found(cursor, d))
           /\ Cardinality(Found(cursor, d)) \in Nat
           /\ Fetch(cursor, d, take) \in Seq(Key)
           /\ Len(Fetch(cursor, d, take)) = IF take <= Cardinality(Found(cursor, d))
                                            THEN take ELSE Cardinality(Found(cursor, d))
           /\ \A i \in 1 .. Len(Fetch(cursor, d, take)) :
                  /\ Fetch(cursor, d, take)[i] \in Found(cursor, d)
                  /\ Rank(d, Found(cursor, d), Fetch(cursor, d, take)[i]) = i - 1
<1> DEFINE found == Found(cursor, d)
           n == Cardinality(found)
           len == Min({take, n})
           s == Fetch(cursor, d, take)
<1>1. found \in SUBSET Key /\ IsFiniteSet(found)
  BY KeysAreFinite, FS_Subset DEF Found
<1>2. n \in Nat /\ len = IF take <= n THEN take ELSE n
  BY <1>1, FS_CardinalityType, SmallerOf
<1>3. s = [i \in 1 .. len |-> CHOOSE k \in found : Rank(d, found, k) = i - 1]
  BY DEF Fetch, Found, Keys, Rank, Leads
<1> HIDE DEF s, len
<1>4. ASSUME NEW i \in 1 .. len
      PROVE  s[i] \in found /\ Rank(d, found, s[i]) = i - 1
  <2>1. i \in 1 .. n
    BY <1>2
  <2>2. \E k \in found : Rank(d, found, k) = i - 1
    BY <1>1, <2>1, RankTakesAll
  <2>3. s[i] = CHOOSE k \in found : Rank(d, found, k) = i - 1
    BY <1>3
  <2> HIDE DEF found
  <2> QED
    BY <2>2, <2>3
<1> HIDE DEF found, n
<1>5. s \in Seq(Key) /\ Len(s) = len
  <2>1. len \in Nat
    BY <1>2
  <2>2. s \in [1 .. len -> Key]
    BY <1>1, <1>3, <1>4
  <2>3. s \in Seq(Key)
    BY <2>1, <2>2, SeqDef
  <2> QED
    BY <2>1, <2>2, <2>3
<1> QED
  BY <1>1, <1>2, <1>4, <1>5 DEF s, found, n

\* The first rows behind the cursor, in order.
Answers(s, cursor, direction, take) ==
    /\ s \in Seq(Key) /\ Len(s) <= take
    /\ \A i \in 1 .. Len(s) : s[i] \in Found(cursor, direction)
    /\ \A i, j \in 1 .. Len(s) : i < j => Leads(direction, s[i], s[j])
    /\ \A k \in Found(cursor, direction) :
           \/ \E i \in 1 .. Len(s) : s[i] = k
           \/ Len(s) = take /\ \A i \in 1 .. Len(s) : Leads(direction, s[i], k)

LEMMA FetchAnswers ==
    ASSUME rows \in [Claim -> Row], NEW cursor, NEW d, NEW take \in Nat
    PROVE  Answers(Fetch(cursor, d, take), cursor, d, take)
<1> DEFINE found == Found(cursor, d)
           n == Cardinality(found)
           s == Fetch(cursor, d, take)
           len == Len(s)
<1>1. found \in SUBSET Key /\ IsFiniteSet(found)
  BY FetchRanks
<1>2. n \in Nat /\ len = IF take <= n THEN take ELSE n
  BY FetchRanks
<1> HIDE DEF s
<1>3. ASSUME NEW i \in 1 .. len
      PROVE  s[i] \in found /\ Rank(d, found, s[i]) = i - 1
  BY FetchRanks DEF s
<1> HIDE DEF found, n
<1>4. s \in Seq(Key) /\ len \in Nat /\ len <= take
  BY <1>2, FetchRanks DEF s
<1> HIDE DEF len
<1>5. \A k \in found : Rank(d, found, k) \in 0 .. (n - 1)
  BY <1>1, RankGrows DEF n
<1>6. \A k, l \in found : Rank(d, found, k) < Rank(d, found, l) => Leads(d, k, l)
  <2> SUFFICES ASSUME NEW k \in found, NEW l \in found, Rank(d, found, k) < Rank(d, found, l)
               PROVE  Leads(d, k, l)
    OBVIOUS
  <2>1. k # l /\ ~(Rank(d, found, l) < Rank(d, found, k))
    BY <1>5
  <2>2. Leads(d, l, k) => Rank(d, found, l) < Rank(d, found, k)
    BY <1>1, RankGrows
  <2> QED
    BY <1>1, <2>1, <2>2, LeadsIsOrder
<1>7. ASSUME NEW i \in 1 .. len, NEW j \in 1 .. len, i < j
      PROVE  Leads(d, s[i], s[j])
  BY <1>3, <1>4, <1>6, <1>7
<1>8. ASSUME NEW k \in found
      PROVE  (\E i \in 1 .. len : s[i] = k) \/ (len = take /\ \A i \in 1 .. len : Leads(d, s[i], k))
  <2>1. Rank(d, found, k) \in 0 .. (n - 1)
    BY <1>5
  <2>2. CASE Rank(d, found, k) + 1 \in 1 .. len
    <3> DEFINE i == Rank(d, found, k) + 1
    <3>1. s[i] \in found /\ Rank(d, found, s[i]) = Rank(d, found, k)
      BY <1>3, <2>1, <2>2
    <3>2. ~Leads(d, s[i], k) /\ ~Leads(d, k, s[i])
      <4>1. \A x, y \in found : Leads(d, x, y) => Rank(d, found, x) < Rank(d, found, y)
        BY <1>1, RankGrows
      <4>2. /\ ~(Rank(d, found, s[i]) < Rank(d, found, k))
            /\ ~(Rank(d, found, k) < Rank(d, found, s[i]))
        BY <2>1, <3>1
      <4> QED
        BY <3>1, <4>1, <4>2
    <3>3. s[i] = k
      BY <1>1, <3>1, <3>2, LeadsIsOrder
    <3> QED
      BY <2>2, <3>3
  <2>3. CASE Rank(d, found, k) + 1 \notin 1 .. len
    <3>1. len = take /\ Rank(d, found, k) >= len
      BY <1>2, <1>4, <2>1, <2>3
    <3>2. \A i \in 1 .. len : s[i] \in found /\ Rank(d, found, s[i]) < Rank(d, found, k)
      BY <1>3, <1>4, <2>1, <3>1
    <3> QED
      BY <1>6, <3>1, <3>2
  <2> QED
    BY <2>2, <2>3
<1> QED
  BY <1>3, <1>4, <1>7, <1>8 DEF Answers, found, s, len

-----------------------------------------------------------------------------
(* The table.                                                              *)

\* No row is ahead of the clock; only one list looks at counts, only one at claims that
\* are not dated; what is on a list has a time.
RowsInv ==
    /\ view \in View /\ now \in Nat \ {0, 1} /\ rows \in [Claim -> Row]
    /\ \A c \in Claim :
           /\ rows[c].at <= now
           /\ view # "receive_count_desc" => rows[c].count = 0
           /\ view # "failure_oldest_first" => rows[c].dated
           /\ rows[c].matches => rows[c].at # 0

LEMMA TableStart == ASSUME TableInit PROVE RowsInv
<1>1. view \in View /\ now = 2 /\ rows \in [Claim -> InitialRow]
  BY DEF TableInit
<1>2. \A row \in InitialRow :
          /\ row \in Row /\ row.at <= 2
          /\ view # "receive_count_desc" => row.count = 0
          /\ view # "failure_oldest_first" => row.dated
          /\ row.matches => row.at # 0
  <2> TAKE row \in InitialRow
  <2>1. CASE row = Unlisted
    BY <2>1 DEF Unlisted, Row
  <2>2. CASE row # Unlisted /\ view = "receive_count_desc"
    <3>1. PICK n \in Counts : row = [matches |-> TRUE, at |-> 1, count |-> n, dated |-> TRUE]
      BY <2>2 DEF InitialRow
    <3>2. n \in Nat
      BY <2>2, WritesAssumption DEF Counts
    <3> QED
      BY <2>2, <3>1, <3>2 DEF Row
  <2>3. CASE row # Unlisted /\ view = "failure_oldest_first"
    <3>1. \/ row = [matches |-> TRUE, at |-> 1, count |-> 0, dated |-> FALSE]
          \/ row = [matches |-> TRUE, at |-> 2, count |-> 0, dated |-> TRUE]
      BY <2>3 DEF InitialRow
    <3>2. row = [matches |-> TRUE, at |-> 1, count |-> 0, dated |-> FALSE] =>
              row \in Row /\ row.at = 1 /\ row.count = 0 /\ row.dated = FALSE
      BY DEF Row
    <3>3. row = [matches |-> TRUE, at |-> 2, count |-> 0, dated |-> TRUE] =>
              row \in Row /\ row.at = 2 /\ row.count = 0 /\ row.dated
      BY DEF Row
    <3> QED
      BY <2>3, <3>1, <3>2, <3>3
  <2>4. CASE row # Unlisted /\ view \notin {"receive_count_desc", "failure_oldest_first"}
    <3>1. \/ row = [matches |-> TRUE, at |-> 1, count |-> 0, dated |-> TRUE]
          \/ row = [matches |-> TRUE, at |-> 2, count |-> 0, dated |-> TRUE]
      BY <2>4 DEF InitialRow
    <3>2. row = [matches |-> TRUE, at |-> 1, count |-> 0, dated |-> TRUE] =>
              row \in Row /\ row.at = 1 /\ row.count = 0 /\ row.dated = TRUE
      BY DEF Row
    <3>3. row = [matches |-> TRUE, at |-> 2, count |-> 0, dated |-> TRUE] =>
              row \in Row /\ row.at = 2 /\ row.count = 0 /\ row.dated
      BY DEF Row
    <3> QED
      BY <2>4, <3>1, <3>2, <3>3
  <2> QED
    BY <2>1, <2>2, <2>3, <2>4
<1>3. \A c \in Claim : rows[c] \in InitialRow
  BY <1>1
<1>4. rows \in [Claim -> Row]
  BY <1>1, <1>2
<1> QED
  BY <1>1, <1>2, <1>3, <1>4 DEF RowsInv

\* A claim that leaves the list, one that enters it, and one that is written on it.
RowStep(row, new) ==
    \/ /\ ~new.matches
       /\ ByCreation => new.at = row.at /\ new.count = row.count
    \/ /\ new.matches /\ ~row.matches /\ (ByCreation /\ row.at # 0 => new.at = row.at)
       /\ ~ByCreation => new.at >= now
    \/ /\ new.matches /\ row.matches /\ ~ByCreation
       /\ new.count = row.count /\ new.at >= now

LEMMA TableStep ==
    ASSUME RowsInv, TableNext
    PROVE  /\ RowsInv' /\ view' = view /\ now <= now' /\ now \in Nat /\ now' \in Nat
           /\ \A c \in Claim : rows'[c] = rows[c] \/ RowStep(rows[c], rows'[c])
<1> USE DEF RowsInv
<1>1. PICK c \in Claim : Enter(c) \/ Leave(c) \/ Touch(c)
  BY DEF TableNext
<1>2. /\ rows \in [Claim -> Row] /\ rows[c] \in Row /\ now \in Nat \ {0, 1}
      /\ rows[c].at \in Nat /\ rows[c].at <= now /\ Counts \subseteq Nat
      /\ view # "receive_count_desc" => Counts = {0}
  BY WritesAssumption DEF Counts, Row
<1>3. \E t \in {now, now + 1}, new \in Row :
          /\ Write(c, t, new) /\ RowStep(rows[c], new) /\ new.at <= t
          /\ view # "receive_count_desc" => new.count = 0
          /\ view # "failure_oldest_first" => new.dated
          /\ new.matches => new.at # 0
  <2>1. CASE Enter(c)
    <3>1. PICK t \in Times, lag \in (IF ByCreation THEN 0..1 ELSE {0}), n \in Counts :
              /\ ~rows[c].matches
              /\ Write(c, t, [matches |-> TRUE, count |-> n, dated |-> TRUE,
                              at |-> IF ByCreation /\ rows[c].at # 0 THEN rows[c].at ELSE t - lag])
      BY <2>1 DEF Enter
    <3> DEFINE at == IF ByCreation /\ rows[c].at # 0 THEN rows[c].at ELSE t - lag
               new == [matches |-> TRUE, count |-> n, dated |-> TRUE, at |-> at]
    <3>2. t \in {now, now + 1} /\ lag \in 0 .. 1 /\ (~ByCreation => lag = 0)
      BY DEF Times
    <3>3. /\ at \in Nat /\ at # 0 /\ at <= t /\ (ByCreation /\ rows[c].at # 0 => at = rows[c].at)
          /\ ~ByCreation => at >= now
      BY <1>2, <3>2
    <3> HIDE DEF at
    <3>4. /\ new \in Row /\ new.at = at /\ new.count = n /\ new.dated /\ new.matches
      BY <1>2, <3>3 DEF Row
    <3>5. Write(c, t, new) /\ ~rows[c].matches
      BY <3>1 DEF at
    <3> HIDE DEF new
    <3>6. RowStep(rows[c], new)
      BY <3>3, <3>4, <3>5 DEF RowStep
    <3> QED
      BY <1>2, <3>2, <3>3, <3>4, <3>5, <3>6
  <2>2. CASE Leave(c)
    <3>1. PICK t \in Times :
              /\ rows[c].matches
              /\ Write(c, t, IF ByCreation THEN [rows[c] EXCEPT !.matches = FALSE] ELSE Unlisted)
      BY <2>2 DEF Leave
    <3> DEFINE new == IF ByCreation THEN [rows[c] EXCEPT !.matches = FALSE] ELSE Unlisted
    <3>2. t \in {now, now + 1}
      BY DEF Times
    <3>3. /\ new \in Row /\ ~new.matches /\ (ByCreation => new.at = rows[c].at)
          /\ ByCreation => new.count = rows[c].count /\ new.dated = rows[c].dated
          /\ ~ByCreation => new.at = 0 /\ new.count = 0 /\ new.dated
      BY <1>2 DEF Row, Unlisted
    <3>4. Write(c, t, new)
      BY <3>1
    <3> HIDE DEF new
    <3>5. RowStep(rows[c], new)
      BY <3>3 DEF RowStep
    <3> QED
      BY <1>2, <3>2, <3>3, <3>4, <3>5
  <2>3. CASE Touch(c)
    <3> DEFINE listed == view \in {"updated_desc", "receive_count_desc"} \/ ~rows[c].dated
    <3>1. PICK t \in Times :
              rows[c].matches /\ Write(c, t, [rows[c] EXCEPT !.at = IF listed THEN t ELSE @])
      BY <2>3 DEF Touch
    <3> HIDE DEF listed
    <3>2. t \in {now, now + 1}
      BY DEF Times
    <3>3. listed
      <4>1. ~listed => [rows[c] EXCEPT !.at = IF listed THEN t ELSE @] = rows[c]
        BY <1>2 DEF Row
      <4> QED
        BY <3>1, <4>1 DEF Write
    <3>4. ~ByCreation
      BY <1>2, <3>3 DEF listed, ByCreation
    <3> DEFINE new == [rows[c] EXCEPT !.at = t]
    <3>5. /\ new \in Row /\ new.at = t /\ new.count = rows[c].count
          /\ new.matches = rows[c].matches /\ new.dated = rows[c].dated
      BY <1>2, <3>2 DEF Row
    <3>6. Write(c, t, new)
      BY <3>1, <3>3
    <3> HIDE DEF new
    <3>7. RowStep(rows[c], new)
      BY <1>2, <3>1, <3>2, <3>4, <3>5 DEF RowStep
    <3> QED
      BY <1>2, <3>1, <3>2, <3>5, <3>6, <3>7
  <2> QED
    BY <1>1, <2>1, <2>2, <2>3
<1>4. PICK t \in {now, now + 1}, new \in Row :
          /\ Write(c, t, new) /\ RowStep(rows[c], new) /\ new.at <= t
          /\ view # "receive_count_desc" => new.count = 0
          /\ view # "failure_oldest_first" => new.dated
          /\ new.matches => new.at # 0
  BY <1>3
<1>5. /\ now' = t /\ view' = view /\ rows' = [rows EXCEPT ![c] = new]
      /\ now' \in Nat \ {0, 1} /\ now <= now'
  BY <1>2, <1>4 DEF Write
<1>6. \A x \in Claim : rows'[x] = IF x = c THEN new ELSE rows[x]
  BY <1>2, <1>5
<1>7. rows' \in [Claim -> Row]
  BY <1>2, <1>5
<1>8. \A x \in Claim : rows[x].at \in Nat /\ rows[x].at <= now'
  BY <1>2, <1>5 DEF Row
<1>9. RowsInv'
  BY <1>4, <1>5, <1>6, <1>7, <1>8
<1> QED
  BY <1>2, <1>4, <1>5, <1>6, <1>9
-----------------------------------------------------------------------------
(* A page turned to.                                                       *)

LEMMA CursorsAreNoKeys == ASSUME NEW k \in Key PROVE k # NoCursor
BY DEF Key, NoCursor

\* A page shows all rows of its query but the one too many.
Slice(found) == IF Len(found) > PageSize THEN Front(found) ELSE found

LEMMA ForwardUnfolds ==
    ASSUME NEW cursor, NEW f
    PROVE  PageOf(f, cursor, "next") =
               [keys |-> Slice(f),
                next |-> CursorOf(Slice(f), Len(Slice(f)), Len(f) > PageSize),
                prev |-> CursorOf(Slice(f), 1, cursor # NoCursor)]
BY DEF PageOf, CursorOf, Slice

LEMMA BackUnfolds ==
    ASSUME NEW cursor, NEW f
    PROVE  PageOf(f, cursor, "prev") =
               [keys |-> Reverse(Slice(f)),
                next |-> CursorOf(Reverse(Slice(f)), Len(Reverse(Slice(f))), TRUE),
                prev |-> CursorOf(Reverse(Slice(f)), 1, Len(f) > PageSize)]
BY DEF PageOf, CursorOf, Slice

\* The page behind a cursor, turning forward: its rows, and a link to those behind them.
ForwardPage(p, cursor) ==
    /\ p.keys \in Seq(Key) /\ Len(p.keys) <= PageSize
    /\ \A i \in 1 .. Len(p.keys) : p.keys[i] \in Found(cursor, "next")
    /\ \A i, j \in 1 .. Len(p.keys) : i < j => Before(p.keys[i], p.keys[j])
    /\ p.next # NoCursor =>
           /\ Len(p.keys) = PageSize /\ p.next = p.keys[PageSize]
           /\ \E k \in Found(cursor, "next") : Before(p.next, k)
    /\ \A k \in Found(cursor, "next") :
           \/ \E i \in 1 .. Len(p.keys) : p.keys[i] = k
           \/ p.next # NoCursor /\ Before(p.next, k)
    /\ p.prev = IF cursor # NoCursor /\ p.keys # <<>> THEN p.keys[1] ELSE NoCursor

LEMMA PageForward ==
    ASSUME rows \in [Claim -> Row], NEW cursor
    PROVE  ForwardPage(PageAt(cursor, "next"), cursor)
<1> USE PageSizeAssumption
<1> DEFINE found == Fetch(cursor, "next", PageSize + 1)
           more == Len(found) > PageSize
           slice == IF more THEN Front(found) ELSE found
           p == PageAt(cursor, "next")
<1>1. Answers(found, cursor, "next", PageSize + 1)
  BY FetchAnswers
<1>2. /\ p.keys = slice
      /\ p.next = CursorOf(slice, Len(slice), more)
      /\ p.prev = CursorOf(slice, 1, cursor # NoCursor)
  <2>1. p = [keys |-> slice, next |-> CursorOf(slice, Len(slice), more),
             prev |-> CursorOf(slice, 1, cursor # NoCursor)]
    BY ForwardUnfolds DEF PageAt, Slice
  <2> HIDE DEF p, slice, more
  <2> QED
    BY <2>1
<1> HIDE DEF found, p
<1>3. /\ slice \in Seq(Key) /\ Len(slice) <= PageSize
      /\ Len(slice) = IF more THEN PageSize ELSE Len(found)
      /\ \A i \in 1 .. Len(slice) : slice[i] = found[i] /\ i \in 1 .. Len(found)
  <2>1. found \in Seq(Key) /\ Len(found) \in Nat /\ Len(found) <= PageSize + 1
    BY <1>1 DEF Answers
  <2>2. CASE more
    <3>1. Len(found) = PageSize + 1 /\ slice = SubSeq(found, 1, PageSize)
      BY <2>1, <2>2 DEF Front
    <3>2. \A i \in 1 .. PageSize : found[i] \in Key
      BY <2>1, <3>1
    <3> QED
      BY <2>1, <2>2, <3>1, <3>2, SubSeqProperties
  <2> QED
    BY <2>1, <2>2
<1> HIDE DEF slice
<1>4. \A i \in 1 .. Len(slice) : slice[i] \in Found(cursor, "next") /\ slice[i] \in Key
  BY <1>1, <1>3 DEF Answers
<1>5. \A i, j \in 1 .. Len(slice) : i < j => Before(slice[i], slice[j])
  BY <1>1, <1>3 DEF Answers, Leads
<1>6. ASSUME more PROVE ForwardPage(p, cursor)
  <2>1. Len(found) = PageSize + 1 /\ Len(slice) = PageSize
    BY <1>1, <1>3, <1>6 DEF Answers
  <2>2. slice # <<>> /\ p.next = slice[PageSize] /\ p.next = found[PageSize] /\ p.next # NoCursor
    BY <1>2, <1>3, <1>4, <1>6, <2>1, CursorsAreNoKeys DEF CursorOf
  <2>3. /\ found[PageSize + 1] \in Found(cursor, "next") /\ Before(p.next, found[PageSize + 1])
    BY <1>1, <2>1, <2>2 DEF Answers, Leads
  <2>4. ASSUME NEW k \in Found(cursor, "next")
        PROVE  (\E i \in 1 .. Len(slice) : slice[i] = k) \/ Before(p.next, k)
    <3>1. \/ \E i \in 1 .. PageSize + 1 : found[i] = k
          \/ \A i \in 1 .. PageSize + 1 : Before(found[i], k)
      BY <1>1, <2>1, <2>4 DEF Answers, Leads
    <3>2. CASE \E i \in 1 .. PageSize + 1 : found[i] = k
      <4>1. PICK i \in 1 .. PageSize + 1 : found[i] = k
        BY <3>2
      <4>2. CASE i = PageSize + 1
        BY <2>3, <4>1, <4>2
      <4>3. CASE i # PageSize + 1
        BY <1>3, <2>1, <4>1, <4>3
      <4> QED
        BY <4>2, <4>3
    <3> QED
      BY <2>2, <3>1, <3>2
  <2>5. p.prev = IF cursor # NoCursor /\ slice # <<>> THEN slice[1] ELSE NoCursor
    BY <1>2 DEF CursorOf
  <2> QED
    BY <1>2, <1>3, <1>4, <1>5, <2>1, <2>2, <2>3, <2>4, <2>5 DEF ForwardPage
<1>7. ASSUME ~more PROVE ForwardPage(p, cursor)
  <2>1. p.next = NoCursor
    BY <1>2, <1>7 DEF CursorOf
  <2>2. ASSUME NEW k \in Found(cursor, "next")
        PROVE  \E i \in 1 .. Len(slice) : slice[i] = k
    <3>1. Len(found) # PageSize + 1 /\ Len(slice) = Len(found)
      BY <1>1, <1>3, <1>7 DEF Answers
    <3>2. \E i \in 1 .. Len(found) : found[i] = k
      BY <1>1, <2>2, <3>1 DEF Answers
    <3> QED
      BY <1>3, <3>1, <3>2
  <2>3. p.prev = IF cursor # NoCursor /\ slice # <<>> THEN slice[1] ELSE NoCursor
    BY <1>2 DEF CursorOf
  <2> QED
    BY <1>2, <1>3, <1>4, <1>5, <2>1, <2>2, <2>3 DEF ForwardPage
<1> QED
  BY <1>6, <1>7 DEF p
-----------------------------------------------------------------------------
(* Sequences in the order of the list.                                     *)

Ordered(s) == \A i, j \in 1 .. Len(s) : i < j => Before(s[i], s[j])

LEMMA BeforeIsOrder ==
    ASSUME NEW k \in Key, NEW l \in Key, NEW m \in Key
    PROVE  /\ ~Before(k, k)
           /\ Before(k, l) /\ Before(l, m) => Before(k, m)
           /\ k = l \/ Before(k, l) \/ Before(l, k)
BY AboveIsOrder DEF Before

LEMMA Appended ==
    ASSUME NEW s \in Seq(Key), NEW t \in Seq(Key)
    PROVE  /\ s \o t \in Seq(Key) /\ Len(s \o t) = Len(s) + Len(t)
           /\ \A i \in 1 .. Len(s) : (s \o t)[i] = s[i]
           /\ \A i \in 1 .. Len(t) : (s \o t)[Len(s) + i] = t[i]
           /\ \A i \in 1 .. Len(s \o t) :
                  \/ i \in 1 .. Len(s) /\ (s \o t)[i] = s[i]
                  \/ i - Len(s) \in 1 .. Len(t) /\ (s \o t)[i] = t[i - Len(s)]
BY ConcatProperties

LEMMA AppendedInOrder ==
    ASSUME NEW s \in Seq(Key), NEW t \in Seq(Key), Ordered(s), Ordered(t),
           \A i \in 1 .. Len(s), j \in 1 .. Len(t) : Before(s[i], t[j])
    PROVE  Ordered(s \o t)
<1> DEFINE u == s \o t
<1>1. /\ Len(s) \in Nat /\ Len(t) \in Nat /\ Len(u) = Len(s) + Len(t)
      /\ \A i \in 1 .. Len(u) :
             \/ i \in 1 .. Len(s) /\ u[i] = s[i]
             \/ i - Len(s) \in 1 .. Len(t) /\ u[i] = t[i - Len(s)]
  BY Appended
<1> HIDE DEF u
<1>2. ASSUME NEW i \in 1 .. Len(u), NEW j \in 1 .. Len(u), i < j
      PROVE  Before(u[i], u[j])
  <2>1. CASE j \in 1 .. Len(s) /\ u[j] = s[j]
    <3>1. i \in 1 .. Len(s) /\ ~(i - Len(s) \in 1 .. Len(t))
      BY <1>1, <1>2, <2>1
    <3> QED
      BY <1>1, <1>2, <2>1, <3>1 DEF Ordered
  <2>2. CASE j - Len(s) \in 1 .. Len(t) /\ u[j] = t[j - Len(s)]
    <3>1. CASE i \in 1 .. Len(s) /\ u[i] = s[i]
      BY <2>2, <3>1
    <3>2. CASE i - Len(s) \in 1 .. Len(t) /\ u[i] = t[i - Len(s)]
      <4>1. i - Len(s) < j - Len(s)
        BY <1>1, <1>2
      <4> QED
        BY <2>2, <3>2, <4>1 DEF Ordered
    <3> QED
      BY <1>1, <3>1, <3>2
  <2> QED
    BY <1>1, <2>1, <2>2
<1> QED
  BY <1>2 DEF u, Ordered

\* The rows that are found are on the list now.
LEMMA FoundNow ==
    ASSUME RowsInv, NEW cursor, NEW d, NEW k \in Found(cursor, d)
    PROVE  /\ k \in Key /\ k \in Nat \X Nat \X Claim
           /\ k[3] \in Claim /\ rows[k[3]].matches /\ k = SortKey(k[3])
           /\ k[2] <= now /\ k[2] # 0
           /\ view # "receive_count_desc" => k[1] = 0
<1>1. rows \in [Claim -> Row] /\ k \in Keys
  BY DEF Found, RowsInv
<1>2. k \in Key /\ k[3] \in Claim /\ rows[k[3]].matches /\ k = SortKey(k[3])
  BY <1>1, KeysAreFinite
<1>3. k[1] = rows[k[3]].count /\ k[2] = rows[k[3]].at
  BY <1>2 DEF SortKey
<1>4. k \in Nat \X Nat \X Claim
  BY <1>2 DEF Key
<1> QED
  BY <1>2, <1>3, <1>4 DEF RowsInv

-----------------------------------------------------------------------------
(* The pages.  What was shown is in the order of the list, and the link to *)
(* the next page points behind all of it.  A claim that is followed was    *)
(* shown or is behind the link; one that was shown is where it was, or has *)
(* moved away from what will be shown.                                     *)

Followed == untouched \cup IF view \in {"dashboard", "failure_oldest_first"} THEN kept ELSE {}

ShownInv ==
    /\ shown \in Seq(Key) /\ Ordered(shown)
    /\ \A i \in 1 .. Len(shown) :
           /\ shown[i][3] \in Claim /\ shown[i][2] <= now /\ shown[i][2] # 0
           /\ view # "receive_count_desc" => shown[i][1] = 0

LinkInv ==
    /\ page.next # NoCursor => shown # <<>> /\ page.next = shown[Len(shown)]
    /\ view = "export" => shown = <<>> /\ kept = {}
    /\ \A c \in kept : rows[c].matches

PlaceInv ==
    /\ \A i \in 1 .. Len(shown) :
           /\ shown[i][3] \in untouched \/ view = "dashboard" => shown[i] = SortKey(shown[i][3])
           /\ view = "updated_desc" /\ rows[shown[i][3]].matches =>
                  \/ SortKey(shown[i][3]) = shown[i]
                  \/ Before(SortKey(shown[i][3]), shown[i])
    /\ view \in {"dashboard", "updated_desc"} =>
           \A i, j \in 1 .. Len(shown) : shown[i][3] = shown[j][3] => i = j

CoverInv == \A c \in Followed :
    \/ \E i \in 1 .. Len(shown) : shown[i][3] = c
    \/ page.next # NoCursor /\ Before(page.next, SortKey(c))

PagesInv == RowsInv /\ PagesTypeOK /\ ShownInv /\ LinkInv /\ PlaceInv /\ CoverInv

LEMMA PagesStart == ASSUME TableInit, PagesInit PROVE PagesInv
<1>1. /\ RowsInv /\ shown = <<>> /\ kept = {} /\ untouched = {} /\ page = NoPage
      /\ page.next = NoCursor /\ page.prev = NoCursor /\ page.keys = <<>> /\ Len(shown) = 0
  BY TableStart DEF PagesInit, NoPage
<1>2. PagesTypeOK
  BY <1>1, PageSizeAssumption DEF PagesTypeOK
<1>3. ShownInv /\ LinkInv /\ PlaceInv /\ CoverInv
  BY <1>1 DEF ShownInv, LinkInv, PlaceInv, CoverInv, Followed, Ordered
<1> QED
  BY <1>1, <1>2, <1>3 DEF PagesInv
\* What a page shows is what there was to show.
LEMMA PageType ==
    ASSUME RowsInv, NEW cursor, NEW p, ForwardPage(p, cursor)
    PROVE  /\ {p.next, p.prev} \subseteq {NoCursor} \cup Nat \X Nat \X Claim
           /\ Len(p.keys) <= PageSize /\ Len(p.keys) \in Nat /\ p.keys \in Seq(Key)
           /\ p.next # NoCursor => p.keys # <<>> /\ p.next = p.keys[Len(p.keys)]
<1> USE PageSizeAssumption DEF ForwardPage
<1>1. /\ p.keys \in Seq(Key) /\ Len(p.keys) \in Nat /\ Len(p.keys) <= PageSize
      /\ p.keys # <<>> => 1 \in 1 .. Len(p.keys)
  OBVIOUS
<1>2. \A i \in 1 .. Len(p.keys) : p.keys[i] \in Nat \X Nat \X Claim
  BY FoundNow
<1>3. p.next # NoCursor =>
          p.keys # <<>> /\ p.next = p.keys[Len(p.keys)] /\ PageSize \in 1 .. Len(p.keys)
  BY <1>1
<1>4. p.next # NoCursor => p.next \in Nat \X Nat \X Claim
  BY <1>2, <1>3
<1>5. p.prev # NoCursor => p.prev \in Nat \X Nat \X Claim
  BY <1>1, <1>2
<1> QED
  BY <1>1, <1>3, <1>4, <1>5

LEMMA PagesOpened == ASSUME PagesInv, view # "export", OpenList PROVE PagesInv'
<1> DEFINE p == PageAt(NoCursor, "next")
<1>1. /\ RowsInv /\ ForwardPage(p, NoCursor)
      /\ page' = p /\ shown' = p.keys /\ UNCHANGED <<view, rows, now>>
      /\ kept' = {c \in Claim : rows[c].matches} /\ untouched' = kept'
  BY PageForward DEF PagesInv, RowsInv, OpenList, table
<1> HIDE DEF p
<1>2. /\ {p.next, p.prev} \subseteq {NoCursor} \cup Nat \X Nat \X Claim
      /\ Len(p.keys) <= PageSize /\ Len(p.keys) \in Nat /\ p.keys \in Seq(Key)
      /\ p.next # NoCursor => p.keys # <<>> /\ p.next = p.keys[Len(p.keys)]
  BY <1>1, PageType
<1>3. ASSUME NEW i \in 1 .. Len(p.keys)
      PROVE  /\ p.keys[i] \in Key /\ p.keys[i][3] \in Claim
             /\ p.keys[i][2] <= now /\ p.keys[i][2] # 0
             /\ view # "receive_count_desc" => p.keys[i][1] = 0
             /\ p.keys[i] = SortKey(p.keys[i][3])
  BY <1>1, FoundNow DEF ForwardPage
<1>4. ASSUME NEW i \in 1 .. Len(p.keys), NEW j \in 1 .. Len(p.keys), p.keys[i][3] = p.keys[j][3]
      PROVE  i = j
  <2>1. p.keys[i] = p.keys[j] /\ p.keys[i] \in Key
    BY <1>3, <1>4
  <2>2. ~Before(p.keys[i], p.keys[j]) /\ ~Before(p.keys[j], p.keys[i])
    BY <2>1, BeforeIsOrder
  <2> QED
    BY <1>1, <1>2, <2>2 DEF ForwardPage
<1>5. ASSUME NEW c \in Claim, rows[c].matches
      PROVE  \/ \E i \in 1 .. Len(p.keys) : p.keys[i][3] = c
             \/ p.next # NoCursor /\ Before(p.next, SortKey(c))
  <2>1. SortKey(c) \in Found(NoCursor, "next") /\ SortKey(c)[3] = c
    BY <1>1, <1>5, KeysAreFinite DEF Found, Behind, RowsInv
  <2> QED
    BY <1>1, <2>1 DEF ForwardPage
<1>6. Ordered(p.keys)
  BY <1>1 DEF ForwardPage, Ordered
<1>7. /\ \A k, l : Before(k, l)' = Before(k, l)
      /\ \A c : SortKey(c)' = SortKey(c)
  BY <1>1 DEF Before, SortKey
<1>8. RowsInv'
  BY <1>1 DEF RowsInv, Row
<1>9. PagesTypeOK'
  BY <1>1, <1>2 DEF PagesTypeOK
<1>10. ShownInv' /\ LinkInv'
  <2>1. Ordered(shown)'
    BY <1>1, <1>6, <1>7 DEF Ordered
  <2> QED
    BY <1>1, <1>2, <1>3, <2>1 DEF ShownInv, LinkInv
<1>11. PlaceInv'
  BY <1>1, <1>3, <1>4, <1>7 DEF PlaceInv
<1>12. CoverInv'
  BY <1>1, <1>5, <1>7 DEF CoverInv, Followed
<1> QED
  BY <1>8, <1>9, <1>10, <1>11, <1>12 DEF PagesInv
LEMMA PagesTurned == ASSUME PagesInv, view # "export", NextPage PROVE PagesInv'
<1> DEFINE p == PageAt(page.next, "next")
           L == Len(shown)
           new == shown \o p.keys
<1>1. /\ RowsInv /\ ForwardPage(p, page.next) /\ page.next # NoCursor
      /\ page' = p /\ shown' = new /\ UNCHANGED <<view, rows, now>>
      /\ kept' = kept /\ untouched' = untouched
  BY PageForward DEF PagesInv, RowsInv, NextPage, table
<1> HIDE DEF p
<1>2. /\ {p.next, p.prev} \subseteq {NoCursor} \cup Nat \X Nat \X Claim
      /\ Len(p.keys) <= PageSize /\ Len(p.keys) \in Nat /\ p.keys \in Seq(Key)
      /\ p.next # NoCursor => p.keys # <<>> /\ p.next = p.keys[Len(p.keys)]
  BY <1>1, PageType
<1>3. /\ shown \in Seq(Key) /\ L \in Nat \ {0} /\ page.next = shown[L] /\ page.next \in Key
      /\ \A i \in 1 .. L : shown[i] \in Key
  BY <1>1 DEF PagesInv, ShownInv, LinkInv
<1>4. /\ new \in Seq(Key) /\ Len(new) = L + Len(p.keys)
      /\ \A i \in 1 .. L : new[i] = shown[i]
      /\ \A i \in 1 .. Len(p.keys) : new[L + i] = p.keys[i]
      /\ \A i \in 1 .. Len(new) :
             \/ i \in 1 .. L /\ new[i] = shown[i]
             \/ i - L \in 1 .. Len(p.keys) /\ new[i] = p.keys[i - L]
  BY <1>2, <1>3, Appended
<1> HIDE DEF new, L
<1>5. ASSUME NEW i \in 1 .. Len(p.keys)
      PROVE  /\ p.keys[i] \in Key /\ p.keys[i][3] \in Claim
             /\ p.keys[i][2] <= now /\ p.keys[i][2] # 0
             /\ view # "receive_count_desc" => p.keys[i][1] = 0
             /\ p.keys[i] = SortKey(p.keys[i][3]) /\ rows[p.keys[i][3]].matches
             /\ Before(page.next, p.keys[i])
  BY <1>1, FoundNow DEF ForwardPage, Found, Behind
<1>6. ASSUME NEW i \in 1 .. L, NEW j \in 1 .. Len(p.keys)
      PROVE  Before(shown[i], p.keys[j])
  <2>1. i = L \/ Before(shown[i], shown[L])
    BY <1>3 DEF PagesInv, ShownInv, Ordered, L
  <2> QED
    BY <1>3, <1>5, <2>1, BeforeIsOrder
<1>7. Ordered(new)
  BY <1>1, <1>2, <1>3, <1>6, AppendedInOrder DEF PagesInv, ShownInv, ForwardPage, Ordered, L, new
<1>8. /\ \A k, l : Before(k, l)' = Before(k, l)
      /\ \A c : SortKey(c)' = SortKey(c)
  BY <1>1 DEF Before, SortKey
<1>9. RowsInv'
  BY <1>1 DEF RowsInv, Row
<1>10. PagesTypeOK'
  BY <1>1, <1>2 DEF PagesInv, PagesTypeOK
<1>11. ShownInv'
  <2>1. Ordered(shown)'
    BY <1>1, <1>7, <1>8 DEF Ordered
  <2>2. \A i \in 1 .. Len(new) :
            /\ new[i][3] \in Claim /\ new[i][2] <= now /\ new[i][2] # 0
            /\ view # "receive_count_desc" => new[i][1] = 0
    <3> TAKE i \in 1 .. Len(new)
    <3>1. CASE i \in 1 .. L /\ new[i] = shown[i]
      BY <3>1 DEF PagesInv, ShownInv, L
    <3>2. CASE i - L \in 1 .. Len(p.keys) /\ new[i] = p.keys[i - L]
      BY <1>5, <3>2
    <3> QED
      BY <1>4, <3>1, <3>2
  <2> QED
    BY <1>1, <1>4, <2>1, <2>2 DEF ShownInv
<1>12. LinkInv'
  <2>1. p.next # NoCursor => new # <<>> /\ p.next = new[Len(new)]
    <3> SUFFICES ASSUME p.next # NoCursor PROVE new # <<>> /\ p.next = new[Len(new)]
      OBVIOUS
    <3>1. Len(p.keys) \in 1 .. Len(p.keys) /\ p.next = p.keys[Len(p.keys)]
      BY <1>2
    <3>2. p.next = new[L + Len(p.keys)]
      BY <1>4, <3>1
    <3>3. Len(new) # 0
      BY <1>3, <1>4, <3>1
    <3> QED
      BY <1>4, <3>2, <3>3
  <2> QED
    BY <1>1, <2>1 DEF PagesInv, LinkInv
<1>13. PlaceInv'
  <2>1. ASSUME NEW i \in 1 .. Len(new)
        PROVE  /\ new[i][3] \in untouched \/ view = "dashboard" => new[i] = SortKey(new[i][3])
               /\ view = "updated_desc" /\ rows[new[i][3]].matches =>
                      \/ SortKey(new[i][3]) = new[i]
                      \/ Before(SortKey(new[i][3]), new[i])
    <3>1. CASE i \in 1 .. L /\ new[i] = shown[i]
      BY <3>1 DEF PagesInv, PlaceInv, L
    <3>2. CASE i - L \in 1 .. Len(p.keys) /\ new[i] = p.keys[i - L]
      BY <1>5, <3>2
    <3> QED
      BY <1>4, <3>1, <3>2
  <2>2. ASSUME view \in {"dashboard", "updated_desc"},
               NEW i \in 1 .. L, NEW j \in 1 .. Len(p.keys), shown[i][3] = p.keys[j][3]
        PROVE  FALSE
    <3> DEFINE k == shown[i]
               l == p.keys[j]
    <3>1. Before(k, l) /\ k \in Key /\ l \in Key
      BY <1>3, <1>5, <1>6
    <3>2. l = SortKey(k[3]) /\ rows[k[3]].matches
      BY <1>5, <2>2
    <3>3. l = k \/ Before(l, k)
      BY <2>2, <3>2 DEF PagesInv, PlaceInv, L
    <3> HIDE DEF k, l
    <3> QED
      BY <3>1, <3>3, BeforeIsOrder
  <2>3. ASSUME view \in {"dashboard", "updated_desc"},
               NEW i \in 1 .. L, NEW j \in 1 .. L, shown[i][3] = shown[j][3]
        PROVE  i = j
    BY <2>3 DEF PagesInv, PlaceInv, L
  <2>4. ASSUME NEW i \in 1 .. Len(p.keys), NEW j \in 1 .. Len(p.keys), p.keys[i][3] = p.keys[j][3]
        PROVE  i = j
    <3>1. p.keys[i] = p.keys[j] /\ p.keys[i] \in Key
      BY <1>5, <2>4
    <3>2. ~Before(p.keys[i], p.keys[j]) /\ ~Before(p.keys[j], p.keys[i])
      BY <3>1, BeforeIsOrder
    <3> QED
      BY <1>1, <1>2, <3>2 DEF ForwardPage
  <2>5. ASSUME view \in {"dashboard", "updated_desc"},
               NEW i \in 1 .. Len(new), NEW j \in 1 .. Len(new), new[i][3] = new[j][3]
        PROVE  i = j
    <3>1. CASE i \in 1 .. L /\ new[i] = shown[i]
      BY <1>4, <2>2, <2>3, <2>5, <3>1
    <3>2. CASE i - L \in 1 .. Len(p.keys) /\ new[i] = p.keys[i - L]
      <4>1. CASE j \in 1 .. L /\ new[j] = shown[j]
        BY <2>2, <2>5, <3>2, <4>1
      <4>2. CASE j - L \in 1 .. Len(p.keys) /\ new[j] = p.keys[j - L]
        <5>1. i - L = j - L
          BY <2>4, <2>5, <3>2, <4>2
        <5> QED
          BY <1>3, <5>1
      <4> QED
        BY <1>4, <4>1, <4>2
    <3> QED
      BY <1>4, <3>1, <3>2
  <2> QED
    BY <1>1, <1>8, <2>1, <2>5 DEF PlaceInv
<1>14. CoverInv'
  <2>1. ASSUME NEW c \in Followed
        PROVE  \/ \E i \in 1 .. Len(new) : new[i][3] = c
               \/ p.next # NoCursor /\ Before(p.next, SortKey(c))
    <3>1. c \in Claim /\ rows[c].matches
      BY DEF Followed, PagesInv, PagesTypeOK, LinkInv
    <3>2. CASE \E i \in 1 .. L : shown[i][3] = c
      <4>1. PICK i \in 1 .. L : shown[i][3] = c
        BY <3>2
      <4>2. i \in 1 .. Len(new) /\ new[i][3] = c
        BY <1>2, <1>3, <1>4, <4>1
      <4> QED
        BY <4>2
    <3>3. CASE Before(page.next, SortKey(c))
      <4>1. SortKey(c) \in Found(page.next, "next") /\ SortKey(c)[3] = c
        BY <1>1, <3>1, <3>3, KeysAreFinite DEF Found, Behind, RowsInv
      <4>2. CASE \E i \in 1 .. Len(p.keys) : p.keys[i] = SortKey(c)
        <5>1. PICK i \in 1 .. Len(p.keys) : p.keys[i] = SortKey(c)
          BY <4>2
        <5>2. new[L + i] = SortKey(c)
          BY <1>4, <5>1
        <5>3. L + i \in 1 .. Len(new)
          <6>1. L \in Nat /\ Len(p.keys) \in Nat /\ Len(new) = L + Len(p.keys)
            BY <1>2, <1>3, <1>4
          <6> QED
            BY <6>1
        <5> QED
          BY <4>1, <5>2, <5>3
      <4> QED
        BY <1>1, <4>1, <4>2 DEF ForwardPage
    <3> QED
      BY <3>2, <3>3 DEF PagesInv, CoverInv, L
  <2>2. Followed' = Followed
    BY <1>1 DEF Followed
  <2> QED
    BY <1>1, <1>8, <2>1, <2>2 DEF CoverInv
<1> QED
  BY <1>9, <1>10, <1>11, <1>12, <1>13, <1>14 DEF PagesInv
LEMMA PagesAside ==
    ASSUME PagesInv, TableNext, UNCHANGED <<page, shown>>,
           kept' = {c \in kept : rows'[c].matches},
           untouched' = {c \in untouched : rows'[c] = rows[c]}
    PROVE  PagesInv'
<1>1. /\ RowsInv /\ RowsInv' /\ view' = view /\ now <= now' /\ now \in Nat /\ now' \in Nat
      /\ \A c \in Claim : rows'[c] = rows[c] \/ RowStep(rows[c], rows'[c])
  BY TableStep DEF PagesInv
<1>2. /\ shown \in Seq(Key) /\ Len(shown) \in Nat /\ page' = page /\ shown' = shown
      /\ \A i \in 1 .. Len(shown) :
             /\ shown[i] \in Key /\ shown[i][3] \in Claim
             /\ shown[i][2] <= now /\ shown[i][2] \in Nat \ {0}
             /\ view # "receive_count_desc" => shown[i][1] = 0
  <2>1. \A k \in Key : k[2] \in Nat
    BY DEF Key
  <2>2. \A i \in 1 .. Len(shown) : shown[i] \in Key
    BY DEF PagesInv, ShownInv
  <2> QED
    BY <2>1, <2>2 DEF PagesInv, ShownInv
<1>3. \A k, l : Before(k, l)' = Before(k, l)
  BY <1>1 DEF Before
<1>4. \A c \in Claim : rows'[c] = rows[c] => SortKey(c)' = SortKey(c)
  BY DEF SortKey
<1>5. ASSUME NEW c \in Claim
      PROVE  /\ rows[c].at \in Nat /\ rows'[c].at \in Nat /\ rows[c].at <= now
             /\ view # "receive_count_desc" => rows[c].count = 0 /\ rows'[c].count = 0
             /\ SortKey(c) = <<rows[c].count, rows[c].at, c>>
             /\ SortKey(c)' = <<rows'[c].count, rows'[c].at, c>>
  BY <1>1 DEF RowsInv, Row, SortKey
<1>6. PagesTypeOK'
  BY <1>2 DEF PagesInv, PagesTypeOK, LinkInv
<1>7. ShownInv'
  <2>1. Ordered(shown)'
    BY <1>2, <1>3 DEF PagesInv, ShownInv, Ordered
  <2>2. \A i \in 1 .. Len(shown) : shown[i][2] <= now'
    BY <1>1, <1>2
  <2> QED
    BY <1>1, <1>2, <2>1, <2>2 DEF ShownInv
<1>8. LinkInv'
  BY <1>1, <1>2 DEF PagesInv, LinkInv
<1>9. PlaceInv'
  <2>1. ASSUME NEW i \in 1 .. Len(shown), NEW c \in Claim, shown[i][3] = c
        PROVE  /\ c \in untouched' \/ view = "dashboard" => shown[i] = SortKey(c)'
               /\ view = "updated_desc" /\ rows'[c].matches =>
                      SortKey(c)' = shown[i] \/ Before(SortKey(c)', shown[i])
    <3>1. CASE rows'[c] = rows[c]
      <4>1. SortKey(c)' = SortKey(c)
        BY <1>4, <3>1
      <4> QED
        BY <2>1, <3>1, <4>1 DEF PagesInv, PlaceInv
    <3>2. CASE rows'[c] # rows[c] /\ view = "dashboard"
      <4>1. shown[i] = SortKey(c)
        BY <2>1, <3>2 DEF PagesInv, PlaceInv
      <4>2. rows[c].at # 0 /\ rows[c].count = 0
        <5>1. shown[i][2] # 0
          BY <1>2
        <5>2. shown[i] = <<rows[c].count, rows[c].at, c>>
          BY <1>5, <4>1
        <5>3. rows[c].at = shown[i][2]
          BY <5>2
        <5> QED
          BY <1>5, <3>2, <5>1, <5>3
      <4>3. rows'[c].at = rows[c].at /\ rows'[c].count = rows[c].count
        BY <1>1, <1>5, <3>2, <4>2 DEF RowStep, ByCreation
      <4> QED
        BY <1>5, <3>2, <4>1, <4>3
    <3>3. CASE rows'[c] # rows[c] /\ view = "updated_desc" /\ rows'[c].matches
      <4>1. rows'[c].at >= now /\ rows'[c].count = 0
        BY <1>1, <1>5, <3>3 DEF RowStep, ByCreation
      <4>2. shown[i] = <<0, shown[i][2], c>> /\ shown[i][2] \in Nat /\ shown[i][2] <= now
        <5>1. \A k \in Key : k = <<k[1], k[2], k[3]>>
          BY DEF Key
        <5>2. shown[i] \in Key /\ shown[i][2] \in Nat /\ shown[i][2] <= now
          BY <1>2
        <5>3. shown[i][1] = 0
          BY <1>2, <3>3
        <5> QED
          BY <2>1, <5>1, <5>2, <5>3
      <4>3. SortKey(c)' = <<0, rows'[c].at, c>>
        BY <1>5, <4>1
      <4>4. rows'[c].at = shown[i][2] \/ rows'[c].at > shown[i][2]
        BY <1>1, <1>5, <4>1, <4>2
      <4>5. rows'[c].at > shown[i][2] => Above(SortKey(c)', shown[i])
        BY <4>2, <4>3 DEF Above
      <4> QED
        BY <3>3, <4>2, <4>3, <4>4, <4>5 DEF Before
    <3>4. CASE rows'[c] # rows[c] /\ view # "dashboard"
               /\ ~(view = "updated_desc" /\ rows'[c].matches)
      BY <3>4
    <3> QED
      BY <3>1, <3>2, <3>3, <3>4
  <2>2. view \in {"dashboard", "updated_desc"} =>
            \A i, j \in 1 .. Len(shown) : shown[i][3] = shown[j][3] => i = j
    BY DEF PagesInv, PlaceInv
  <2>3. ASSUME NEW i \in 1 .. Len(shown)
        PROVE  /\ shown[i][3] \in untouched' \/ view = "dashboard" => shown[i] = SortKey(shown[i][3])'
               /\ view = "updated_desc" /\ rows'[shown[i][3]].matches =>
                      \/ SortKey(shown[i][3])' = shown[i]
                      \/ Before(SortKey(shown[i][3])', shown[i])
    <3> DEFINE c == shown[i][3]
    <3>1. c \in Claim
      BY <1>2
    <3>2. /\ c \in untouched' \/ view = "dashboard" => shown[i] = <<rows'[c].count, rows'[c].at, c>>
          /\ view = "updated_desc" /\ rows'[c].matches =>
                 \/ <<rows'[c].count, rows'[c].at, c>> = shown[i]
                 \/ Before(<<rows'[c].count, rows'[c].at, c>>, shown[i])
      BY <2>1, <3>1 DEF SortKey
    <3> QED
      BY <1>2, <3>2 DEF SortKey
  <2> QED
    BY <1>1, <1>2, <2>2, <2>3 DEF PlaceInv, Before, SortKey
<1>10. CoverInv'
  <2>1. ASSUME NEW c \in Followed'
        PROVE  \/ \E i \in 1 .. Len(shown) : shown[i][3] = c
               \/ page.next # NoCursor /\ Before(page.next, SortKey(c)')
    <3>1. /\ c \in Followed /\ c \in Claim /\ rows[c].matches
          /\ rows'[c] = rows[c] \/ (view \in {"dashboard", "failure_oldest_first"} /\ rows'[c].matches)
      BY <1>1 DEF Followed, PagesInv, PagesTypeOK, LinkInv
    <3>2. CASE rows'[c] = rows[c]
      <4>1. SortKey(c)' = SortKey(c)
        BY <1>4, <3>1, <3>2
      <4> QED
        BY <3>1, <4>1 DEF PagesInv, CoverInv
    <3>3. CASE rows'[c] # rows[c]
      <4>1. ~ByCreation /\ view = "failure_oldest_first" /\ rows'[c].at >= now
        BY <1>1, <3>1, <3>3 DEF RowStep, ByCreation
      <4>2. ASSUME page.next # NoCursor, Before(page.next, SortKey(c))
            PROVE  Before(page.next, SortKey(c)')
        <5>1. page.next[1] \in Nat /\ page.next[2] \in Nat /\ page.next[3] \in Nat
          BY <4>2, ClaimAssumption DEF PagesInv, PagesTypeOK
        <5>2. Above(<<0, rows[c].at, c>>, page.next)
          BY <1>5, <3>1, <4>1, <4>2 DEF Before
        <5>3. c \in Nat /\ rows[c].at <= rows'[c].at
          BY <1>1, <1>5, <3>1, <4>1, ClaimAssumption
        <5>4. Above(<<0, rows'[c].at, c>>, page.next)
          BY <1>5, <3>1, <5>1, <5>2, <5>3 DEF Above
        <5> QED
          BY <1>5, <3>1, <4>1, <5>4 DEF Before
      <4> QED
        BY <3>1, <4>2 DEF PagesInv, CoverInv
    <3> QED
      BY <3>2, <3>3
  <2> QED
    BY <1>1, <1>2, <1>3, <2>1 DEF CoverInv
<1> QED
  BY <1>1, <1>6, <1>7, <1>8, <1>9, <1>10 DEF PagesInv

LEMMA PagesStay == ASSUME PagesInv, UNCHANGED <<view, rows, now, browse>> PROVE PagesInv'
BY DEF PagesInv, RowsInv, Row, PagesTypeOK, ShownInv, LinkInv, PlaceInv, CoverInv, Followed, Ordered,
       Before, SortKey, browse
LEMMA PagesStep == PagesInv /\ [Next]_vars => PagesInv'
<1> SUFFICES ASSUME PagesInv, [Next]_vars PROVE PagesInv'
  OBVIOUS
<1>1. CASE view # "export" /\ OpenList
  BY <1>1, PagesOpened
<1>2. CASE view # "export" /\ NextPage
  BY <1>2, PagesTurned
<1>3. CASE PagesOutdated
  BY <1>3, PagesAside DEF PagesOutdated
<1>4. CASE UNCHANGED <<table, browse>>
  BY <1>4, PagesStay DEF table
<1>5. CASE view = "export" /\ ExportOutdated /\ UNCHANGED browse
  <2>1. kept = {} /\ untouched = {}
    BY <1>5 DEF PagesInv, LinkInv, PagesTypeOK
  <2>2. /\ TableNext /\ UNCHANGED <<page, shown>>
        /\ kept' = {c \in kept : rows'[c].matches}
        /\ untouched' = {c \in untouched : rows'[c] = rows[c]}
    BY <1>5, <2>1 DEF ExportOutdated, browse
  <2> QED
    BY <2>2, PagesAside
<1>6. CASE vars' = vars
  BY <1>6, <1>4 DEF vars
<1> QED
  BY <1>1, <1>2, <1>3, <1>4, <1>5, <1>6 DEF Next, PagesNext, ExportNext

\* What was shown stays in the order of the list, behind it is the link, and each claim
\* that is followed is in front of the link or behind it: the inductive invariant.
THEOREM ListsPages == Spec => []PagesInv
<1>1. Init => PagesInv
  BY PagesStart DEF Init
<1> QED
  BY <1>1, PagesStep, PTL DEF Spec

\* The page has its size and its links are cursors or none.
THEOREM ListsPagesTypes == Spec => []PagesTypeOK
<1>1. PagesInv => PagesTypeOK
  BY DEF PagesInv
<1> QED
  BY <1>1, ListsPages, PTL

LEMMA ShownTimes ==
    ASSUME shown \in Seq(Key), NEW c
    PROVE  /\ TimesShown(c) \in Nat
           /\ (\A i, j \in 1 .. Len(shown) : shown[i][3] = c /\ shown[j][3] = c => i = j) =>
                  TimesShown(c) <= 1
           /\ (\E i \in 1 .. Len(shown) : shown[i][3] = c) => TimesShown(c) >= 1
<1> DEFINE S == {i \in DOMAIN shown : shown[i][3] = c}
<1>1. DOMAIN shown = 1 .. Len(shown) /\ Len(shown) \in Nat
  OBVIOUS
<1>2. IsFiniteSet(S) /\ Cardinality(S) \in Nat
  <2>1. S \in SUBSET (1 .. Len(shown))
    BY <1>1
  <2> HIDE DEF S
  <2> QED
    BY <1>1, <2>1, CountTo, FS_Subset, FS_CardinalityType
<1>3. TimesShown(c) = Cardinality(S)
  BY DEF TimesShown
<1>4. ASSUME \A i, j \in 1 .. Len(shown) : shown[i][3] = c /\ shown[j][3] = c => i = j
      PROVE  Cardinality(S) <= 1
  <2>1. CASE S = {}
    <3> HIDE DEF S
    <3>1. Cardinality(S) = 0
      BY <1>2, <2>1, FS_EmptySet
    <3> QED
      BY <3>1
  <2>2. CASE S # {}
    <3>1. PICK i \in S : TRUE
      BY <2>2
    <3>2. S = {i}
      BY <1>1, <1>4, <3>1
    <3> HIDE DEF S
    <3>3. Cardinality({i}) = 1
      BY FS_Singleton
    <3> QED
      BY <3>2, <3>3
  <2> QED
    BY <2>1, <2>2
<1>5. ASSUME \E i \in 1 .. Len(shown) : shown[i][3] = c
      PROVE  Cardinality(S) >= 1
  <2>1. S # {}
    BY <1>1, <1>5
  <2> HIDE DEF S
  <2>2. Cardinality(S) # 0
    BY <1>2, <2>1, FS_EmptySet
  <2> QED
    BY <1>2, <2>2
<1> QED
  BY <1>2, <1>3, <1>4, <1>5

LEMMA ShownOnce == ASSUME PagesInv PROVE UntouchedShownOnce /\ PagesMeet
<1> USE DEF PagesInv
<1>1. shown \in Seq(Key) /\ \A i \in 1 .. Len(shown) : shown[i] \in Key
  BY DEF ShownInv
<1>2. ASSUME NEW c \in untouched, NEW i \in 1 .. Len(shown), NEW j \in 1 .. Len(shown),
             shown[i][3] = c, shown[j][3] = c
      PROVE  i = j
  <2>1. shown[i] = shown[j] /\ shown[i] \in Key
    BY <1>1, <1>2 DEF PlaceInv
  <2>2. ~Before(shown[i], shown[j]) /\ ~Before(shown[j], shown[i])
    BY <2>1, BeforeIsOrder
  <2> QED
    BY <1>1, <2>2 DEF ShownInv, Ordered
<1>3. ASSUME AtEnd, NEW c \in Followed
      PROVE  \E i \in 1 .. Len(shown) : shown[i][3] = c
  BY <1>3 DEF AtEnd, CoverInv
<1>4. UntouchedShownOnce
  <2> SUFFICES ASSUME NEW c \in untouched
               PROVE  TimesShown(c) <= 1 /\ (AtEnd => TimesShown(c) = 1)
    BY DEF UntouchedShownOnce
  <2>1. TimesShown(c) \in Nat /\ TimesShown(c) <= 1
    BY <1>1, <1>2, ShownTimes
  <2>2. AtEnd => TimesShown(c) >= 1
    BY <1>1, <1>3, ShownTimes DEF Followed
  <2> QED
    BY <2>1, <2>2
<1>5. PagesMeet
  <2>1. ASSUME view \in {"dashboard", "updated_desc"}, NEW c \in Claim
        PROVE  TimesShown(c) <= 1
    BY <1>1, <2>1, ShownTimes DEF PlaceInv
  <2>2. ASSUME view \in {"dashboard", "failure_oldest_first"}, AtEnd, NEW c \in kept
        PROVE  TimesShown(c) >= 1
    BY <1>1, <1>3, <2>2, ShownTimes DEF Followed
  <2> QED
    BY <2>1, <2>2 DEF PagesMeet
<1> QED
  BY <1>4, <1>5

\* Turning pages shows a claim that nobody writes meanwhile at most once, and once when
\* the last page is reached, in each of the orders.
THEOREM ListsUntouchedShownOnce == Spec => []UntouchedShownOnce
BY ListsPages, ShownOnce, PTL

\* The pages meet: on the lists on which a claim moves only to the front no claim is on
\* two pages, and on those on which it moves only to the end none that goes on to match is
\* passed over, whatever is written meanwhile.
THEOREM ListsPagesMeet == Spec => []PagesMeet
BY ListsPages, ShownOnce, PTL
-----------------------------------------------------------------------------
(* Turning back.                                                           *)

\* In a set that goes on only in front of a sequence, read backwards, the ranks of the
\* sequence are those of its own rows.
LEMMA RankInSequence ==
    ASSUME NEW F \in SUBSET Key, NEW s \in Seq(Key), NEW j \in 1 .. Len(s), Ordered(s),
           \A i \in 1 .. Len(s) : s[i] \in F,
           \A k \in F : (\E i \in 1 .. Len(s) : s[i] = k) \/ Before(k, s[1])
    PROVE  Rank("prev", F, s[j]) = Len(s) - j
<1> DEFINE I == (j + 1) .. Len(s)
           T == {l \in F : Leads("prev", l, s[j])}
           g == [i \in I |-> s[i]]
<1>1. Len(s) \in Nat /\ \A i \in 1 .. Len(s) : s[i] \in Key
  OBVIOUS
<1>2. T = {l \in F : Before(s[j], l)}
  BY DEF Leads
<1>3. \A i \in I : i \in 1 .. Len(s) /\ j < i
  BY <1>1
<1>4. \A i \in I : g[i] = s[i] /\ g[i] \in T
  BY <1>2, <1>3 DEF Ordered
<1>5. ASSUME NEW k \in T
      PROVE  \E i \in I : g[i] = k
  <2>1. k \in F /\ k \in Key /\ Before(s[j], k)
    BY <1>2
  <2>2. ~Before(k, s[1])
    <3>1. j = 1 \/ Before(s[1], s[j])
      BY <1>1 DEF Ordered
    <3>2. s[1] \in Key /\ s[j] \in Key
      BY <1>1
    <3>3. ~(Before(k, s[j]) /\ Before(s[j], k))
      BY <2>1, <3>2, BeforeIsOrder
    <3>4. Before(k, s[1]) => Before(k, s[j])
      BY <2>1, <3>1, <3>2, BeforeIsOrder
    <3> QED
      BY <2>1, <3>3, <3>4
  <2>3. PICK i \in 1 .. Len(s) : s[i] = k
    BY <2>1, <2>2
  <2>4. i # j /\ ~(i < j)
    <3>1. s[i] \in Key /\ s[j] \in Key /\ Before(s[j], s[i])
      BY <1>1, <2>1, <2>3
    <3>2. ~Before(s[i], s[j]) /\ s[i] # s[j]
      BY <3>1, BeforeIsOrder
    <3> QED
      BY <3>2 DEF Ordered
  <2> QED
    BY <1>1, <2>3, <2>4
<1>6. \A x, y \in I : g[x] = g[y] => x = y
  <2> SUFFICES ASSUME NEW x \in I, NEW y \in I, x < y PROVE s[x] # s[y]
    BY <1>3, <1>4
  <2>1. s[x] \in Key /\ s[y] \in Key /\ Before(s[x], s[y])
    BY <1>1, <1>3 DEF Ordered
  <2> QED
    BY <2>1, BeforeIsOrder
<1> HIDE DEF g, T
<1>7. IsFiniteSet(I) /\ Cardinality(I) = Len(s) - j
  <2>1. j + 1 \in Int /\ Len(s) \in Int
    BY <1>1
  <2>2. IsFiniteSet(I) /\ Cardinality(I) = IF j + 1 > Len(s) THEN 0 ELSE Len(s) - (j + 1) + 1
    BY <2>1, FS_Interval
  <2> QED
    BY <1>1, <2>2
<1> HIDE DEF I
<1>8. g \in [I -> T]
  BY <1>4 DEF g
<1>9. g \in Surjection(I, T)
  BY <1>5, <1>8, Fun_IsSurj
<1>10. g \in Injection(I, T)
  BY <1>6, <1>8, Fun_IsInj
<1>11. Cardinality(T) = Cardinality(I)
  BY <1>7, <1>9, <1>10, FS_Surjection
<1> QED
  BY <1>7, <1>11 DEF Rank, T
\* Behind a page that has a link forward and the row the link leads to there is nothing but
\* that page and what is in front of it.
LEMMA BackToThePage ==
    ASSUME RowsInv, NEW cursor, cursor = NoCursor \/ cursor \in Keys,
           NEW p, ForwardPage(p, cursor), p.next # NoCursor,
           NEW q, ForwardPage(q, p.next)
    PROVE  /\ q.keys # <<>> /\ q.prev = q.keys[1] /\ q.keys[1] \in Key
           /\ \A i \in 1 .. PageSize : p.keys[i] \in Found(q.keys[1], "prev")
           /\ \A k \in Found(q.keys[1], "prev") :
                  \/ \E i \in 1 .. PageSize : p.keys[i] = k
                  \/ cursor # NoCursor /\ Before(k, p.keys[1])
           /\ cursor # NoCursor =>
                  cursor \in Found(q.keys[1], "prev") /\ Before(cursor, p.keys[1])
<1> DEFINE P == PageSize
           m == q.keys[1]
<1>1. /\ P \in Nat \ {0} /\ Len(p.keys) = P /\ p.next = p.keys[P] /\ 1 \in 1 .. P
      /\ \A i \in 1 .. P : p.keys[i] \in Found(cursor, "next") /\ p.keys[i] \in Key
      /\ \A i, j \in 1 .. P : i < j => Before(p.keys[i], p.keys[j])
      /\ p.next \in Key
  <2>1. /\ P \in Nat \ {0} /\ Len(p.keys) = P /\ p.next = p.keys[P] /\ P \in 1 .. P /\ 1 \in 1 .. P
        /\ p.keys \in Seq(Key)
        /\ \A i \in 1 .. P : p.keys[i] \in Found(cursor, "next")
        /\ \A i, j \in 1 .. P : i < j => Before(p.keys[i], p.keys[j])
    BY PageSizeAssumption DEF ForwardPage
  <2>2. \A i \in 1 .. P : p.keys[i] \in Key
    BY <2>1
  <2> QED
    BY <2>1, <2>2
<1>2. q.keys # <<>> /\ 1 \in 1 .. Len(q.keys) /\ m \in Found(p.next, "next")
  <2>1. PICK k \in Found(cursor, "next") : Before(p.next, k)
    BY DEF ForwardPage
  <2>2. k \in Found(p.next, "next")
    BY <2>1 DEF Found, Behind
  <2>3. (\E i \in 1 .. Len(q.keys) : q.keys[i] = k) \/ Len(q.keys) = P
    BY <2>2 DEF ForwardPage
  <2>4. q.keys \in Seq(Key) /\ Len(q.keys) \in Nat
    BY DEF ForwardPage
  <2>5. Len(q.keys) # 0
    BY <1>1, <2>3, <2>4
  <2> QED
    BY <2>4, <2>5 DEF ForwardPage
<1>3. m \in Key /\ m # NoCursor /\ m \in Keys /\ Before(p.next, m) /\ q.prev = m
  BY <1>1, <1>2, FoundNow, CursorsAreNoKeys DEF Found, Behind, ForwardPage
<1>4. \A k : k \in Found(m, "prev") <=> k \in Keys /\ Before(k, m)
  BY <1>3 DEF Found, Behind
<1>5. Keys \subseteq Key
  BY KeysAreFinite DEF RowsInv
<1>6. ASSUME NEW k \in Keys, Before(k, m)
      PROVE  ~Before(p.next, k)
  <2> SUFFICES ASSUME Before(p.next, k) PROVE FALSE
    OBVIOUS
  <2>1. k \in Key /\ ~Before(m, k) /\ k # m
    BY <1>3, <1>5, <1>6, BeforeIsOrder
  <2>2. k \in Found(p.next, "next")
    BY DEF Found, Behind
  <2>3. \A i \in 1 .. Len(q.keys) : q.keys[i] = m \/ Before(m, q.keys[i])
    BY <1>2 DEF ForwardPage
  <2>4. \A i \in 1 .. Len(q.keys) : q.keys[i] # k
    BY <2>1, <2>3
  <2>5. q.next = q.keys[P] /\ Len(q.keys) = P /\ Before(q.next, k)
    BY <2>2, <2>4 DEF ForwardPage
  <2>6. P \in 1 .. Len(q.keys) /\ q.keys[P] \in Key
    BY <1>1, <2>5, FoundNow DEF ForwardPage
  <2>7. q.keys[P] = m \/ Before(m, q.keys[P])
    BY <2>3, <2>6
  <2>8. Before(m, k)
    BY <1>3, <2>1, <2>5, <2>6, <2>7, BeforeIsOrder
  <2> QED
    BY <2>1, <2>8
<1>7. ASSUME NEW i \in 1 .. P
      PROVE  p.keys[i] \in Found(m, "prev")
  <2>1. p.keys[i] \in Keys /\ p.keys[i] \in Key
    BY <1>1 DEF Found
  <2>2. i = P \/ Before(p.keys[i], p.next)
    BY <1>1
  <2>3. Before(p.keys[i], m)
    BY <1>1, <1>3, <2>1, <2>2, BeforeIsOrder
  <2> QED
    BY <1>4, <2>1, <2>3
<1>8. ASSUME cursor # NoCursor
      PROVE  /\ cursor \in Key /\ cursor \in Keys /\ Before(cursor, p.keys[1])
             /\ cursor \in Found(m, "prev")
  <2>1. cursor \in Key /\ cursor \in Keys /\ Before(cursor, p.keys[1])
    BY <1>1, <1>5, <1>8 DEF Found, Behind
  <2>2. Before(p.keys[1], m) /\ p.keys[1] \in Key
    BY <1>1, <1>4, <1>7
  <2>3. Before(cursor, m)
    BY <1>3, <2>1, <2>2, BeforeIsOrder
  <2> QED
    BY <1>4, <2>1, <2>3
<1>9. ASSUME NEW k \in Found(m, "prev")
      PROVE  (\E i \in 1 .. P : p.keys[i] = k) \/ (cursor # NoCursor /\ Before(k, p.keys[1]))
  <2>1. k \in Keys /\ k \in Key /\ ~Before(p.next, k)
    BY <1>4, <1>5, <1>6, <1>9
  <2>2. CASE k \in Found(cursor, "next")
    BY <1>1, <2>1, <2>2 DEF ForwardPage
  <2>3. CASE k \notin Found(cursor, "next")
    <3>1. cursor # NoCursor /\ ~Before(cursor, k)
      BY <2>1, <2>3 DEF Found, Behind
    <3>2. k = cursor \/ Before(k, cursor)
      BY <1>8, <2>1, <3>1, BeforeIsOrder
    <3>3. p.keys[1] \in Key
      BY <1>1
    <3> QED
      BY <1>8, <2>1, <3>1, <3>2, <3>3, BeforeIsOrder
  <2> QED
    BY <2>2, <2>3
<1> QED
  BY <1>2, <1>3, <1>7, <1>8, <1>9
LEMMA TurnedBack ==
    ASSUME RowsInv, NEW cursor, cursor = NoCursor \/ cursor \in Keys,
           NEW p, ForwardPage(p, cursor), p.next # NoCursor,
           NEW q, ForwardPage(q, p.next), NEW back, back = PageAt(q.prev, "prev")
    PROVE  back.keys = p.keys /\ back.next = p.next /\ back.prev = p.prev
<1> DEFINE P == PageSize
           m == q.keys[1]
           F == Found(m, "prev")
           s == Fetch(m, "prev", P + 1)
<1>1. /\ P \in Nat \ {0} /\ Len(p.keys) = P /\ p.next = p.keys[P] /\ p.keys \in Seq(Key)
      /\ Ordered(p.keys) /\ p.keys # <<>>
      /\ p.prev = IF cursor # NoCursor THEN p.keys[1] ELSE NoCursor
  BY PageSizeAssumption DEF ForwardPage, Ordered
<1>2. /\ q.prev = m /\ \A i \in 1 .. P : p.keys[i] \in F
      /\ \A k \in F : \/ \E i \in 1 .. P : p.keys[i] = k
                      \/ cursor # NoCursor /\ Before(k, p.keys[1])
      /\ cursor # NoCursor => cursor \in F /\ Before(cursor, p.keys[1])
  BY BackToThePage
<1>3. rows \in [Claim -> Row]
  BY DEF RowsInv
<1>4. /\ F \in SUBSET Key /\ IsFiniteSet(F) /\ Cardinality(F) \in Nat /\ s \in Seq(Key)
      /\ Len(s) = IF P + 1 <= Cardinality(F) THEN P + 1 ELSE Cardinality(F)
      /\ \A i \in 1 .. Len(s) : s[i] \in F /\ Rank("prev", F, s[i]) = i - 1
  BY <1>1, <1>3, FetchRanks
<1>5. back = PageOf(s, m, "prev")
  BY <1>2 DEF PageAt
<1> HIDE DEF m, F, s
<1>6. \A j \in 1 .. P : Rank("prev", F, p.keys[j]) = P - j
  BY <1>1, <1>2, <1>4, RankInSequence
<1>7. \A k, l \in F : Leads("prev", k, l) => Rank("prev", F, k) < Rank("prev", F, l)
  BY <1>4, RankGrows
<1>8. \A k \in F : Rank("prev", F, k) \in 0 .. (Cardinality(F) - 1)
  BY <1>4, RankGrows
<1>9. \A k, l \in F : Rank("prev", F, k) = Rank("prev", F, l) => k = l
  <2> SUFFICES ASSUME NEW k \in F, NEW l \in F, k # l
               PROVE  Rank("prev", F, k) # Rank("prev", F, l)
    OBVIOUS
  <2>1. Leads("prev", k, l) \/ Leads("prev", l, k)
    BY <1>4, LeadsIsOrder
  <2>2. Rank("prev", F, k) \in Int /\ Rank("prev", F, l) \in Int
    BY <1>8
  <2> QED
    BY <1>7, <2>1, <2>2
<1>10. Cardinality(F) >= P
  <2>1. 1 \in 1 .. P
    BY <1>1
  <2>2. Rank("prev", F, p.keys[1]) = P - 1 /\ p.keys[1] \in F
    BY <1>2, <1>6, <2>1
  <2> QED
    BY <1>1, <1>4, <1>8, <2>2
<1>11. Len(s) = IF cursor # NoCursor THEN P + 1 ELSE P
  <2>1. CASE cursor # NoCursor
    <3>1. 1 \in 1 .. P
      BY <1>1
    <3>2. cursor \in F /\ p.keys[1] \in F /\ Leads("prev", p.keys[1], cursor)
      BY <1>2, <2>1, <3>1 DEF Leads
    <3>3. Rank("prev", F, p.keys[1]) = P - 1
      BY <1>6, <3>1
    <3>4. Rank("prev", F, p.keys[1]) < Rank("prev", F, cursor)
      BY <1>7, <3>2
    <3>5. Rank("prev", F, cursor) \in 0 .. (Cardinality(F) - 1)
      BY <1>8, <3>2
    <3>6. Cardinality(F) >= P + 1
      BY <1>1, <1>4, <3>3, <3>4, <3>5
    <3> QED
      BY <1>1, <1>4, <2>1, <3>6
  <2>2. CASE cursor = NoCursor
    <3>1. Len(s) # P + 1
      <4> SUFFICES ASSUME Len(s) = P + 1 PROVE FALSE
        OBVIOUS
      <4>1. P + 1 \in 1 .. Len(s)
        BY <1>1
      <4>2. s[P + 1] \in F /\ Rank("prev", F, s[P + 1]) = P
        BY <1>1, <1>4, <4>1
      <4>3. PICK j \in 1 .. P : p.keys[j] = s[P + 1]
        BY <1>2, <2>2, <4>2
      <4>4. Rank("prev", F, s[P + 1]) = P - j
        BY <1>6, <4>3
      <4> QED
        BY <1>1, <4>2, <4>3, <4>4
    <3> QED
      BY <1>1, <1>4, <1>10, <2>2, <3>1
  <2> QED
    BY <2>1, <2>2
<1>12. \A i \in 1 .. P : s[i] = p.keys[P - i + 1]
  <2> TAKE i \in 1 .. P
  <2>1. i \in 1 .. Len(s) /\ P - i + 1 \in 1 .. P
    BY <1>1, <1>11
  <2>2. Rank("prev", F, p.keys[P - i + 1]) = i - 1 /\ p.keys[P - i + 1] \in F
    BY <1>1, <1>2, <1>6, <2>1
  <2>3. Rank("prev", F, s[i]) = i - 1 /\ s[i] \in F
    BY <1>4, <2>1
  <2> QED
    BY <1>9, <2>2, <2>3
<1>13. /\ Len(Slice(s)) = P /\ Slice(s) \in Seq(Key)
       /\ \A i \in 1 .. P : Slice(s)[i] = s[i]
  <2>1. CASE cursor # NoCursor
    <3>1. Slice(s) = SubSeq(s, 1, P)
      BY <1>1, <1>11, <2>1 DEF Slice, Front
    <3>2. \A i \in 1 .. P : s[i] \in Key
      BY <1>1, <1>4, <1>11, <2>1
    <3> QED
      BY <1>1, <3>1, <3>2, SubSeqProperties
  <2>2. CASE cursor = NoCursor
    <3>1. Slice(s) = s
      BY <1>1, <1>11, <2>2 DEF Slice
    <3> QED
      BY <1>4, <1>11, <2>2, <3>1
  <2> QED
    BY <2>1, <2>2
<1>14. Reverse(Slice(s)) = p.keys
  <2>1. Reverse(Slice(s)) = [i \in 1 .. P |-> Slice(s)[P - i + 1]]
    BY <1>13 DEF Reverse
  <2>2. p.keys = [i \in 1 .. P |-> p.keys[i]]
    BY <1>1
  <2>3. ASSUME NEW i \in 1 .. P
        PROVE  Slice(s)[P - i + 1] = p.keys[i]
    <3>1. P - i + 1 \in 1 .. P /\ P - (P - i + 1) + 1 = i
      BY <1>1
    <3> QED
      BY <1>12, <1>13, <3>1
  <2> HIDE DEF P
  <2> QED
    BY <2>1, <2>2, <2>3
<1> DEFINE next == CursorOf(p.keys, Len(p.keys), TRUE)
           prev == CursorOf(p.keys, 1, Len(s) > P)
<1>15. back = [keys |-> p.keys, next |-> next, prev |-> prev]
  BY <1>5, <1>14, BackUnfolds
<1>16. next = p.next
  BY <1>1 DEF CursorOf
<1>17. prev = p.prev
  BY <1>1, <1>11 DEF CursorOf
<1> HIDE DEF P, next, prev
<1> QED
  BY <1>15, <1>16, <1>17
LEMMA BackIsForward == ASSUME RowsInv PROVE PagesTurnBack
<1> DEFINE TurnsBack(p) == p.next # NoCursor =>
                /\ PageAt(PageAt(p.next, "next").prev, "prev").keys = p.keys
                /\ PageAt(PageAt(p.next, "next").prev, "prev").next = p.next
                /\ PageAt(PageAt(p.next, "next").prev, "prev").prev = p.prev
           first == PageAt(NoCursor, "next")
           second == PageAt(first.next, "next")
<1>1. rows \in [Claim -> Row]
  BY DEF RowsInv
<1>2. ForwardPage(first, NoCursor) /\ ForwardPage(second, first.next)
  BY <1>1, PageForward
<1> HIDE DEF first, second
<1>3. ASSUME NEW cursor, cursor = NoCursor \/ cursor \in Keys, NEW p, ForwardPage(p, cursor)
      PROVE  TurnsBack(p)
  <2>1. ForwardPage(PageAt(p.next, "next"), p.next)
    BY <1>1, PageForward
  <2> QED
    BY <1>3, <2>1, TurnedBack
<1>4. TurnsBack(first)
  BY <1>2, <1>3
<1>5. first.next # NoCursor => first.next \in Keys
  <2> SUFFICES ASSUME first.next # NoCursor PROVE first.next \in Keys
    OBVIOUS
  <2>1. first.next = first.keys[PageSize] /\ PageSize \in 1 .. Len(first.keys)
    BY <1>2, PageSizeAssumption DEF ForwardPage
  <2> QED
    BY <1>2, <2>1 DEF ForwardPage, Found
<1>6. first.next # NoCursor => TurnsBack(second)
  BY <1>2, <1>3, <1>5
<1> QED
  BY <1>4, <1>6 DEF PagesTurnBack, first, second

\* Turning back from the page behind a link shows the page that has it again: the same
\* rows in the same order, with the same links.
THEOREM ListsPagesTurnBack == Spec => []PagesTurnBack
<1>1. PagesInv => PagesTurnBack
  BY BackIsForward DEF PagesInv
<1> QED
  BY <1>1, ListsPages, PTL
-----------------------------------------------------------------------------
(* The export.  Its order is that of creation, newest first; so what the   *)
(* reader holds needs no more than itself to be looked at.                 *)

Reader == [remaining : Nat, batch : Seq(Key), index : Nat, cursor : {NoCursor} \cup Key,
           more : BOOLEAN]
Query == [state : {"none", "running", "answered", "failed"}, take : Nat, keys : Seq(Key)]

InOrder(s) == \A i, j \in 1 .. Len(s) : i < j => Above(s[i], s[j])

\* k is yet to be read behind the cursor.
After(k, cursor) == cursor = NoCursor \/ Above(cursor, k)

\* Rows that are still to be asked for once the batch is handed out.
Owed(r) == r.remaining - (Len(r.batch) - r.index)

\* The stream is in order: what was written, what is left of the batch, the cursor, and
\* what the next query has found.
Flows(r, q, o) ==
    /\ InOrder(o) /\ InOrder(r.batch) /\ InOrder(q.keys)
    /\ \A i \in 1 .. Len(o), j \in 1 .. Len(r.batch) : j > r.index => Above(o[i], r.batch[j])
    /\ \A i \in 1 .. Len(o) : ~After(o[i], r.cursor)
    /\ \A i \in 1 .. Len(r.batch) : ~After(r.batch[i], r.cursor)
    /\ \A i \in 1 .. Len(q.keys) : After(q.keys[i], r.cursor)

\* A query asks for what is owed, and is never asked in vain.
Asks(r, q) ==
    /\ r.index <= Len(r.batch) /\ Len(r.batch) <= BatchSize /\ Owed(r) >= 0
    /\ q.state # "answered" => q.keys = <<>>
    /\ Len(q.keys) <= q.take /\ q.take <= BatchSize
    /\ q.state # "none" => r.more /\ Owed(r) > 0 /\ q.take = Min({BatchSize, Owed(r)})

\* k is behind everything that a query for so many rows has returned.
Beyond(k, keys, take) == Len(keys) = take /\ \A i \in 1 .. Len(keys) : Above(keys[i], k)

\* k was written, is in the batch, or is where the next query finds it.
Reached(k, r, q, o) ==
    \/ \E i \in 1 .. Len(o) : o[i] = k
    \/ \E i \in 1 .. Len(r.batch) : i > r.index /\ r.batch[i] = k
    \/ /\ r.more /\ After(k, r.cursor)
       /\ q.state = "answered" =>
              (\E i \in 1 .. Len(q.keys) : q.keys[i] = k) \/ Beyond(k, q.keys, q.take)

LEMMA FilledReader ==
    ASSUME NEW r \in Reader, NEW keys \in Seq(Key), NEW take,
           NEW f, f = Filled(r, keys, take)
    PROVE  /\ f \in Reader /\ f.remaining = r.remaining /\ f.batch = keys /\ f.index = 0
           /\ f.more <=> Len(keys) = take
           /\ keys = <<>> => f.cursor = r.cursor
           /\ keys # <<>> => f.cursor = keys[Len(keys)]
<1> DEFINE last == IF keys = <<>> THEN r.cursor ELSE Last(keys)
           all == Len(keys) = take
<1>1. keys # <<>> => Last(keys) = keys[Len(keys)] /\ keys[Len(keys)] \in Key
  <2>1. keys # <<>> => Len(keys) \in 1 .. Len(keys)
    OBVIOUS
  <2> QED
    BY <2>1 DEF Last
<1>2. last \in {NoCursor} \cup Key /\ all \in BOOLEAN
  BY <1>1 DEF Reader
<1>3. f = [r EXCEPT !.batch = keys, !.index = 0, !.more = all, !.cursor = last]
  BY DEF Filled, Reader
<1> HIDE DEF last, all
<1>4. f = [remaining |-> r.remaining, batch |-> keys, index |-> 0, cursor |-> last, more |-> all]
  BY <1>3 DEF Reader
<1>5. r.remaining \in Nat
  BY DEF Reader
<1>6. f \in Reader
  BY <1>2, <1>4, <1>5 DEF Reader
<1>7. f.remaining = r.remaining /\ f.batch = keys /\ f.index = 0 /\ f.more = all /\ f.cursor = last
  BY <1>4
<1> QED
  BY <1>1, <1>6, <1>7 DEF last, all

LEMMA PrimedQuery ==
    ASSUME NEW r \in Reader, r.index <= Len(r.batch)
    PROVE  /\ Primed(r) \in Query /\ Primed(r).keys = <<>> /\ Primed(r).take <= BatchSize
           /\ Primed(r).state \in {"none", "running"}
           /\ Primed(r).state # "none" =>
                  r.more /\ Owed(r) > 0 /\ Primed(r).take = Min({BatchSize, Owed(r)})
<1> DEFINE asked == r.more /\ r.index < Len(r.batch) /\ Owed(r) > 0
           take == Min({BatchSize, Owed(r)})
<1>1. /\ r.remaining \in Nat /\ r.index \in Nat /\ Len(r.batch) \in Nat
      /\ Owed(r) \in Int
  BY DEF Reader, Owed
<1>2. Primed(r) = IF asked THEN Running(take) ELSE NoQuery
  BY DEF Primed, Owed
<1>3. asked => take \in Nat /\ take <= BatchSize
  BY <1>1, ExportAssumption, SmallerOf
<1>4. CASE asked
  <2> HIDE DEF take
  <2>1. Primed(r) = [state |-> "running", take |-> take, keys |-> <<>>]
    BY <1>2, <1>4 DEF Running
  <2>2. <<>> \in Seq(Key)
    OBVIOUS
  <2>3. Primed(r) \in Query
    BY <1>3, <1>4, <2>1, <2>2 DEF Query
  <2> QED
    BY <1>3, <1>4, <2>1, <2>3 DEF take
<1>5. CASE ~asked
  <2>1. Primed(r) = [state |-> "none", take |-> 0, keys |-> <<>>]
    BY <1>2, <1>5 DEF NoQuery
  <2>2. <<>> \in Seq(Key)
    OBVIOUS
  <2> QED
    BY <2>1, <2>2, ExportAssumption DEF Query
<1> QED
  BY <1>4, <1>5
\* A batch is taken when the one before it is handed out.
LEMMA BatchTaken ==
    ASSUME NEW r \in Reader, r.index = Len(r.batch), r.remaining > 0,
           NEW o, o \in Seq(Key), InOrder(o), \A i \in 1 .. Len(o) : ~After(o[i], r.cursor),
           NEW take \in Nat \ {0}, take <= BatchSize, take <= r.remaining,
           NEW keys \in Seq(Key), Len(keys) <= take, InOrder(keys),
           \A i \in 1 .. Len(keys) : After(keys[i], r.cursor),
           NEW s, s = Filled(r, keys, take)
    PROVE  /\ s \in Reader /\ s.remaining = r.remaining
           /\ Flows(s, Primed(s), o) /\ Asks(s, Primed(s))
           /\ \A k \in Key :
                  \/ \E i \in 1 .. Len(o) : o[i] = k
                  \/ \E i \in 1 .. Len(keys) : keys[i] = k
                  \/ Beyond(k, keys, take)
                  => Reached(k, s, Primed(s), o)
<1> DEFINE L == Len(keys)
           q == Primed(s)
<1>1. /\ BatchSize \in Nat \ {0} /\ r.remaining \in Nat \ {0} /\ take \in Nat \ {0}
      /\ take <= BatchSize /\ take <= r.remaining /\ L \in Nat /\ r.cursor \in {NoCursor} \cup Key
      /\ \A i \in 1 .. L : keys[i] \in Key
      /\ \A i \in 1 .. Len(o) : o[i] \in Key
  <2>1. BatchSize \in Nat \ {0} /\ r.remaining \in Nat \ {0} /\ r.cursor \in {NoCursor} \cup Key
    BY ExportAssumption DEF Reader
  <2> QED
    BY <2>1
<1>2. /\ s \in Reader /\ s.remaining = r.remaining /\ s.batch = keys /\ s.index = 0
      /\ s.more <=> L = take
      /\ keys = <<>> => s.cursor = r.cursor
      /\ keys # <<>> => s.cursor = keys[L]
  BY ONLY FilledReader, r \in Reader, keys \in Seq(Key), s = Filled(r, keys, take)
<1>3. s.index <= Len(s.batch) /\ Owed(s) = r.remaining - L
  BY <1>1, <1>2 DEF Owed
<1>4. /\ q \in Query /\ q.keys = <<>> /\ q.take <= BatchSize /\ q.state \in {"none", "running"}
      /\ q.state # "none" => s.more /\ Owed(s) > 0 /\ q.take = Min({BatchSize, Owed(s)})
  BY <1>2, <1>3, PrimedQuery
<1>5. q.take \in Nat
  BY <1>4 DEF Query
<1> HIDE DEF q
<1>6. Asks(s, q)
  <2>1. Owed(s) >= 0 /\ Len(s.batch) <= BatchSize
    BY <1>1, <1>2, <1>3
  <2>2. Len(q.keys) = 0
    BY <1>4
  <2> QED
    BY <1>3, <1>4, <1>5, <2>1, <2>2 DEF Asks
<1>7. ASSUME NEW i \in 1 .. L
      PROVE  keys # <<>> /\ s.cursor = keys[L] /\ s.cursor \in Key /\ s.cursor # NoCursor
             /\ L \in 1 .. L /\ (keys[i] = keys[L] \/ Above(keys[i], keys[L]))
  <2>1. keys # <<>> /\ L \in 1 .. L
    BY <1>1
  <2>2. keys[i] = keys[L] \/ Above(keys[i], keys[L])
    BY <2>1, <1>1 DEF InOrder
  <2> QED
    BY <1>1, <1>2, <2>1, <2>2, CursorsAreNoKeys
<1>8. ASSUME NEW i \in 1 .. Len(o), NEW j \in 1 .. L
      PROVE  Above(o[i], keys[j])
  <2>1. r.cursor # NoCursor /\ r.cursor \in Key /\ ~Above(r.cursor, o[i])
    BY <1>1 DEF After
  <2>2. Above(r.cursor, keys[j])
    BY <2>1 DEF After
  <2>3. o[i] = r.cursor \/ Above(o[i], r.cursor)
    BY <1>1, <2>1, AboveIsOrder
  <2> QED
    BY <1>1, <2>1, <2>2, <2>3, AboveIsOrder
<1>9. ASSUME NEW i \in 1 .. Len(o)
      PROVE  ~After(o[i], s.cursor)
  <2>1. CASE keys = <<>>
    BY <1>2, <2>1
  <2>2. CASE keys # <<>>
    <3>1. L \in 1 .. L
      BY <1>1, <2>2
    <3>2. Above(o[i], s.cursor) /\ s.cursor # NoCursor /\ s.cursor \in Key
      BY <1>7, <1>8, <3>1
    <3> QED
      BY <1>1, <3>2, AboveIsOrder DEF After
  <2> QED
    BY <2>1, <2>2
<1>10. ASSUME NEW i \in 1 .. L
       PROVE  ~After(keys[i], s.cursor)
  <2>1. s.cursor = keys[L] /\ s.cursor \in Key /\ s.cursor # NoCursor /\ keys[i] \in Key
    BY <1>1, <1>7
  <2> QED
    BY <1>7, <2>1, AboveIsOrder DEF After
<1>11. Flows(s, q, o)
  <2>1. Len(q.keys) = 0
    BY <1>4
  <2>2. s.batch = keys
    BY <1>2
  <2>3. /\ InOrder(o) /\ InOrder(s.batch) /\ InOrder(q.keys)
    <3>1. InOrder(q.keys)
      BY <2>1 DEF InOrder
    <3> QED
      BY <2>2, <3>1
  <2>4. \A i \in 1 .. Len(o), j \in 1 .. Len(s.batch) : Above(o[i], s.batch[j])
    BY <1>8, <2>2
  <2>5. \A i \in 1 .. Len(s.batch) : ~After(s.batch[i], s.cursor)
    BY <1>10, <2>2
  <2> QED
    BY <1>9, <2>1, <2>3, <2>4, <2>5 DEF Flows
<1>12. ASSUME NEW k \in Key,
              \/ \E i \in 1 .. Len(o) : o[i] = k
              \/ \E i \in 1 .. L : keys[i] = k
              \/ Beyond(k, keys, take)
       PROVE  Reached(k, s, q, o)
  <2>1. CASE \E i \in 1 .. Len(o) : o[i] = k
    BY <2>1 DEF Reached
  <2>2. CASE \E i \in 1 .. L : keys[i] = k
    <3>1. PICK i \in 1 .. L : keys[i] = k
      BY <2>2
    <3>2. i \in 1 .. Len(s.batch) /\ i > s.index /\ s.batch[i] = k
      BY <1>1, <1>2, <3>1
    <3> QED
      BY <3>2 DEF Reached
  <2>3. CASE Beyond(k, keys, take)
    <3>1. L = take /\ L \in 1 .. L
      BY <1>1, <2>3 DEF Beyond
    <3>2. s.more /\ Above(keys[L], k) /\ s.cursor = keys[L]
      BY <1>2, <1>7, <2>3, <3>1 DEF Beyond
    <3> QED
      BY <1>4, <3>2 DEF Reached, After
  <2> QED
    BY <1>12, <2>1, <2>2, <2>3
<1> HIDE DEF L
<1> QED
  BY <1>2, <1>6, <1>11, <1>12 DEF q, L

LEMMA SmallestOf ==
    ASSUME NEW a \in Nat, NEW b \in Nat, NEW c \in Nat
    PROVE  Min({a, b, c}) \in Nat /\ Min({a, b, c}) <= a /\ Min({a, b, c}) <= b /\ Min({a, b, c}) <= c
<1>1. \E x \in {a, b, c} : \A y \in {a, b, c} : x =< y
  <2>1. CASE a <= b /\ a <= c
    BY <2>1
  <2>2. CASE b <= a /\ b <= c
    BY <2>2
  <2>3. CASE c <= a /\ c <= b
    BY <2>3
  <2> QED
    BY <2>1, <2>2, <2>3
<1>2. Min({a, b, c}) \in {a, b, c} /\ \A y \in {a, b, c} : Min({a, b, c}) =< y
  BY <1>1 DEF Min
<1> QED
  BY <1>2
LEMMA ExportFetch ==
    ASSUME RowsInv, view = "export", NEW cursor, NEW take \in Nat,
           NEW keys, keys = Fetch(cursor, "next", take)
    PROVE  /\ keys \in Seq(Key) /\ Len(keys) <= take /\ InOrder(keys)
           /\ \A i \in 1 .. Len(keys) : After(keys[i], cursor)
           /\ \A c \in Claim : rows[c].matches /\ After(SortKey(c), cursor) =>
                  (\E i \in 1 .. Len(keys) : keys[i] = SortKey(c)) \/ Beyond(SortKey(c), keys, take)
<1>1. rows \in [Claim -> Row]
  BY DEF RowsInv
<1>2. Answers(keys, cursor, "next", take)
  BY <1>1, FetchAnswers
<1>3. \A k : k \in Found(cursor, "next") <=> k \in Keys /\ After(k, cursor)
  BY DEF Found, Behind, After, Before
<1>4. \A c \in Claim : rows[c].matches => SortKey(c) \in Keys
  BY <1>1, KeysAreFinite
<1>5. \A k, l : Leads("next", k, l) <=> Above(k, l)
  BY DEF Leads, Before
<1>6. keys \in Seq(Key) /\ Len(keys) <= take /\ InOrder(keys)
  BY <1>2, <1>5 DEF Answers, InOrder
<1>7. \A i \in 1 .. Len(keys) : After(keys[i], cursor)
  BY <1>2, <1>3 DEF Answers
<1>8. ASSUME NEW c \in Claim, rows[c].matches, After(SortKey(c), cursor)
      PROVE  (\E i \in 1 .. Len(keys) : keys[i] = SortKey(c)) \/ Beyond(SortKey(c), keys, take)
  <2>1. SortKey(c) \in Found(cursor, "next")
    BY <1>3, <1>4, <1>8
  <2> QED
    BY <1>2, <1>5, <2>1 DEF Answers, Beyond
<1> QED
  BY <1>6, <1>7, <1>8

ExportTypes ==
    /\ pc \in {"asked", "audited", "streaming", "done", "failed"}
    /\ limit \in Limit \cup {0} /\ (pc # "asked" => limit \in Limit)
    /\ reader \in Reader /\ query \in Query /\ out \in Seq(Key) /\ steady \subseteq Claim

\* What was written and what remains is what was asked for; at the end nothing remains, or
\* there was nothing more.
StreamInv ==
    /\ Flows(reader, query, out) /\ Asks(reader, query)
    /\ Len(out) + reader.remaining <= limit
    /\ pc \in {"streaming", "done"} => Len(out) + reader.remaining = limit
    /\ pc = "done" =>
           reader.remaining = 0 \/ (reader.index = Len(reader.batch) /\ ~reader.more)

PhaseInv ==
    /\ view # "export" => pc = "asked"
    /\ pc \in {"asked", "audited"} =>
           reader = NoReader /\ query = NoQuery /\ out = <<>> /\ steady = {}

SteadyInv == \A c \in steady : rows[c].matches /\ Reached(SortKey(c), reader, query, out)

ExportInv == RowsInv /\ ExportTypes /\ StreamInv /\ PhaseInv /\ SteadyInv

LEMMA NothingRead ==
    /\ NoReader \in Reader /\ NoReader.remaining = 0 /\ NoReader.index = 0
    /\ NoReader.batch = <<>> /\ NoReader.cursor = NoCursor
    /\ NoQuery \in Query /\ NoQuery.keys = <<>> /\ NoQuery.state = "none" /\ NoQuery.take = 0
    /\ Flows(NoReader, NoQuery, <<>>) /\ Asks(NoReader, NoQuery)
<1>1. <<>> \in Seq(Key) /\ Len(<<>>) = 0
  OBVIOUS
<1>2. /\ NoReader \in Reader /\ NoReader.remaining = 0 /\ NoReader.index = 0
      /\ NoReader.batch = <<>> /\ NoReader.cursor = NoCursor
  BY <1>1 DEF NoReader, Reader
<1>3. /\ NoQuery \in Query /\ NoQuery.keys = <<>> /\ NoQuery.state = "none" /\ NoQuery.take = 0
  BY <1>1 DEF NoQuery, Query
<1>4. Flows(NoReader, NoQuery, <<>>)
  BY <1>1, <1>2, <1>3 DEF Flows, InOrder
<1>5. Asks(NoReader, NoQuery)
  BY <1>1, <1>2, <1>3, ExportAssumption DEF Asks, Owed
<1> QED
  BY <1>2, <1>3, <1>4, <1>5

LEMMA ExportStart == ASSUME TableInit, ExportInit PROVE ExportInv
<1>1. /\ RowsInv /\ pc = "asked" /\ limit = 0 /\ reader = NoReader /\ query = NoQuery
      /\ out = <<>> /\ steady = {} /\ out \in Seq(Key) /\ Len(out) = 0
  BY TableStart DEF ExportInit
<1>2. ExportTypes
  BY <1>1, NothingRead DEF ExportTypes
<1>3. StreamInv
  BY <1>1, NothingRead DEF StreamInv
<1> QED
  BY <1>1, <1>2, <1>3 DEF ExportInv, PhaseInv, SteadyInv

LEMMA TableStays ==
    ASSUME RowsInv, UNCHANGED table
    PROVE  RowsInv' /\ view' = view /\ rows' = rows /\ \A c \in Claim : SortKey(c)' = SortKey(c)
BY DEF RowsInv, Row, table, SortKey

LEMMA ExportRecorded == ASSUME ExportInv, view = "export", RecordAudit, UNCHANGED table PROVE ExportInv'
<1>1. /\ pc = "asked" /\ pc' \in {"audited", "failed"} /\ limit' \in Limit
      /\ reader' = reader /\ query' = query /\ out' = out /\ steady' = steady
      /\ reader = NoReader /\ query = NoQuery /\ out = <<>> /\ steady = {}
      /\ RowsInv' /\ view' = view
  BY TableStays DEF RecordAudit, ExportInv, PhaseInv
<1>2. limit' \in Nat /\ Len(out') = 0 /\ out' \in Seq(Key)
  BY <1>1, ExportAssumption
<1>3. ExportTypes'
  BY <1>1, <1>2, NothingRead DEF ExportTypes
<1>4. Flows(reader', query', out') /\ Asks(reader', query')
  BY <1>1, NothingRead
<1>5. StreamInv'
  BY <1>1, <1>2, <1>4, NothingRead DEF StreamInv
<1> QED
  BY <1>1, <1>3, <1>5 DEF ExportInv, PhaseInv, SteadyInv

LEMMA ExportBegun ==
    ASSUME ExportInv, view = "export", FetchInitialBatch, UNCHANGED table PROVE ExportInv'
<1>1. /\ pc = "audited" /\ limit' = limit /\ out' = out /\ limit \in Limit /\ limit \in Nat \ {0}
      /\ reader = NoReader /\ query = NoQuery /\ out = <<>> /\ steady = {} /\ Len(out) = 0
      /\ RowsInv /\ RowsInv' /\ view' = view /\ rows' = rows /\ out \in Seq(Key)
      /\ \A c \in Claim : SortKey(c)' = SortKey(c)
  BY TableStays, ExportAssumption DEF FetchInitialBatch, ExportInv, ExportTypes, PhaseInv
<1>2. CASE pc' = "failed" /\ UNCHANGED <<reader, query, steady>>
  <2>1. ExportTypes'
    BY <1>1, <1>2 DEF ExportInv, ExportTypes
  <2>2. StreamInv'
    BY <1>1, <1>2 DEF ExportInv, StreamInv
  <2> QED
    BY <1>1, <1>2, <2>1, <2>2 DEF ExportInv, PhaseInv, SteadyInv
<1>3. ASSUME NEW take, take = Min({BatchSize, limit}), NEW keys, keys = Fetch(NoCursor, "next", take),
             NEW r, r = [NoReader EXCEPT !.remaining = limit],
             reader' = Filled(r, keys, take), query' = Primed(reader'), pc' = "streaming",
             steady' = {c \in Claim : rows[c].matches}
      PROVE  ExportInv'
  <2>1. take \in Nat \ {0} /\ take <= BatchSize /\ take <= limit
    BY <1>1, <1>3, ExportAssumption, SmallerOf
  <2>2. /\ keys \in Seq(Key) /\ Len(keys) <= take /\ InOrder(keys)
        /\ \A i \in 1 .. Len(keys) : After(keys[i], NoCursor)
        /\ \A c \in Claim : rows[c].matches /\ After(SortKey(c), NoCursor) =>
               (\E i \in 1 .. Len(keys) : keys[i] = SortKey(c)) \/ Beyond(SortKey(c), keys, take)
    BY <1>1, <1>3, <2>1, ExportFetch
  <2>3. r \in Reader /\ r.remaining = limit /\ r.batch = <<>> /\ r.index = 0 /\ r.cursor = NoCursor
    BY <1>1, <1>3, NothingRead DEF Reader
  <2>4. r.index = Len(r.batch) /\ r.remaining > 0 /\ InOrder(out) /\ take <= r.remaining
        /\ \A i \in 1 .. Len(out) : ~After(out[i], r.cursor)
    BY <1>1, <2>1, <2>3 DEF InOrder
  <2>5. \A i \in 1 .. Len(keys) : After(keys[i], r.cursor)
    BY <2>2, <2>3
  <2>6. /\ reader' \in Reader /\ reader'.remaining = limit
        /\ Flows(reader', query', out) /\ Asks(reader', query')
        /\ \A k \in Key :
               \/ \E i \in 1 .. Len(out) : out[i] = k
               \/ \E i \in 1 .. Len(keys) : keys[i] = k
               \/ Beyond(k, keys, take)
               => Reached(k, reader', query', out)
    <3>1. r \in Reader /\ out \in Seq(Key) /\ reader' = Filled(r, keys, take) /\ query' = Primed(reader')
      BY <1>1, <1>3, <2>3
    <3> QED
      BY ONLY BatchTaken, <2>1, <2>2, <2>3, <2>4, <2>5, <3>1
  <2>7. query' \in Query
    <3>1. reader'.index <= Len(reader'.batch)
      BY <2>6 DEF Asks
    <3> QED
      BY <1>3, <2>6, <3>1, PrimedQuery
  <2>8. ExportTypes'
    BY <1>1, <1>3, <2>6, <2>7 DEF ExportTypes
  <2>9. StreamInv'
    BY <1>1, <1>3, <2>6 DEF StreamInv
  <2>10. SteadyInv'
    <3>1. \A c \in Claim : rows[c].matches => SortKey(c) \in Key
      BY <1>1, KeysAreFinite DEF RowsInv
    <3>2. \A c \in steady' : rows'[c].matches /\ Reached(SortKey(c)', reader', query', out')
      BY <1>1, <1>3, <2>2, <2>6, <3>1 DEF After
    <3> QED
      BY <3>2 DEF SteadyInv
  <2> QED
    BY <1>1, <1>3, <2>8, <2>9, <2>10 DEF ExportInv, PhaseInv
<1> DEFINE take == Min({BatchSize, limit})
           keys == Fetch(NoCursor, "next", take)
           r == [NoReader EXCEPT !.remaining = limit]
<1>4. \/ /\ reader' = Filled(r, keys, take) /\ query' = Primed(reader') /\ pc' = "streaming"
         /\ steady' = {c \in Claim : rows[c].matches}
      \/ pc' = "failed" /\ UNCHANGED <<reader, query, steady>>
  BY DEF FetchInitialBatch
<1> QED
  BY <1>2, <1>3, <1>4

\* What a query that ends does to the stream: its rows come after the cursor.
LEMMA QueryAnswered ==
    ASSUME NEW r \in Reader, NEW q \in Query, NEW o, o \in Seq(Key), Flows(r, q, o), Asks(r, q),
           q.state = "running", NEW keys \in Seq(Key), Len(keys) <= q.take, InOrder(keys),
           \A i \in 1 .. Len(keys) : After(keys[i], r.cursor),
           NEW a \in Query, a.state = "answered", a.keys = keys, a.take = q.take
    PROVE  /\ Flows(r, a, o) /\ Asks(r, a)
           /\ \A k \in Key :
                  /\ Reached(k, r, q, o)
                  /\ After(k, r.cursor) => (\E i \in 1 .. Len(keys) : keys[i] = k) \/ Beyond(k, keys, q.take)
                  => Reached(k, r, a, o)
<1>1. Flows(r, a, o)
  BY DEF Flows
<1>2. Asks(r, a)
  BY DEF Asks
<1>3. ASSUME NEW k \in Key, Reached(k, r, q, o),
             After(k, r.cursor) => (\E i \in 1 .. Len(keys) : keys[i] = k) \/ Beyond(k, keys, q.take)
      PROVE  Reached(k, r, a, o)
  BY <1>3 DEF Reached
<1> QED
  BY <1>1, <1>2, <1>3

LEMMA ExportAnswered ==
    ASSUME ExportInv, view = "export", QueryEnds, UNCHANGED table PROVE ExportInv'
<1>1. /\ query.state = "running" /\ UNCHANGED <<pc, limit, reader, out, steady>>
      /\ RowsInv /\ RowsInv' /\ view' = view /\ rows' = rows /\ out \in Seq(Key)
      /\ \A c \in Claim : SortKey(c)' = SortKey(c)
      /\ reader \in Reader /\ query \in Query /\ steady \subseteq Claim
      /\ Flows(reader, query, out) /\ Asks(reader, query)
  BY TableStays DEF QueryEnds, ExportInv, ExportTypes, StreamInv
<1>2. pc \notin {"asked", "audited"}
  BY <1>1, NothingRead DEF ExportInv, PhaseInv
<1>3. query.take \in Nat /\ query.keys = <<>> /\ query.keys \in Seq(Key)
  BY <1>1 DEF Query, Asks
<1>4. \A c \in Claim : SortKey(c) \in Key
  BY <1>1, KeysAreFinite DEF RowsInv
<1>5. ASSUME query' \in Query, Flows(reader, query', out), Asks(reader, query'),
             \A c \in steady : Reached(SortKey(c), reader, query', out)
      PROVE  ExportInv'
  <2>1. ExportTypes'
    BY <1>1, <1>5 DEF ExportInv, ExportTypes
  <2>2. StreamInv'
    BY <1>1, <1>5 DEF ExportInv, StreamInv
  <2>3. SteadyInv'
    BY <1>1, <1>5 DEF ExportInv, SteadyInv
  <2> QED
    BY <1>1, <1>2, <2>1, <2>2, <2>3 DEF ExportInv, PhaseInv
<1>6. ASSUME NEW keys, keys = Fetch(reader.cursor, "next", query.take),
             query' = [query EXCEPT !.state = "answered", !.keys = keys]
      PROVE  ExportInv'
  <2>1. /\ keys \in Seq(Key) /\ Len(keys) <= query.take /\ InOrder(keys)
        /\ \A i \in 1 .. Len(keys) : After(keys[i], reader.cursor)
        /\ \A c \in Claim : rows[c].matches /\ After(SortKey(c), reader.cursor) =>
               (\E i \in 1 .. Len(keys) : keys[i] = SortKey(c)) \/ Beyond(SortKey(c), keys, query.take)
    BY <1>1, <1>3, <1>6, ExportFetch
  <2>2. /\ query' \in Query /\ query'.state = "answered" /\ query'.keys = keys
        /\ query'.take = query.take
    BY <1>1, <1>6, <2>1 DEF Query
  <2>3. /\ Flows(reader, query', out) /\ Asks(reader, query')
        /\ \A k \in Key :
               /\ Reached(k, reader, query, out)
               /\ After(k, reader.cursor) =>
                      (\E i \in 1 .. Len(keys) : keys[i] = k) \/ Beyond(k, keys, query.take)
               => Reached(k, reader, query', out)
    BY ONLY QueryAnswered, <1>1, <2>1, <2>2
  <2>4. \A c \in steady : rows[c].matches /\ Reached(SortKey(c), reader, query, out)
    BY DEF ExportInv, SteadyInv
  <2>5. \A c \in steady : Reached(SortKey(c), reader, query', out)
    BY <1>1, <1>4, <2>1, <2>3, <2>4
  <2> QED
    BY <1>5, <2>2, <2>3, <2>5
<1>7. CASE query' = [query EXCEPT !.state = "failed"]
  <2>1. query' \in Query /\ query'.state = "failed" /\ query'.keys = query.keys /\ query'.take = query.take
    BY <1>1, <1>7 DEF Query
  <2>2. Flows(reader, query', out)
    BY <1>1, <2>1 DEF Flows
  <2>3. Asks(reader, query')
    BY <1>1, <1>3, <2>1 DEF Asks
  <2>4. \A c \in steady : Reached(SortKey(c), reader, query', out)
    BY <1>1, <2>1 DEF ExportInv, SteadyInv, Reached
  <2> QED
    BY <1>5, <2>1, <2>2, <2>3, <2>4
<1> DEFINE keys == Fetch(reader.cursor, "next", query.take)
<1>8. \/ query' = [query EXCEPT !.state = "answered", !.keys = keys]
      \/ query' = [query EXCEPT !.state = "failed"]
  BY DEF QueryEnds
<1> QED
  BY <1>6, <1>7, <1>8

LEMMA ExportFailed ==
    ASSUME ExportInv, view = "export", StreamFails, UNCHANGED table PROVE ExportInv'
<1>1. /\ pc' = "failed" /\ UNCHANGED <<limit, reader, query, out, steady>>
      /\ RowsInv' /\ view' = view /\ rows' = rows /\ limit \in Limit
      /\ \A c \in Claim : SortKey(c)' = SortKey(c)
  BY TableStays DEF StreamFails, NeedsBatch, ExportInv, ExportTypes
<1>2. ExportTypes' /\ StreamInv'
  BY <1>1 DEF ExportInv, ExportTypes, StreamInv
<1>3. SteadyInv'
  BY <1>1 DEF ExportInv, ExportTypes, SteadyInv
<1> QED
  BY <1>1, <1>2, <1>3 DEF ExportInv, PhaseInv

\* The reader r becomes s, and o becomes p, as n rows of the batch are handed out.
HandsOut(r, o, n, s, p) ==
    /\ r \in Reader /\ s \in Reader /\ o \in Seq(Key)
    /\ n \in Nat /\ n <= Len(r.batch) - r.index /\ n <= r.remaining
    /\ p = o \o SubSeq(r.batch, r.index + 1, r.index + n)
    /\ s.batch = r.batch /\ s.index = r.index + n /\ s.remaining = r.remaining - n
    /\ s.cursor = r.cursor /\ s.more = r.more

LEMMA ChunkHanded ==
    ASSUME view = "export", NEW r, NEW o, NEW n, NEW s, NEW p, HandsOut(r, o, n, s, p),
           NEW q \in Query, Flows(r, q, o), Asks(r, q)
    PROVE  /\ p \in Seq(Key) /\ Len(p) = Len(o) + n /\ Flows(s, q, p) /\ Asks(s, q)
           /\ \A k \in Key : Reached(k, r, q, o) => Reached(k, s, q, p)
<1>0. /\ r \in Reader /\ s \in Reader /\ o \in Seq(Key)
      /\ n \in Nat /\ n <= Len(r.batch) - r.index /\ n <= r.remaining
      /\ p = o \o SubSeq(r.batch, r.index + 1, r.index + n)
      /\ s.batch = r.batch /\ s.index = r.index + n /\ s.remaining = r.remaining - n
      /\ s.cursor = r.cursor /\ s.more = r.more
  BY DEF HandsOut
<1> DEFINE b == r.batch
           x == r.index
           chunk == SubSeq(b, x + 1, x + n)
<1>1. b \in Seq(Key) /\ x \in Nat /\ r.remaining \in Nat /\ Len(b) \in Nat /\ x + n <= Len(b)
  <2>1. b \in Seq(Key) /\ x \in Nat /\ r.remaining \in Nat
    BY <1>0 DEF Reader
  <2>2. Len(b) \in Nat /\ n <= Len(b) - x
    BY <1>0, <2>1
  <2> QED
    BY <1>0, <2>1, <2>2
<1>2. /\ chunk \in Seq(Key) /\ Len(chunk) = n
      /\ \A i \in 1 .. n : chunk[i] = b[x + i] /\ x + i \in 1 .. Len(b) /\ x + i > x
  <2> HIDE DEF b, x
  <2>1. /\ x + 1 \in Int /\ x + n \in Int /\ (x + n) - (x + 1) + 1 = n
        /\ x + 1 <= x + n <=> n # 0
        /\ \A i \in x + 1 .. x + n : b[i] \in Key
    BY <1>0, <1>1
  <2>2. /\ chunk \in Seq(Key) /\ Len(chunk) = n
        /\ \A i \in 1 .. n : chunk[i] = b[(x + 1) + i - 1]
    BY <1>0, <1>1, <2>1, SubSeqProperties
  <2>3. \A i \in 1 .. n : (x + 1) + i - 1 = x + i /\ x + i \in 1 .. Len(b) /\ x + i > x
    BY <1>0, <1>1
  <2> QED
    BY <1>0, <2>2, <2>3
<1>3. /\ InOrder(o) /\ InOrder(b) /\ InOrder(q.keys)
      /\ \A i \in 1 .. Len(o), j \in 1 .. Len(b) : j > x => Above(o[i], b[j])
      /\ \A i \in 1 .. Len(o) : ~After(o[i], r.cursor)
      /\ \A i \in 1 .. Len(b) : ~After(b[i], r.cursor)
      /\ \A i \in 1 .. Len(q.keys) : After(q.keys[i], r.cursor)
  BY DEF Flows
<1>4. p = o \o chunk /\ s.batch = b /\ s.index = x + n
  BY <1>0
<1> HIDE DEF b, x, chunk
<1>5. /\ p \in Seq(Key) /\ Len(p) = Len(o) + n /\ Len(o) \in Nat
      /\ \A i \in 1 .. Len(o) : i \in 1 .. Len(p) /\ p[i] = o[i]
      /\ \A i \in 1 .. n : Len(o) + i \in 1 .. Len(p) /\ p[Len(o) + i] = chunk[i]
      /\ \A i \in 1 .. Len(p) :
             \/ i \in 1 .. Len(o) /\ p[i] = o[i]
             \/ i - Len(o) \in 1 .. n /\ p[i] = chunk[i - Len(o)]
  <2>0. o \in Seq(Key) /\ chunk \in Seq(Key)
    BY <1>0, <1>2
  <2>1. /\ p \in Seq(Key) /\ Len(p) = Len(o) + n /\ Len(o) \in Nat
        /\ \A i \in 1 .. Len(o) : p[i] = o[i]
        /\ \A i \in 1 .. n : p[Len(o) + i] = chunk[i]
        /\ \A i \in 1 .. Len(p) :
               \/ i \in 1 .. Len(o) /\ p[i] = o[i]
               \/ i - Len(o) \in 1 .. n /\ p[i] = chunk[i - Len(o)]
    <3> DEFINE u == o \o chunk
               c == chunk
    <3>1. p = u /\ Len(c) = n /\ c = chunk
      BY <1>0, <1>2, <1>4
    <3> HIDE DEF c
    <3>2. /\ u \in Seq(Key) /\ Len(u) = Len(o) + Len(c)
          /\ \A i \in 1 .. Len(o) : u[i] = o[i]
          /\ \A i \in 1 .. Len(c) : u[Len(o) + i] = c[i]
          /\ \A i \in 1 .. Len(u) :
                 \/ i \in 1 .. Len(o) /\ u[i] = o[i]
                 \/ i - Len(o) \in 1 .. Len(c) /\ u[i] = c[i - Len(o)]
      BY ONLY Appended, <2>0 DEF c
    <3> HIDE DEF u
    <3>3. Len(o) \in Nat
      BY <1>0, <2>0
    <3> QED
      BY ONLY <3>1, <3>2, <3>3
  <2>2. \A i \in 1 .. Len(o) : i \in 1 .. Len(p)
    BY <1>0, <2>1
  <2>3. \A i \in 1 .. n : Len(o) + i \in 1 .. Len(p)
    BY <1>0, <2>1
  <2> QED
    BY <1>0, <2>1, <2>2, <2>3
<1>6. InOrder(p)
  <2>1. \A k, l : Before(k, l) <=> Above(k, l)
    BY DEF Before
  <2>2. Ordered(o)
    BY <1>0, <1>3, <2>1 DEF Ordered, InOrder
  <2>3. Ordered(chunk)
    <3> SUFFICES ASSUME NEW i \in 1 .. n, NEW j \in 1 .. n, i < j PROVE Above(chunk[i], chunk[j])
      BY <1>0, <1>2, <2>1 DEF Ordered
    <3>1. x + i < x + j
      BY <1>0, <1>1
    <3> QED
      BY <1>0, <1>2, <1>3, <3>1 DEF InOrder
  <2>4. \A i \in 1 .. Len(o), j \in 1 .. Len(chunk) : Before(o[i], chunk[j])
    BY <1>0, <1>2, <1>3, <2>1
  <2>5. Ordered(p)
    BY <1>0, <1>2, <1>4, <2>2, <2>3, <2>4, AppendedInOrder
  <2> QED
    BY <1>0, <2>1, <2>5 DEF Ordered, InOrder
<1>7. ASSUME NEW i \in 1 .. Len(p)
      PROVE  /\ ~After(p[i], s.cursor)
             /\ \A j \in 1 .. Len(b) : j > x + n => Above(p[i], b[j])
  <2>1. CASE i \in 1 .. Len(o) /\ p[i] = o[i]
    <3>1. \A j \in 1 .. Len(b) : j > x + n => j > x
      BY <1>0, <1>1
    <3> QED
      BY <1>0, <1>3, <2>1, <3>1
  <2>2. CASE i - Len(o) \in 1 .. n /\ p[i] = chunk[i - Len(o)]
    <3>1. PICK m \in 1 .. n : p[i] = chunk[m]
      BY <1>0, <2>2
    <3>2. p[i] = b[x + m] /\ x + m \in 1 .. Len(b)
      BY <1>0, <1>2, <3>1
    <3>3. \A j \in 1 .. Len(b) : j > x + n => x + m < j
      BY <1>0, <1>1
    <3> QED
      BY <1>0, <1>3, <3>2, <3>3 DEF InOrder
  <2> QED
    BY <1>0, <1>5, <2>1, <2>2
<1>8. Flows(s, q, p)
  BY <1>0, <1>3, <1>4, <1>6, <1>7 DEF Flows
<1>9. Asks(s, q)
  <2>1. Owed(s) = Owed(r)
    BY <1>0, <1>1, <1>4 DEF Owed, b, x
  <2>2. s.index <= Len(s.batch)
    BY <1>0, <1>1, <1>4
  <2> QED
    BY <1>0, <2>1, <2>2 DEF Asks
<1>10. ASSUME NEW k \in Key, Reached(k, r, q, o)
       PROVE  Reached(k, s, q, p)
  <2>1. CASE \E i \in 1 .. Len(o) : o[i] = k
    BY <1>0, <1>5, <2>1 DEF Reached
  <2>2. CASE \E i \in 1 .. Len(b) : i > x /\ b[i] = k
    <3>1. PICK i \in 1 .. Len(b) : i > x /\ b[i] = k
      BY <1>0, <2>2
    <3>2. CASE i > x + n
      BY <1>0, <1>4, <3>1, <3>2 DEF Reached
    <3>3. CASE ~(i > x + n)
      <4>1. i - x \in 1 .. n /\ x + (i - x) = i
        BY <1>0, <1>1, <3>1, <3>3
      <4>2. Len(o) + (i - x) \in 1 .. Len(p) /\ p[Len(o) + (i - x)] = k
        BY <1>0, <1>2, <1>5, <3>1, <4>1
      <4> QED
        BY <1>0, <4>2 DEF Reached
    <3> QED
      BY <1>0, <3>2, <3>3
  <2>3. CASE /\ r.more /\ After(k, r.cursor)
             /\ q.state = "answered" =>
                    (\E i \in 1 .. Len(q.keys) : q.keys[i] = k) \/ Beyond(k, q.keys, q.take)
    BY <1>0, <2>3 DEF Reached
  <2> QED
    BY <1>0, <1>10, <2>1, <2>2, <2>3 DEF Reached, b, x
<1> QED
  BY <1>0, <1>5, <1>8, <1>9, <1>10

\* What the reader b is before it hands out its chunk, next to the query q: what was written
\* and what remains is what was asked for, and a batch that is used up was the last one.
Holds(b, q) ==
    /\ b \in Reader /\ q \in Query /\ Flows(b, q, out) /\ Asks(b, q)
    /\ Len(out) + b.remaining = limit
    /\ b.remaining # 0 /\ b.index = Len(b.batch) => ~b.more
    /\ \A c \in steady : rows[c].matches /\ Reached(SortKey(c), b, q, out)

\* The chunk is handed out, or the stream ends.
LEMMA ExportHandsOut ==
    ASSUME ExportInv, view = "export", pc = "streaming", NEW b, NEW q, Holds(b, q),
           HandOut(b), query' = q, UNCHANGED <<limit, steady>>, UNCHANGED table
    PROVE  ExportInv'
<1>1. /\ pc = "streaming" /\ query' = q /\ limit' = limit /\ steady' = steady
      /\ RowsInv' /\ view' = view /\ rows' = rows /\ \A c \in Claim : SortKey(c)' = SortKey(c)
  BY TableStays DEF ExportInv
<1>2. /\ b \in Reader /\ q \in Query /\ out \in Seq(Key) /\ steady \subseteq Claim
      /\ limit \in Limit /\ Len(out) + b.remaining = limit
      /\ Flows(b, q, out) /\ Asks(b, q)
      /\ b.remaining # 0 /\ b.index = Len(b.batch) => ~b.more
      /\ \A c \in steady : rows[c].matches /\ Reached(SortKey(c), b, q, out)
      /\ \A c \in Claim : SortKey(c) \in Key
  BY <1>1, KeysAreFinite DEF ExportInv, ExportTypes, RowsInv, Holds
<1>3. /\ b.remaining \in Nat /\ b.index \in Nat /\ Len(b.batch) \in Nat
      /\ b.index <= Len(b.batch) /\ limit \in Nat /\ Len(out) \in Nat
  BY <1>2, ExportAssumption DEF Reader, Asks
<1>4. ASSUME pc' \in {"streaming", "done"}, reader' \in Reader, out' \in Seq(Key),
             Flows(reader', q, out'), Asks(reader', q), Len(out') + reader'.remaining = limit,
             pc' = "done" => reader'.remaining = 0 \/ (reader'.index = Len(reader'.batch) /\ ~reader'.more),
             \A k \in Key : Reached(k, b, q, out) => Reached(k, reader', q, out')
      PROVE  ExportInv'
  <2>1. ExportTypes'
    BY <1>1, <1>2, <1>4 DEF ExportTypes
  <2>2. StreamInv'
    <3>1. reader'.remaining \in Nat /\ Len(out') \in Nat
      BY <1>4 DEF Reader
    <3> QED
      BY <1>1, <1>3, <1>4, <3>1 DEF StreamInv
  <2>3. \A c \in steady' : rows'[c].matches /\ Reached(SortKey(c)', reader', query', out')
    BY <1>1, <1>2, <1>4
  <2> QED
    BY <1>1, <1>4, <2>1, <2>2, <2>3 DEF ExportInv, PhaseInv, SteadyInv
<1> DEFINE n == Chunk(b)
           over == b.remaining <= 0 \/ b.index >= Len(b.batch)
<1>5. /\ over => pc' = "done" /\ reader' = b /\ out' = out
      /\ ~over => /\ out' = out \o SubSeq(b.batch, b.index + 1, b.index + n)
                  /\ reader' = [b EXCEPT !.index = @ + n, !.remaining = @ - n]
                  /\ pc' = pc
  BY DEF HandOut
<1>6. CASE over
  <2>1. b.remaining = 0 \/ (b.index = Len(b.batch) /\ ~b.more)
    BY <1>2, <1>3, <1>6
  <2>2. pc' = "done" /\ reader' = b /\ out' = out
    BY <1>5, <1>6
  <2> HIDE DEF over
  <2> QED
    BY <1>2, <1>4, <2>1, <2>2
<1>7. CASE ~over
  <2>1. b.index < Len(b.batch) /\ b.remaining # 0
    BY <1>3, <1>7
  <2>2. n \in Nat /\ n <= Len(b.batch) - b.index /\ n <= b.remaining
    <3>1. Len(b.batch) - b.index \in Nat /\ ChunkRows \in Nat
      BY <1>3, <2>1, ExportAssumption
    <3> QED
      BY <1>3, <3>1, SmallestOf DEF Chunk
  <2> HIDE DEF n, over
  <2>3. /\ out' = out \o SubSeq(b.batch, b.index + 1, b.index + n)
        /\ reader' = [b EXCEPT !.index = @ + n, !.remaining = @ - n]
        /\ pc' = pc
    BY <1>5, <1>7
  <2>4. b.index + n \in Nat /\ b.remaining - n \in Nat
    BY <1>3, <2>2
  <2>5. /\ reader' \in Reader /\ reader'.batch = b.batch /\ reader'.index = b.index + n
        /\ reader'.remaining = b.remaining - n /\ reader'.cursor = b.cursor
        /\ reader'.more = b.more
    BY <1>2, <2>3, <2>4 DEF Reader
  <2>6. /\ out' \in Seq(Key) /\ Len(out') = Len(out) + n /\ Flows(reader', q, out')
        /\ Asks(reader', q)
        /\ \A k \in Key : Reached(k, b, q, out) => Reached(k, reader', q, out')
    <3> DEFINE o == out
               p == out'
               s == reader'
    <3>1. q \in Query /\ HandsOut(b, o, n, s, p) /\ Flows(b, q, o) /\ Asks(b, q) /\ view = "export"
      BY <1>2, <2>2, <2>3, <2>5 DEF HandsOut
    <3> HIDE DEF o, p, s
    <3>2. /\ p \in Seq(Key) /\ Len(p) = Len(o) + n /\ Flows(s, q, p) /\ Asks(s, q)
          /\ \A k \in Key : Reached(k, b, q, o) => Reached(k, s, q, p)
      BY ONLY ChunkHanded, <3>1
    <3> QED
      BY <3>2 DEF o, p, s
  <2>7. Len(out') + reader'.remaining = limit
    BY <1>2, <1>3, <2>2, <2>5, <2>6
  <2> QED
    BY <1>1, <1>4, <2>3, <2>5, <2>6, <2>7
<1> QED
  BY <1>6, <1>7

LEMMA ExportPulled == ASSUME ExportInv, view = "export", Pull, UNCHANGED table PROVE ExportInv'
<1>1. /\ pc = "streaming" /\ HandOut(reader) /\ UNCHANGED <<limit, query, steady>>
      /\ ~(reader.index >= Len(reader.batch) /\ reader.remaining > 0 /\ reader.more)
  BY DEF Pull, NeedsBatch
<1>2. /\ reader \in Reader /\ query \in Query /\ Len(out) + reader.remaining = limit
      /\ Flows(reader, query, out) /\ Asks(reader, query)
      /\ \A c \in steady : rows[c].matches /\ Reached(SortKey(c), reader, query, out)
  BY <1>1 DEF ExportInv, ExportTypes, StreamInv, SteadyInv
<1>3. reader.remaining # 0 /\ reader.index = Len(reader.batch) => ~reader.more
  <2>1. reader.remaining \in Nat /\ reader.index \in Nat /\ Len(reader.batch) \in Nat
    BY <1>2 DEF Reader
  <2> QED
    BY <1>1, <2>1
<1>4. Holds(reader, query)
  BY <1>2, <1>3 DEF Holds
<1> QED
  BY <1>1, <1>4, ExportHandsOut

LEMMA ExportRefilled ==
    ASSUME ExportInv, view = "export", TakeBatch, UNCHANGED table PROVE ExportInv'
<1> DEFINE take == Min({BatchSize, reader.remaining})
           keys == IF query.state = "answered" THEN query.keys
                   ELSE Fetch(reader.cursor, "next", take)
           s == Filled(reader, keys, take)
<1>1. /\ pc = "streaming" /\ reader.index >= Len(reader.batch) /\ reader.remaining > 0 /\ reader.more
      /\ query.state \in {"none", "answered"} /\ UNCHANGED <<limit, steady>>
      /\ RowsInv /\ out \in Seq(Key)
      /\ Len(out) + reader.remaining = limit
      /\ reader \in Reader /\ query \in Query /\ steady \subseteq Claim
      /\ Flows(reader, query, out) /\ Asks(reader, query)
  <2>1. /\ pc = "streaming" /\ reader.index >= Len(reader.batch) /\ reader.remaining > 0 /\ reader.more
        /\ query.state \in {"none", "answered"} /\ UNCHANGED <<limit, steady>>
    BY DEF TakeBatch, NeedsBatch
  <2> QED
    BY <2>1 DEF ExportInv, ExportTypes, StreamInv
<1>2. /\ reader.remaining \in Nat \ {0} /\ reader.index \in Nat /\ Len(reader.batch) \in Nat
      /\ query.keys \in Seq(Key) /\ query.take \in Nat
  BY <1>1 DEF Reader, Query
<1>3. /\ reader.index = Len(reader.batch) /\ Owed(reader) = reader.remaining
      /\ query.state = "answered" => query.take = take
  <2>1. /\ reader.index <= Len(reader.batch)
        /\ query.state # "none" => query.take = Min({BatchSize, Owed(reader)})
    BY <1>1 DEF Asks
  <2>2. reader.index = Len(reader.batch) /\ Owed(reader) = reader.remaining
    BY <1>1, <1>2, <2>1 DEF Owed
  <2> QED
    BY <2>1, <2>2
<1>4. take \in Nat \ {0} /\ take <= BatchSize /\ take <= reader.remaining
  BY <1>2, ExportAssumption, SmallerOf
<1>5. /\ InOrder(out) /\ \A i \in 1 .. Len(out) : ~After(out[i], reader.cursor)
      /\ \A i \in 1 .. Len(query.keys) : After(query.keys[i], reader.cursor)
      /\ InOrder(query.keys) /\ Len(query.keys) <= query.take
  BY <1>1 DEF Flows, Asks
<1>6. \A c \in steady : SortKey(c) \in Key /\ rows[c].matches /\ Reached(SortKey(c), reader, query, out)
  BY <1>1, KeysAreFinite DEF ExportInv, SteadyInv, RowsInv
<1>7. ASSUME NEW c \in steady
      PROVE  \/ \E i \in 1 .. Len(out) : out[i] = SortKey(c)
             \/ /\ After(SortKey(c), reader.cursor)
                /\ query.state = "answered" =>
                       (\E i \in 1 .. Len(query.keys) : query.keys[i] = SortKey(c))
                           \/ Beyond(SortKey(c), query.keys, query.take)
  <2>1. ~\E i \in 1 .. Len(reader.batch) : i > reader.index /\ reader.batch[i] = SortKey(c)
    BY <1>2, <1>3
  <2> QED
    BY <1>6, <2>1 DEF Reached
<1> HIDE DEF take
<1>8. /\ keys \in Seq(Key) /\ Len(keys) <= take /\ InOrder(keys)
      /\ \A i \in 1 .. Len(keys) : After(keys[i], reader.cursor)
      /\ \A c \in steady :
             \/ \E i \in 1 .. Len(out) : out[i] = SortKey(c)
             \/ \E i \in 1 .. Len(keys) : keys[i] = SortKey(c)
             \/ Beyond(SortKey(c), keys, take)
  <2>1. CASE query.state = "answered"
    <3>1. keys = query.keys /\ query.take = take
      BY <1>3, <2>1
    <3> HIDE DEF keys
    <3> QED
      BY <1>2, <1>5, <1>7, <2>1, <3>1
  <2>2. CASE query.state = "none"
    <3>1. keys = Fetch(reader.cursor, "next", take) /\ take \in Nat
      BY <1>4, <2>2
    <3> HIDE DEF keys
    <3>2. /\ keys \in Seq(Key) /\ Len(keys) <= take /\ InOrder(keys)
          /\ \A i \in 1 .. Len(keys) : After(keys[i], reader.cursor)
          /\ \A c \in Claim : rows[c].matches /\ After(SortKey(c), reader.cursor) =>
                 (\E i \in 1 .. Len(keys) : keys[i] = SortKey(c)) \/ Beyond(SortKey(c), keys, take)
      BY <1>1, <3>1, ExportFetch
    <3> QED
      BY <1>1, <1>6, <1>7, <3>2
  <2> QED
    BY <1>1, <2>1, <2>2
<1> HIDE DEF keys
<1>9. /\ s \in Reader /\ s.remaining = reader.remaining /\ s.batch = keys /\ s.index = 0
      /\ s.more <=> Len(keys) = take
  <2> DEFINE r == reader
             t == s
  <2>1. r \in Reader /\ keys \in Seq(Key) /\ t = Filled(r, keys, take)
    BY <1>1, <1>8
  <2> HIDE DEF r, t
  <2>2. /\ t \in Reader /\ t.remaining = r.remaining /\ t.batch = keys /\ t.index = 0
        /\ t.more <=> Len(keys) = take
    BY ONLY FilledReader, <2>1
  <2> QED
    BY <2>2 DEF r, t
<1>10. /\ Flows(s, Primed(s), out) /\ Asks(s, Primed(s))
       /\ \A k \in Key :
              \/ \E i \in 1 .. Len(out) : out[i] = k
              \/ \E i \in 1 .. Len(keys) : keys[i] = k
              \/ Beyond(k, keys, take)
              => Reached(k, s, Primed(s), out)
  <2> DEFINE r == reader
             o == out
             t == s
  <2>1. /\ r \in Reader /\ r.index = Len(r.batch) /\ r.remaining > 0 /\ o \in Seq(Key) /\ InOrder(o)
        /\ \A i \in 1 .. Len(o) : ~After(o[i], r.cursor)
    BY <1>1, <1>3, <1>5
  <2>2. /\ keys \in Seq(Key) /\ InOrder(keys) /\ Len(keys) <= take /\ take \in Nat \ {0}
        /\ take <= BatchSize /\ take <= r.remaining
        /\ \A i \in 1 .. Len(keys) : After(keys[i], r.cursor)
    BY <1>4, <1>8
  <2>3. t = Filled(r, keys, take)
    OBVIOUS
  <2> HIDE DEF r, o, t
  <2>4. /\ Flows(t, Primed(t), o) /\ Asks(t, Primed(t))
        /\ \A k \in Key :
               \/ \E i \in 1 .. Len(o) : o[i] = k
               \/ \E i \in 1 .. Len(keys) : keys[i] = k
               \/ Beyond(k, keys, take)
               => Reached(k, t, Primed(t), o)
    BY ONLY BatchTaken, <2>1, <2>2, <2>3
  <2> QED
    BY <2>4 DEF r, o, t
<1> HIDE DEF s
<1>11. Primed(s) \in Query
  <2>1. s.index <= Len(s.batch)
    BY <1>10 DEF Asks
  <2> QED
    BY <1>9, <2>1, PrimedQuery
<1>12. Holds(s, Primed(s))
  <2>1. s.remaining # 0 /\ s.index = Len(s.batch) => ~s.more
    <3>1. Len(keys) \in Nat /\ take # 0
      BY <1>4, <1>8
    <3> QED
      BY <1>9, <3>1
  <2>2. \A c \in steady : rows[c].matches /\ Reached(SortKey(c), s, Primed(s), out)
    BY <1>6, <1>8, <1>10
  <2> QED
    BY <1>1, <1>9, <1>10, <1>11, <2>1, <2>2 DEF Holds
<1>13. HandOut(s) /\ query' = Primed(s)
  BY DEF TakeBatch, s, keys, take
<1> QED
  BY <1>1, <1>12, <1>13, ExportHandsOut

\* A claim that goes on to match keeps its place in the order of creation.
LEMMA ExportStays ==
    ASSUME ExportInv, view = "export", ExportOutdated PROVE ExportInv'
<1>1. /\ RowsInv /\ RowsInv' /\ view' = view /\ view = "export"
      /\ \A c \in Claim : rows'[c] = rows[c] \/ RowStep(rows[c], rows'[c])
      /\ pc = "streaming" /\ UNCHANGED <<pc, limit, reader, query, out>>
      /\ steady' = {c \in steady : rows'[c].matches} /\ steady \subseteq Claim
  BY TableStep DEF ExportInv, ExportTypes, ExportOutdated
<1>2. ExportTypes' /\ StreamInv'
  BY <1>1 DEF ExportInv, ExportTypes, StreamInv
<1>3. ASSUME NEW c \in steady'
      PROVE  rows'[c].matches /\ Reached(SortKey(c)', reader', query', out')
  <2>1. c \in steady /\ c \in Claim /\ rows'[c].matches /\ rows[c].matches
    BY <1>1, <1>3 DEF ExportInv, SteadyInv
  <2>2. rows'[c] = rows[c]
    BY <1>1, <2>1 DEF RowStep, ByCreation
  <2>3. SortKey(c)' = SortKey(c)
    BY <2>2 DEF SortKey
  <2> QED
    BY <1>1, <2>1, <2>3 DEF ExportInv, SteadyInv
<1> QED
  BY <1>1, <1>2, <1>3 DEF ExportInv, PhaseInv, SteadyInv

\* Next to the pages of the other lists, no export is asked for.
LEMMA ExportAside ==
    ASSUME ExportInv, UNCHANGED export, view' = view, RowsInv',
           view # "export" \/ rows' = rows
    PROVE  ExportInv'
<1>1. /\ UNCHANGED <<pc, limit, reader, query, out, steady>>
      /\ view # "export" => steady = {}
  BY DEF export, ExportInv, PhaseInv
<1>2. ExportTypes' /\ StreamInv' /\ PhaseInv'
  BY <1>1 DEF ExportInv, ExportTypes, StreamInv, PhaseInv
<1>3. \A c \in steady' : rows'[c].matches /\ Reached(SortKey(c)', reader', query', out')
  <2> TAKE c \in steady'
  <2>1. c \in steady /\ rows' = rows
    BY <1>1
  <2>2. SortKey(c)' = SortKey(c)
    BY <2>1 DEF SortKey
  <2> QED
    BY <1>1, <2>1, <2>2 DEF ExportInv, SteadyInv
<1> QED
  BY <1>2, <1>3 DEF ExportInv, SteadyInv

LEMMA ExportMoves == ExportInv /\ [Next]_vars => ExportInv'
<1> SUFFICES ASSUME ExportInv, [Next]_vars PROVE ExportInv'
  OBVIOUS
<1>1. CASE view = "export" /\ ExportStep /\ UNCHANGED table
  BY <1>1, ExportRecorded, ExportBegun, ExportAnswered, ExportPulled, ExportRefilled, ExportFailed
     DEF ExportStep
<1>2. CASE view = "export" /\ ExportOutdated
  BY <1>2, ExportStays
<1>3. CASE view # "export" /\ PagesNext /\ UNCHANGED export
  <2>1. TableNext \/ UNCHANGED table
    BY <1>3 DEF PagesNext, OpenList, NextPage, PagesOutdated
  <2>2. RowsInv' /\ view' = view
    BY <2>1, TableStep, TableStays DEF ExportInv
  <2> QED
    BY <1>3, <2>2, ExportAside
<1>4. CASE UNCHANGED vars
  <2>1. UNCHANGED table /\ UNCHANGED export
    BY <1>4 DEF vars
  <2> QED
    BY <2>1, TableStays, ExportAside DEF ExportInv
<1> QED
  BY <1>1, <1>2, <1>3, <1>4 DEF Next, ExportNext

\* What was written, the rest of the batch, the cursor and the answer of the query that runs
\* ahead are in the order of the list; the query asks for exactly what is owed; and each
\* claim that matched all the time is written, in the batch, or where the query finds it:
\* the inductive invariant of the export.
THEOREM ListsExport == Spec => []ExportInv
<1>1. Init => ExportInv
  BY ExportStart DEF Init
<1> QED
  BY <1>1, ExportMoves, PTL DEF Spec

\* The export's types.
THEOREM ListsExportTypes == Spec => []ExportTypeOK
<1>1. ASSUME ExportInv
      PROVE  ExportTypeOK
  <2>1. /\ reader \in Reader /\ query \in Query /\ out \in Seq(Key) /\ limit \in Nat
        /\ Asks(reader, query) /\ Len(out) + reader.remaining <= limit
    BY <1>1, ExportAssumption DEF ExportInv, ExportTypes, StreamInv
  <2>2. /\ reader.remaining \in Nat /\ reader.index \in Nat /\ Len(reader.batch) \in Nat
        /\ query.take \in Nat /\ query.state \in {"none", "running", "answered", "failed"}
        /\ Len(out) \in Nat /\ BatchSize \in Nat
    BY <2>1, ExportAssumption DEF Reader, Query
  <2>3. reader.remaining \in 0 .. limit
    BY <2>1, <2>2
  <2>4. /\ reader.index \in 0 .. BatchSize /\ Len(reader.batch) <= BatchSize
        /\ query.take \in 0 .. BatchSize
    BY <2>1, <2>2 DEF Asks
  <2> QED
    BY <1>1, <2>2, <2>3, <2>4 DEF ExportInv, ExportTypes, ExportTypeOK
<1> QED
  BY <1>1, ListsExport, PTL

\* createExportBatchReader and the query it primes: what is exported is in the order of the
\* list and never more than the limit, however the claims change between the batches.
THEOREM ListsExportedInOrder == Spec => []ExportedInOrder
<1>1. ASSUME ExportInv
      PROVE  ExportedInOrder
  <2>1. /\ out \in Seq(Key) /\ reader.remaining \in Nat /\ limit \in Nat
        /\ InOrder(out) /\ Len(out) + reader.remaining <= limit
    BY <1>1, ExportAssumption DEF ExportInv, ExportTypes, StreamInv, Flows, Reader
  <2>2. Len(out) \in Nat /\ DOMAIN out = 1 .. Len(out)
    BY <2>1
  <2>3. view # "export" => Len(out) = 0
    BY <1>1 DEF ExportInv, PhaseInv
  <2>4. view = "export" => \A k, l : Above(k, l) => Before(k, l)
    BY DEF Before
  <2>5. \A i, j \in DOMAIN out : i < j => Before(out[i], out[j])
    BY <2>1, <2>2, <2>3, <2>4 DEF InOrder
  <2> QED
    BY <2>1, <2>2, <2>5 DEF ExportedInOrder
<1> QED
  BY <1>1, ListsExport, PTL

\* A claim that matched all the time is exported unless the limit was reached before it: the
\* batches, each asked for while the one before it is handed out, leave no gap.
THEOREM ListsExportIsComplete == Spec => []ExportIsComplete
<1>1. ASSUME ExportInv, NEW c \in steady,
             (pc = "done" /\ Len(out) < limit) \/ (out # <<>> /\ ~Before(Last(out), SortKey(c)))
      PROVE  SortKey(c) \in ToSet(out)
  <2> DEFINE k == SortKey(c)
  <2>1. /\ RowsInv /\ rows \in [Claim -> Row] /\ c \in Claim /\ reader \in Reader /\ query \in Query
        /\ out \in Seq(Key) /\ limit \in Nat /\ Flows(reader, query, out)
        /\ Reached(k, reader, query, out)
    BY <1>1, ExportAssumption
       DEF ExportInv, ExportTypes, StreamInv, SteadyInv, RowsInv
  <2>2. k \in Key
    BY <2>1, KeysAreFinite
  <2>3. view = "export" /\ pc \notin {"asked", "audited"}
    BY <1>1 DEF ExportInv, PhaseInv
  <2>4. /\ Len(out) \in Nat /\ reader.remaining \in Nat /\ reader.index \in Nat
        /\ Len(reader.batch) \in Nat /\ reader.cursor \in {NoCursor} \cup Key
        /\ \A i \in 1 .. Len(out) : out[i] \in Key
    BY <2>1 DEF Reader
  <2>5. \A l : Before(l, k) <=> Above(l, k)
    BY <2>3 DEF Before
  <2> HIDE DEF k
  <2>6. \E i \in 1 .. Len(out) : out[i] = k
    <3>1. CASE pc = "done" /\ Len(out) < limit
      <4>1. Len(out) + reader.remaining = limit
        BY <1>1, <3>1 DEF ExportInv, StreamInv
      <4>2. reader.remaining # 0
        BY <2>1, <2>4, <3>1, <4>1
      <4>3. reader.index = Len(reader.batch) /\ ~reader.more
        BY <1>1, <3>1, <4>2 DEF ExportInv, StreamInv
      <4>4. ~\E i \in 1 .. Len(reader.batch) : i > reader.index /\ reader.batch[i] = k
        BY <2>4, <4>3
      <4> QED
        BY <2>1, <4>3, <4>4 DEF Reached
    <3>2. CASE out # <<>> /\ ~Before(Last(out), k)
      <4> DEFINE l == out[Len(out)]
      <4>1. Len(out) \in 1 .. Len(out) /\ l \in Key /\ ~Above(l, k)
        <5>1. Len(out) # 0
          BY <2>1, <3>2
        <5>2. Len(out) \in 1 .. Len(out)
          BY <2>4, <5>1
        <5>3. ~Above(l, k)
          BY <2>5, <3>2 DEF Last
        <5> QED
          BY <2>4, <5>2, <5>3
      <4> HIDE DEF l
      <4>2. ~\E i \in 1 .. Len(reader.batch) : i > reader.index /\ reader.batch[i] = k
        BY <2>1, <4>1 DEF Flows, l
      <4>3. ~After(k, reader.cursor)
        <5>1. ~After(l, reader.cursor)
          BY <2>1, <4>1 DEF Flows, l
        <5>2. reader.cursor \in Key /\ reader.cursor # NoCursor /\ ~Above(reader.cursor, l)
          BY <2>4, <5>1 DEF After
        <5>3. l = reader.cursor \/ Above(l, reader.cursor)
          BY <4>1, <5>2, AboveIsOrder
        <5>4. ~Above(reader.cursor, k)
          BY <2>2, <4>1, <5>2, <5>3, AboveIsOrder
        <5> QED
          BY <5>2, <5>4 DEF After
      <4> QED
        BY <2>1, <4>2, <4>3 DEF Reached
    <3> QED
      BY <1>1, <3>1, <3>2 DEF k
  <2>7. DOMAIN out = 1 .. Len(out)
    BY <2>1
  <2> QED
    BY <2>6, <2>7 DEF ToSet, k
<1>2. ExportInv => ExportIsComplete
  BY <1>1 DEF ExportIsComplete
<1> QED
  BY <1>2, ListsExport, PTL
=============================================================================
