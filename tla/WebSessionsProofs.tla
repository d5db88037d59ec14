-------------------------- MODULE WebSessionsProofs --------------------------
(***************************************************************************)
(* Safety of RateLimiter and WebSessions for any limit and window, any     *)
(* times to live, organizations, roles, requests and sessions.             *)
(***************************************************************************)
EXTENDS WebSessions, FiniteSetTheorems, SequenceTheorems, TLAPS

-----------------------------------------------------------------------------
(* The rate limit in the database.                                         *)

\* The checks that were admitted until a window ends.
Until(cs, end) == {k \in 1 .. Len(cs) : cs[k].allowed /\ cs[k].resetAt = end}

LEMMA AppendDecision ==
    ASSUME NEW cs \in Seq(Decision), NEW d \in Decision
    PROVE  /\ Append(cs, d) \in Seq(Decision)
           /\ Len(cs) \in Nat /\ Len(Append(cs, d)) = Len(cs) + 1
           /\ Append(cs, d)[Len(cs) + 1] = d
           /\ \A k \in 1 .. Len(cs) : Append(cs, d)[k] = cs[k] /\ cs[k] \in Decision
OBVIOUS

LEMMA UntilAppend ==
    ASSUME NEW cs \in Seq(Decision), NEW d \in Decision, NEW end
    PROVE  /\ Cardinality(Until(cs, end)) \in Nat
           /\ Cardinality(Until(Append(cs, d), end)) =
                  IF d.allowed /\ d.resetAt = end THEN Cardinality(Until(cs, end)) + 1
                  ELSE Cardinality(Until(cs, end))
<1> DEFINE n == Len(cs)
           more == Append(cs, d)
<1>1. /\ n \in Nat /\ Len(more) = n + 1 /\ more[n + 1] = d
      /\ \A k \in 1 .. n : more[k] = cs[k]
  BY AppendDecision
<1>2. IsFiniteSet(Until(cs, end)) /\ Until(cs, end) \subseteq 1 .. n
  <2>1. IsFiniteSet(1 .. n)
    BY <1>1, FS_Interval
  <2> QED
    BY <2>1, FS_Subset DEF Until
<1>3. Until(more, end) = IF d.allowed /\ d.resetAt = end THEN Until(cs, end) \cup {n + 1}
                         ELSE Until(cs, end)
  <2> HIDE DEF more
  <2>1. 1 .. (n + 1) = (1 .. n) \cup {n + 1}
    BY <1>1
  <2> HIDE DEF n
  <2>2. \A k : k \in Until(more, end) <=>
            \/ k \in Until(cs, end)
            \/ k = n + 1 /\ d.allowed /\ d.resetAt = end
    BY <1>1, <2>1 DEF Until, n
  <2> QED
    BY <2>2
<1>4. n + 1 \notin Until(cs, end)
  BY <1>1, <1>2
<1>5. Cardinality(Until(cs, end)) \in Nat
  BY <1>2, FS_CardinalityType
<1>6. Cardinality(Until(cs, end) \cup {n + 1}) = Cardinality(Until(cs, end)) + 1
  BY <1>2, <1>4, FS_AddElement
<1> HIDE DEF n, more
<1>7. Cardinality(Until(more, end)) =
          IF d.allowed /\ d.resetAt = end THEN Cardinality(Until(cs, end)) + 1
          ELSE Cardinality(Until(cs, end))
  BY <1>3, <1>6
<1> QED
  BY <1>5, <1>7 DEF more

\* Refused and nobody admitted since.
Waiting(cs, i) == ~cs[i].allowed /\ \A k \in i .. Len(cs) : ~cs[k].allowed

\* Windows of the bucket do not overlap; it counts at least those it has admitted, and
\* as long as it refuses everyone it stays in the window whose end it has announced.
BucketInv ==
    /\ bucket.count = 0 => checks = << >>
    /\ bucket.count # 0 => bucket.expiresAt = bucket.windowStartAt + Window
    /\ Cardinality(Until(checks, bucket.expiresAt)) <= bucket.count
    /\ \A k \in 1 .. Len(checks) :
           /\ checks[k].resetAt = bucket.expiresAt \/ checks[k].resetAt <= bucket.expiresAt - Window
           /\ Cardinality(Until(checks, checks[k].resetAt)) <= Limit
           /\ Waiting(checks, k) => checks[k].resetAt = bucket.expiresAt
    /\ \A j, k \in 1 .. Len(checks) :
           /\ checks[j].resetAt < checks[k].resetAt
                  => checks[j].resetAt <= checks[k].resetAt - Window
           /\ j < k /\ ~checks[j].allowed /\ ~checks[k].allowed
              /\ checks[k].at >= checks[j].resetAt
                  => \E i \in j .. k : checks[i].allowed

\* The bucket after the upsert, in a new window or in the one before.
LEMMA CountedCases ==
    ASSUME LimiterTypeOK, BucketInv, NEW now \in Nat
    PROVE  LET after == Counted(now) IN
           /\ after.count \in Nat \ {0} /\ after.windowStartAt \in Nat /\ after.expiresAt \in Nat
           /\ after \in [count : Nat, windowStartAt : Nat, expiresAt : Nat]
           /\ after.expiresAt = after.windowStartAt + Window
           /\ \/ /\ after.count = 1 /\ after.expiresAt = now + Window
                 /\ bucket.count = 0 \/ bucket.expiresAt <= now
              \/ /\ after.count = bucket.count + 1 /\ after.expiresAt = bucket.expiresAt
                 /\ bucket.count # 0 /\ bucket.expiresAt > now
<1>1. bucket \in [count : Nat, windowStartAt : Nat, expiresAt : Nat]
  BY DEF LimiterTypeOK
<1>2. CASE Over(now)
  <2>1. Counted(now) = [count |-> 1, windowStartAt |-> now, expiresAt |-> now + Window]
    BY <1>2 DEF Counted
  <2>2. bucket.count = 0 \/ bucket.windowStartAt <= now - Window
    BY <1>2 DEF Over
  <2>3. bucket.count = 0 \/ bucket.expiresAt <= now
    BY <1>1, <2>2, LimitAssumption DEF BucketInv
  <2> QED
    BY <2>1, <2>3, LimitAssumption
<1>3. CASE ~Over(now)
  <2>1. Counted(now) = [bucket EXCEPT !.count = @ + 1]
    BY <1>3 DEF Counted
  <2>2. bucket.count # 0 /\ bucket.windowStartAt > now - Window
    BY <1>1, <1>3, LimitAssumption DEF Over
  <2>3. bucket.expiresAt = bucket.windowStartAt + Window
    BY <2>2 DEF BucketInv
  <2> QED
    BY <1>1, <2>1, <2>2, <2>3, LimitAssumption
<1> QED
  BY <1>2, <1>3

LEMMA BucketStep ==
    ASSUME LimiterTypeOK, BucketInv, NEW now \in Nat, FixedWindowCheck(now)
    PROVE  /\ bucket' \in [count : Nat, windowStartAt : Nat, expiresAt : Nat]
           /\ checks' \in Seq(Decision) /\ BucketInv'
           /\ Len(checks') = Len(checks) + 1
<1> DEFINE n == Len(checks)
           d == [at |-> now, allowed |-> bucket'.count <= Limit, resetAt |-> bucket'.expiresAt]
<1>1. bucket' = Counted(now) /\ checks' = Append(checks, d)
  BY DEF FixedWindowCheck, Decide
<1>2. /\ bucket'.count \in Nat \ {0} /\ bucket'.expiresAt \in Nat
      /\ bucket' \in [count : Nat, windowStartAt : Nat, expiresAt : Nat]
      /\ bucket'.expiresAt = bucket'.windowStartAt + Window
      /\ \/ /\ bucket'.count = 1 /\ bucket'.expiresAt = now + Window
            /\ bucket.count = 0 \/ bucket.expiresAt <= now
         \/ /\ bucket'.count = bucket.count + 1 /\ bucket'.expiresAt = bucket.expiresAt
            /\ bucket.count # 0 /\ bucket.expiresAt > now
  BY <1>1, CountedCases
<1>3. d \in Decision
  BY <1>2, LimitAssumption DEF Decision
<1>4. /\ d.at = now /\ d.resetAt = bucket'.expiresAt
      /\ d.allowed <=> bucket'.count <= Limit
  OBVIOUS
<1> HIDE DEF d
<1>5. checks \in Seq(Decision) /\ bucket.count \in Nat /\ bucket.expiresAt \in Nat
  BY DEF LimiterTypeOK
<1>6. /\ checks' \in Seq(Decision) /\ n \in Nat /\ Len(checks') = n + 1 /\ checks'[n + 1] = d
      /\ \A k \in 1 .. n : checks'[k] = checks[k] /\ checks[k] \in Decision
  BY <1>1, <1>3, <1>5, AppendDecision
<1>7. \A k \in 1 .. n : /\ checks[k].resetAt \in Int /\ checks[k].at \in Int
                        /\ checks[k].allowed \in BOOLEAN
  BY <1>6 DEF Decision
<1>8. \A end : /\ Cardinality(Until(checks, end)) \in Nat
               /\ Cardinality(Until(checks', end)) =
                      IF d.allowed /\ d.resetAt = end THEN Cardinality(Until(checks, end)) + 1
                      ELSE Cardinality(Until(checks, end))
  BY <1>1, <1>3, <1>5, UntilAppend
<1>9. bucket.count = 0 => n = 0
  BY DEF BucketInv
\* A window that begins ends one Window or more after all that were before.
<1>10. \A k \in 1 .. n : \/ checks[k].resetAt = bucket'.expiresAt
                         \/ checks[k].resetAt <= bucket'.expiresAt - Window
  <2> SUFFICES ASSUME NEW k \in 1 .. n
               PROVE  \/ checks[k].resetAt = bucket'.expiresAt
                      \/ checks[k].resetAt <= bucket'.expiresAt - Window
    OBVIOUS
  <2>1. bucket.count # 0
    BY <1>6, <1>9
  <2>2. checks[k].resetAt = bucket.expiresAt \/ checks[k].resetAt <= bucket.expiresAt - Window
    BY DEF BucketInv
  <2> QED
    BY <1>2, <1>5, <1>7, <2>1, <2>2, LimitAssumption
<1>11. ASSUME bucket'.count = 1
       PROVE  \A k \in 1 .. n : checks[k].resetAt # bucket'.expiresAt
  <2> SUFFICES ASSUME NEW k \in 1 .. n PROVE checks[k].resetAt # bucket'.expiresAt
    OBVIOUS
  <2>1. bucket.count # 0
    BY <1>6, <1>9
  <2>2. checks[k].resetAt = bucket.expiresAt \/ checks[k].resetAt <= bucket.expiresAt - Window
    BY DEF BucketInv
  <2> QED
    BY <1>2, <1>5, <1>7, <1>11, <2>1, <2>2, LimitAssumption
<1>12. /\ Cardinality(Until(checks', bucket'.expiresAt)) <= bucket'.count
       /\ Cardinality(Until(checks', bucket'.expiresAt)) <= Limit
  <2>1. CASE bucket'.count = 1
    <3>1. Until(checks, bucket'.expiresAt) = {}
      BY <1>11, <2>1 DEF Until
    <3>2. Cardinality(Until(checks, bucket'.expiresAt)) = 0
      BY <3>1, FS_EmptySet
    <3> QED
      BY <1>4, <1>8, <2>1, <3>2, LimitAssumption
  <2>2. CASE bucket'.count # 1
    <3>1. bucket'.expiresAt = bucket.expiresAt /\ bucket'.count = bucket.count + 1
      BY <1>2, <2>2
    <3> DEFINE admitted == Cardinality(Until(checks, bucket.expiresAt))
    <3>2. admitted \in Nat /\ admitted <= bucket.count
      BY <1>8 DEF BucketInv
    <3>3. admitted <= Limit
      <4>1. CASE Until(checks, bucket.expiresAt) = {}
        BY <4>1, FS_EmptySet, LimitAssumption
      <4>2. CASE Until(checks, bucket.expiresAt) # {}
        <5>1. PICK k \in 1 .. n : checks[k].resetAt = bucket.expiresAt
          BY <4>2 DEF Until
        <5> QED
          BY <5>1 DEF BucketInv
      <4> QED
        BY <4>1, <4>2
    <3>4. Cardinality(Until(checks', bucket.expiresAt)) =
              IF d.allowed THEN admitted + 1 ELSE admitted
      BY <1>4, <1>8, <3>1
    <3> HIDE DEF admitted
    <3> QED
      BY <1>4, <1>5, <3>1, <3>2, <3>3, <3>4, LimitAssumption
  <2> QED
    BY <2>1, <2>2
<1>13. ASSUME NEW k \in 1 .. n, Waiting(checks', k)
       PROVE  Waiting(checks, k) /\ ~d.allowed /\ checks[k].resetAt = bucket'.expiresAt
  <2>1. ~d.allowed /\ ~checks[k].allowed /\ \A i \in k .. n : ~checks[i].allowed
    <3>1. n + 1 \in k .. Len(checks') /\ \A i \in k .. n : i \in k .. Len(checks') /\ i \in 1 .. n
      BY <1>6
    <3> QED
      BY <1>6, <1>13, <3>1 DEF Waiting
  <2>2. checks[k].resetAt = bucket.expiresAt
    BY <2>1 DEF Waiting, BucketInv
  <2>3. bucket'.count # 1
    BY <1>4, <2>1, LimitAssumption
  <2> QED
    BY <1>2, <2>1, <2>2, <2>3 DEF Waiting
<1>14. \A k \in 1 .. (n + 1) :
           /\ checks'[k].resetAt = bucket'.expiresAt
              \/ checks'[k].resetAt <= bucket'.expiresAt - Window
           /\ Cardinality(Until(checks', checks'[k].resetAt)) <= Limit
           /\ Waiting(checks', k) => checks'[k].resetAt = bucket'.expiresAt
  <2> SUFFICES ASSUME NEW k \in 1 .. (n + 1)
               PROVE  /\ checks'[k].resetAt = bucket'.expiresAt
                         \/ checks'[k].resetAt <= bucket'.expiresAt - Window
                      /\ Cardinality(Until(checks', checks'[k].resetAt)) <= Limit
                      /\ Waiting(checks', k) => checks'[k].resetAt = bucket'.expiresAt
    OBVIOUS
  <2>1. CASE k = n + 1
    BY <1>4, <1>6, <1>12, <2>1
  <2>2. CASE k \in 1 .. n /\ checks[k].resetAt = bucket'.expiresAt
    BY <1>6, <1>12, <2>2
  <2>3. CASE k \in 1 .. n /\ checks[k].resetAt # bucket'.expiresAt
    <3>1. Cardinality(Until(checks', checks[k].resetAt)) <= Limit
      BY <1>4, <1>8, <2>3 DEF BucketInv
    <3> QED
      BY <1>6, <1>10, <1>13, <2>3, <3>1
  <2> QED
    BY <1>6, <2>1, <2>2, <2>3
<1>15. ASSUME NEW j \in 1 .. (n + 1), NEW k \in 1 .. (n + 1),
              checks'[j].resetAt < checks'[k].resetAt
       PROVE  checks'[j].resetAt <= checks'[k].resetAt - Window
  <2>1. CASE j \in 1 .. n /\ k \in 1 .. n
    BY <1>6, <1>15, <2>1 DEF BucketInv
  <2>2. CASE j = n + 1
    <3>1. checks'[k].resetAt = bucket'.expiresAt \/ checks'[k].resetAt <= bucket'.expiresAt - Window
      BY <1>14
    <3>2. checks'[k].resetAt \in Int
      BY <1>2, <1>4, <1>6, <1>7
    <3> QED
      BY <1>2, <1>4, <1>6, <1>15, <2>2, <3>1, <3>2, LimitAssumption
  <2>3. CASE j \in 1 .. n /\ k = n + 1
    BY <1>4, <1>6, <1>7, <1>2, <1>10, <1>15, <2>3
  <2> QED
    BY <1>6, <2>1, <2>2, <2>3
<1>16. ASSUME NEW j \in 1 .. (n + 1), NEW k \in 1 .. (n + 1),
              j < k, ~checks'[j].allowed, ~checks'[k].allowed, checks'[k].at >= checks'[j].resetAt
       PROVE  \E i \in j .. k : checks'[i].allowed
  <2>1. CASE k \in 1 .. n
    <3>1. j \in 1 .. n
      BY <1>6, <1>16, <2>1
    <3>2. PICK i \in j .. k : checks[i].allowed
      BY <1>6, <1>16, <2>1, <3>1 DEF BucketInv
    <3>3. i \in 1 .. n
      BY <1>6, <2>1, <3>1
    <3> QED
      BY <1>6, <3>2, <3>3
  <2>2. CASE k = n + 1
    <3>1. j \in 1 .. n
      BY <1>6, <1>16, <2>2
    <3>2. SUFFICES ASSUME \A i \in j .. k : ~checks'[i].allowed PROVE FALSE
      OBVIOUS
    <3>3. Waiting(checks', j)
      BY <1>6, <1>16, <2>2, <3>2 DEF Waiting
    <3>4. ~d.allowed /\ checks[j].resetAt = bucket'.expiresAt
      BY <1>13, <3>1, <3>3
    <3>5. bucket'.count # 1
      BY <1>4, <3>4, LimitAssumption
    <3>6. bucket'.expiresAt > now
      BY <1>2, <3>5
    <3>7. now >= checks[j].resetAt
      BY <1>4, <1>6, <1>16, <2>2, <3>1
    <3> QED
      BY <1>2, <3>4, <3>6, <3>7
  <2> QED
    BY <1>6, <2>1, <2>2
<1>17. BucketInv'
  BY <1>2, <1>6, <1>12, <1>14, <1>15, <1>16 DEF BucketInv
<1> QED
  BY <1>2, <1>6, <1>17

-----------------------------------------------------------------------------
(* The rate limit in memory.                                               *)

Since(cs, i, at) == {k \in 1 .. i : cs[k].allowed /\ cs[k].at > at}

\* The admitted checks of the last Window are remembered, each by an attempt of its own,
\* and as long as everyone is refused the oldest attempt is the one that was announced.
MemoryInv ==
    /\ \A i \in 1 .. Len(attempts) : attempts[i] <= clock
    /\ \A i, j \in 1 .. Len(attempts) : i <= j => attempts[i] <= attempts[j]
    /\ \A k \in 1 .. Len(checks) :
           /\ Cardinality(Since(checks, k, checks[k].at - Window)) <= Limit
           /\ Waiting(checks, k) /\ Len(attempts) >= Limit
                  => attempts[1] + Window = checks[k].resetAt
    /\ \A j, k \in 1 .. Len(checks) :
           j < k /\ ~checks[j].allowed /\ ~checks[k].allowed /\ checks[k].at >= checks[j].resetAt
               => \E i \in j .. k : checks[i].allowed
    /\ \E f \in [1 .. Len(attempts) -> Nat] : \A k \in Since(checks, Len(checks), clock - Window) :
           \E i \in 1 .. Len(attempts) : f[i] = k /\ attempts[i] = checks[k].at

LEMMA CountTo ==
    ASSUME NEW n \in Nat
    PROVE  IsFiniteSet(1 .. n) /\ Cardinality(1 .. n) = n
<1>1. /\ IsFiniteSet(1 .. n) /\ Cardinality(1 .. n) = IF 1 > n THEN 0 ELSE n - 1 + 1
  BY FS_Interval
<1> QED
  BY <1>1

\* What is forgotten is a prefix, and all that is old.
LEMMA RecentTail ==
    ASSUME LimiterTypeOK, NEW now \in Nat,
           \A i, j \in 1 .. Len(attempts) : i <= j => attempts[i] <= attempts[j]
    PROVE  \E d \in 0 .. Len(attempts) :
               /\ Recent(now) \in Seq(Nat) /\ Len(Recent(now)) = Len(attempts) - d
               /\ \A i \in 1 .. Len(attempts) : i > d <=> attempts[i] > now - Window
               /\ \A i \in 1 .. (Len(attempts) - d) : Recent(now)[i] = attempts[i + d]
<1> DEFINE n == Len(attempts)
           old == {i \in DOMAIN attempts : attempts[i] <= now - Window}
           d == Cardinality(old)
<1>1. /\ n \in Nat /\ DOMAIN attempts = 1 .. n /\ \A i \in 1 .. n : attempts[i] \in Nat
      /\ now - Window \in Int
  BY LimitAssumption DEF LimiterTypeOK
<1>2. IsFiniteSet(old) /\ d \in 0 .. n
  <2>1. IsFiniteSet(1 .. n) /\ Cardinality(1 .. n) = n
    BY <1>1, CountTo
  <2>2. old \in SUBSET (1 .. n)
    BY <1>1
  <2> HIDE DEF old
  <2>3. IsFiniteSet(old) /\ Cardinality(old) <= n /\ Cardinality(old) \in Nat
    BY <2>1, <2>2, FS_Subset, FS_CardinalityType
  <2> QED
    BY <1>1, <2>3
<1>3. ASSUME NEW i \in 1 .. n
      PROVE  i > d <=> attempts[i] > now - Window
  <2>1. Cardinality(1 .. i) = i /\ Cardinality(1 .. (i - 1)) = i - 1 /\ IsFiniteSet(1 .. (i - 1))
    BY <1>1, CountTo
  <2>2. CASE i \in old
    <3>1. 1 .. i \in SUBSET old
      BY <1>1, <2>2
    <3> HIDE DEF old
    <3>2. Cardinality(1 .. i) <= Cardinality(old)
      BY <1>2, <3>1, FS_Subset
    <3> QED
      BY <1>1, <1>2, <2>1, <2>2, <3>2 DEF old
  <2>3. CASE i \notin old
    <3>1. old \in SUBSET (1 .. (i - 1))
      BY <1>1, <2>3
    <3> HIDE DEF old
    <3>2. Cardinality(old) <= Cardinality(1 .. (i - 1))
      BY <2>1, <3>1, FS_Subset
    <3> QED
      BY <1>1, <1>2, <2>1, <2>3, <3>2 DEF old
  <2> QED
    BY <2>2, <2>3
<1>4. Recent(now) = SubSeq(attempts, d + 1, n)
  BY DEF Recent
<1> HIDE DEF d, old
<1>5. PICK m \in 0 .. n : m = d
  BY <1>2
<1>6. /\ SubSeq(attempts, m + 1, n) \in Seq(Nat)
      /\ Len(SubSeq(attempts, m + 1, n)) = IF m + 1 <= n THEN n - (m + 1) + 1 ELSE 0
      /\ \A i \in 1 .. (n - (m + 1) + 1) :
             SubSeq(attempts, m + 1, n)[i] = attempts[(m + 1) + i - 1]
  <2>1. /\ m + 1 \in Int /\ n \in Int
        /\ \A i \in (m + 1) .. n : attempts[i] \in Nat
    BY <1>1
  <2> HIDE DEF n
  <2> QED
    BY <2>1, SubSeqProperties
<1> HIDE DEF n
<1>7. /\ Recent(now) \in Seq(Nat) /\ Len(Recent(now)) = n - m
      /\ \A i \in 1 .. (n - m) : Recent(now)[i] = attempts[i + m]
  BY <1>1, <1>4, <1>5, <1>6
<1> QED
  BY <1>3, <1>5, <1>7 DEF n

LEMMA CoveredBound ==
    ASSUME NEW m \in Nat, NEW g, DOMAIN g = 1 .. m, NEW S, \A k \in S : \E i \in 1 .. m : g[i] = k
    PROVE  Cardinality(S) <= m
<1> DEFINE R == {g[i] : i \in 1 .. m}
           h == [i \in 1 .. m |-> g[i]]
<1>1. IsFiniteSet(1 .. m) /\ Cardinality(1 .. m) = m
  BY CountTo
<1>2. h \in Surjection(1 .. m, R)
  BY DEF Surjection
<1>3. S \in SUBSET R
  OBVIOUS
<1> HIDE DEF R, h
<1>4. IsFiniteSet(R) /\ Cardinality(R) <= m
  BY <1>1, <1>2, FS_Surjection
<1>5. /\ Cardinality(S) <= Cardinality(R) /\ Cardinality(S) \in Nat /\ Cardinality(R) \in Nat
  BY <1>3, <1>4, FS_Subset, FS_CardinalityType
<1> QED
  BY <1>4, <1>5

\* The attempts that are remembered afterwards: those of the last Window, and the new one
\* if there is room for it.
KeepsRecent(d, allowed) ==
    /\ attempts' \in Seq(Nat) /\ Len(attempts') \in 1 .. Limit
    /\ Len(attempts') = Len(attempts) - d + (IF allowed THEN 1 ELSE 0)
    /\ \A i \in 1 .. Len(attempts) : i > d <=> attempts[i] > clock - Window
    /\ \A i \in 1 .. (Len(attempts) - d) : attempts'[i] = attempts[i + d]
    /\ allowed => attempts'[Len(attempts')] = clock
    /\ ~allowed => d = 0 /\ Len(attempts') = Len(attempts) /\ Len(attempts) = Limit

LEMMA AttemptsAfter ==
    ASSUME LimiterTypeOK, MemoryInv, SlidingWindowCheck(clock)
    PROVE  \E d \in 0 .. Len(attempts), allowed \in BOOLEAN :
               KeepsRecent(d, allowed) /\ Decide(clock, allowed, attempts'[1] + Window)
<1>1. /\ clock \in Nat /\ Len(attempts) \in Nat /\ Len(attempts) <= Limit
      /\ \A i, j \in 1 .. Len(attempts) : i <= j => attempts[i] <= attempts[j]
  BY DEF LimiterTypeOK, MemoryInv
<1>2. PICK d \in 0 .. Len(attempts) :
          /\ Recent(clock) \in Seq(Nat) /\ Len(Recent(clock)) = Len(attempts) - d
          /\ \A i \in 1 .. Len(attempts) : i > d <=> attempts[i] > clock - Window
          /\ \A i \in 1 .. (Len(attempts) - d) : Recent(clock)[i] = attempts[i + d]
  BY <1>1, RecentTail
<1> DEFINE recent == Recent(clock)
           allowed == ~Full(recent)
<1>3. /\ attempts' = IF Full(recent) THEN recent ELSE Append(recent, clock)
      /\ Decide(clock, allowed, attempts'[1] + Window)
  BY DEF SlidingWindowCheck
<1> HIDE DEF recent
<1>4. CASE Full(recent)
  <2>1. attempts' = recent /\ Len(recent) >= Limit /\ ~allowed
    BY <1>3, <1>4 DEF Full
  <2>2. d = 0 /\ Len(recent) = Limit /\ Len(attempts) = Limit
    BY <1>1, <1>2, <2>1, LimitAssumption DEF recent
  <2> HIDE DEF allowed
  <2>3. allowed = FALSE
    BY <1>4 DEF allowed
  <2>4. KeepsRecent(d, FALSE)
    BY <1>1, <1>2, <2>1, <2>2, LimitAssumption DEF recent, KeepsRecent
  <2>5. Decide(clock, FALSE, attempts'[1] + Window)
    BY <1>3, <2>3
  <2> QED
    BY <1>2, <2>4, <2>5
<1>5. CASE ~Full(recent)
  <2>1. attempts' = Append(recent, clock) /\ allowed
    BY <1>3, <1>5
  <2>2. recent \in Seq(Nat) /\ Len(recent) = Len(attempts) - d /\ ~(Len(recent) >= Limit)
    BY <1>2, <1>5 DEF recent, Full
  <2>3. /\ attempts' \in Seq(Nat) /\ Len(attempts') = Len(attempts) - d + 1
        /\ attempts'[Len(attempts')] = clock
        /\ \A i \in 1 .. (Len(attempts) - d) : attempts'[i] = recent[i]
    BY <1>1, <2>1, <2>2
  <2> HIDE DEF allowed
  <2>4. allowed = TRUE
    BY <1>5 DEF allowed
  <2>5. KeepsRecent(d, TRUE)
    <3>1. Len(attempts') \in 1 .. Limit
      BY <1>1, <1>2, <2>2, <2>3, LimitAssumption
    <3> QED
      BY <1>2, <2>3, <3>1 DEF recent, KeepsRecent
  <2>6. Decide(clock, TRUE, attempts'[1] + Window)
    BY <1>3, <2>4
  <2> QED
    BY <1>2, <2>5, <2>6
<1> QED
  BY <1>4, <1>5

LEMMA MemoryStep ==
    ASSUME LimiterTypeOK, MemoryInv, SlidingWindowCheck(clock), UNCHANGED clock
    PROVE  /\ attempts' \in Seq(Nat) /\ Len(attempts') <= Limit
           /\ checks' \in Seq(Decision) /\ MemoryInv'
           /\ Len(checks') = Len(checks) + 1
<1>1. PICK e \in 0 .. Len(attempts), allowed \in BOOLEAN :
          KeepsRecent(e, allowed) /\ Decide(clock, allowed, attempts'[1] + Window)
  BY AttemptsAfter
<1> DEFINE n == Len(checks)
           m == Len(attempts)
           p == Len(attempts')
           d == [at |-> clock, allowed |-> allowed, resetAt |-> attempts'[1] + Window]
<1>2. /\ clock \in Nat /\ m \in Nat /\ m <= Limit /\ p \in 1 .. Limit
      /\ \A i \in 1 .. m : attempts[i] \in Nat
      /\ \A i \in 1 .. p : attempts'[i] \in Nat
      /\ DOMAIN attempts = 1 .. m /\ DOMAIN attempts' = 1 .. p
      /\ checks \in Seq(Decision)
  <2>1. clock \in Nat /\ attempts \in Seq(Nat) /\ m <= Limit /\ checks \in Seq(Decision)
    BY DEF LimiterTypeOK
  <2>2. attempts' \in Seq(Nat) /\ p \in 1 .. Limit
    BY <1>1 DEF KeepsRecent
  <2>3. m \in Nat /\ DOMAIN attempts = 1 .. m /\ \A i \in 1 .. m : attempts[i] \in Nat
    BY <2>1
  <2>4. DOMAIN attempts' = 1 .. p /\ \A i \in 1 .. p : attempts'[i] \in Nat
    BY <2>2
  <2> QED
    BY <2>1, <2>2, <2>3, <2>4
<1>3. d \in Decision /\ checks' = Append(checks, d)
      /\ d.at = clock /\ d.allowed = allowed /\ d.resetAt = attempts'[1] + Window
  <2>1. attempts'[1] \in Nat /\ attempts'[1] + Window \in Int
    BY <1>2, LimitAssumption
  <2>2. checks' = Append(checks, d)
    BY <1>1 DEF Decide
  <2> QED
    BY <1>2, <2>1, <2>2 DEF Decision
<1> HIDE DEF d
<1>4. /\ checks' \in Seq(Decision) /\ n \in Nat /\ Len(checks') = n + 1 /\ checks'[n + 1] = d
      /\ \A k \in 1 .. n : checks'[k] = checks[k] /\ checks[k] \in Decision
  BY <1>2, <1>3, AppendDecision
<1>5. /\ p = m - e + (IF allowed THEN 1 ELSE 0) /\ e \in 0 .. m
      /\ \A i \in 1 .. m : i > e <=> attempts[i] > clock - Window
      /\ \A i \in 1 .. (m - e) : attempts'[i] = attempts[i + e]
      /\ allowed => attempts'[p] = clock
      /\ ~allowed => e = 0 /\ p = m /\ m = Limit
  BY <1>1 DEF KeepsRecent
<1> HIDE DEF n, m, p
<1>6. /\ \A i \in 1 .. m : attempts[i] <= clock
      /\ \A i, j \in 1 .. m : i <= j => attempts[i] <= attempts[j]
  BY DEF MemoryInv, m
<1>7. \A i \in 1 .. p : attempts'[i] <= clock
  BY <1>2, <1>5, <1>6
<1>8. ASSUME NEW i \in 1 .. p, NEW j \in 1 .. p, i <= j
      PROVE  attempts'[i] <= attempts'[j]
  <2>1. CASE j \in 1 .. (m - e)
    <3>1. i \in 1 .. (m - e) /\ i + e \in 1 .. m /\ j + e \in 1 .. m /\ i + e <= j + e
      BY <1>2, <1>5, <1>8, <2>1
    <3>2. attempts[i + e] <= attempts[j + e]
      BY <1>6, <3>1
    <3> QED
      BY <1>5, <2>1, <3>1, <3>2
  <2>2. CASE j \notin 1 .. (m - e)
    <3>1. allowed /\ j = p
      BY <1>2, <1>5, <2>2
    <3> QED
      BY <1>5, <1>7, <3>1
  <2> QED
    BY <2>1, <2>2
<1>9. PICK f \in [1 .. m -> Nat] : \A k \in Since(checks, n, clock - Window) :
          \E i \in 1 .. m : f[i] = k /\ attempts[i] = checks[k].at
  BY DEF MemoryInv, n, m
<1> DEFINE g == [i \in 1 .. p |-> IF i <= m - e THEN f[i + e] ELSE n + 1]
<1>10. g \in [1 .. p -> Nat]
  <2>1. n + 1 \in Nat
    BY <1>4
  <2>2. ASSUME NEW i \in 1 .. p, i <= m - e
        PROVE  f[i + e] \in Nat
    <3>1. i + e \in 1 .. m
      BY <1>2, <1>5, <2>2
    <3> QED
      BY <1>9, <3>1
  <2> QED
    BY <2>1, <2>2
<1>11. ASSUME NEW k \in Since(checks', n + 1, clock - Window)
       PROVE  \E i \in 1 .. p : g[i] = k /\ attempts'[i] = checks'[k].at
  <2>1. k \in 1 .. (n + 1) /\ checks'[k].allowed /\ checks'[k].at > clock - Window
    BY <1>11 DEF Since
  <2>2. CASE k \in 1 .. n
    <3>1. k \in Since(checks, n, clock - Window)
      BY <1>4, <2>1, <2>2 DEF Since
    <3>2. PICK i \in 1 .. m : f[i] = k /\ attempts[i] = checks[k].at
      BY <1>9, <3>1
    <3>3. i > e
      BY <1>4, <1>5, <2>1, <2>2, <3>2
    <3>4. i - e \in 1 .. (m - e) /\ i - e \in 1 .. p /\ (i - e) + e = i
      BY <1>2, <1>5, <3>3
    <3>5. g[i - e] = k /\ attempts'[i - e] = checks'[k].at
      BY <1>4, <1>5, <2>2, <3>2, <3>4
    <3> QED
      BY <3>4, <3>5
  <2>3. CASE k = n + 1
    <3>1. allowed
      BY <1>3, <1>4, <2>1, <2>3
    <3>2. p \in 1 .. p /\ g[p] = k /\ attempts'[p] = checks'[k].at
      BY <1>2, <1>3, <1>4, <1>5, <2>3, <3>1
    <3> QED
      BY <3>2
  <2> QED
    BY <1>4, <2>1, <2>2, <2>3
<1> HIDE DEF g
<1>12. Cardinality(Since(checks', n + 1, clock - Window)) <= Limit
  <2>1. Cardinality(Since(checks', n + 1, clock - Window)) <= p
    BY <1>2, <1>10, <1>11, CoveredBound
  <2>2. IsFiniteSet(Since(checks', n + 1, clock - Window))
    BY <1>4, CountTo, FS_Subset DEF Since
  <2> QED
    BY <1>2, <2>1, <2>2, FS_CardinalityType, LimitAssumption
<1>13. \A k \in 1 .. n : Since(checks', k, checks'[k].at - Window)
                             = Since(checks, k, checks[k].at - Window)
  BY <1>4 DEF Since
<1>14. ASSUME NEW k \in 1 .. n, Waiting(checks', k)
       PROVE  Waiting(checks, k) /\ ~allowed
  <2>1. n + 1 \in k .. Len(checks') /\ \A i \in k .. n : i \in k .. Len(checks') /\ i \in 1 .. n
    BY <1>4
  <2> QED
    BY <1>3, <1>4, <1>14, <2>1 DEF Waiting, n
<1>15. ~allowed => /\ m >= Limit /\ attempts'[1] = attempts[1]
                   /\ attempts[1] + Window > clock
  BY <1>2, <1>5, LimitAssumption
<1>16. ASSUME NEW k \in 1 .. (n + 1)
       PROVE  /\ Cardinality(Since(checks', k, checks'[k].at - Window)) <= Limit
              /\ Waiting(checks', k) /\ p >= Limit => attempts'[1] + Window = checks'[k].resetAt
  <2>1. CASE k = n + 1
    BY <1>3, <1>4, <1>12, <2>1
  <2>2. CASE k \in 1 .. n
    <3>1. Cardinality(Since(checks, k, checks[k].at - Window)) <= Limit
      BY <2>2 DEF MemoryInv, n
    <3>2. Waiting(checks', k) => attempts[1] + Window = checks[k].resetAt
      BY <1>14, <1>15, <2>2 DEF MemoryInv, n, m
    <3> QED
      BY <1>4, <1>13, <1>14, <1>15, <2>2, <3>1, <3>2
  <2> QED
    BY <1>4, <2>1, <2>2
<1>17. ASSUME NEW j \in 1 .. (n + 1), NEW k \in 1 .. (n + 1),
              j < k, ~checks'[j].allowed, ~checks'[k].allowed, checks'[k].at >= checks'[j].resetAt
       PROVE  \E i \in j .. k : checks'[i].allowed
  <2>1. CASE k \in 1 .. n
    <3>1. j \in 1 .. n
      BY <1>4, <1>17, <2>1
    <3>2. PICK i \in j .. k : checks[i].allowed
      BY <1>4, <1>17, <2>1, <3>1 DEF MemoryInv, n
    <3>3. i \in 1 .. n
      BY <1>4, <2>1, <3>1
    <3> QED
      BY <1>4, <3>2, <3>3
  <2>2. CASE k = n + 1
    <3>1. j \in 1 .. n
      BY <1>4, <1>17, <2>2
    <3>2. SUFFICES ASSUME \A i \in j .. k : ~checks'[i].allowed PROVE FALSE
      OBVIOUS
    <3>3. Waiting(checks', j)
      BY <1>4, <1>17, <2>2, <3>2 DEF Waiting
    <3>4. Waiting(checks, j) /\ ~allowed
      BY <1>14, <3>1, <3>3
    <3>5. attempts[1] + Window = checks[j].resetAt
      BY <1>15, <3>1, <3>4 DEF MemoryInv, n, m
    <3>6. clock >= checks[j].resetAt
      BY <1>3, <1>4, <1>17, <2>2, <3>1
    <3>7. attempts[1] \in Nat
      BY <1>2, <1>15, <3>4, LimitAssumption
    <3> QED
      BY <1>2, <1>15, <3>4, <3>5, <3>6, <3>7, LimitAssumption
  <2> QED
    BY <1>4, <2>1, <2>2
<1>18. \E h \in [1 .. p -> Nat] : \A k \in Since(checks', n + 1, clock - Window) :
           \E i \in 1 .. p : h[i] = k /\ attempts'[i] = checks'[k].at
  BY <1>10, <1>11
<1>19. MemoryInv'
  <2>1. clock' = clock /\ Len(attempts') = p /\ Len(checks') = n + 1
    BY <1>4 DEF p
  <2> QED
    BY <1>4, <1>7, <1>8, <1>16, <1>17, <1>18, <2>1 DEF MemoryInv
<1>20. attempts' \in Seq(Nat)
  BY <1>1 DEF KeepsRecent
<1> QED
  BY <1>2, <1>4, <1>19, <1>20, LimitAssumption DEF p, n

-----------------------------------------------------------------------------
(* The rate limit.                                                         *)

LimiterInv ==
    /\ LimiterTypeOK
    /\ storage = "database" => BucketInv
    /\ storage = "memory" => MemoryInv

LEMMA LimiterStart ==
    ASSUME LimiterInit
    PROVE  LimiterInv
<1>1. /\ clock = 0 /\ storage \in {"database", "memory"} /\ attempts = << >> /\ checks = << >>
      /\ bucket = [count |-> 0, windowStartAt |-> 0, expiresAt |-> 0]
  BY DEF LimiterInit
<1>2. LimiterTypeOK
  BY <1>1, LimitAssumption DEF LimiterTypeOK
<1>3. Len(checks) = 0 /\ Len(attempts) = 0 /\ 1 .. 0 = {}
  BY <1>1
<1>4. BucketInv
  <2>1. Cardinality(Until(checks, bucket.expiresAt)) = 0
    BY <1>3, FS_EmptySet DEF Until
  <2> QED
    BY <1>1, <1>3, <2>1 DEF BucketInv
<1>5. MemoryInv
  <2>1. Since(checks, 0, clock - Window) = {}
    BY <1>3 DEF Since
  <2>2. [i \in 1 .. 0 |-> 0] \in [1 .. 0 -> Nat]
    OBVIOUS
  <2>3. \E f \in [1 .. 0 -> Nat] : \A k \in Since(checks, 0, clock - Window) :
            \E i \in 1 .. 0 : f[i] = k /\ attempts[i] = checks[k].at
    BY <2>1, <2>2
  <2> QED
    BY <1>3, <2>3 DEF MemoryInv
<1> QED
  BY <1>2, <1>4, <1>5 DEF LimiterInv

LEMMA LimiterCheck ==
    ASSUME LimiterInv, NEW now \in Nat, Check(now), UNCHANGED clock
    PROVE  LimiterInv'
<1>1. /\ clock' = clock /\ storage' = storage /\ storage \in {"database", "memory"}
      /\ LimiterTypeOK /\ clock \in Nat
  BY DEF LimiterInv, LimiterTypeOK, Check
<1>2. CASE storage = "database"
  <2>1. FixedWindowCheck(now) /\ BucketInv
    BY <1>2 DEF Check, LimiterInv
  <2>2. /\ bucket' \in [count : Nat, windowStartAt : Nat, expiresAt : Nat]
        /\ checks' \in Seq(Decision) /\ BucketInv'
    BY <1>1, <2>1, BucketStep
  <2>3. attempts' = attempts
    BY <2>1 DEF FixedWindowCheck
  <2> QED
    BY <1>1, <1>2, <2>2, <2>3 DEF LimiterInv, LimiterTypeOK
<1>3. CASE storage = "memory"
  <2>1. SlidingWindowCheck(clock) /\ MemoryInv
    BY <1>3 DEF Check, LimiterInv
  <2>2. /\ attempts' \in Seq(Nat) /\ Len(attempts') <= Limit
        /\ checks' \in Seq(Decision) /\ MemoryInv'
    BY <1>1, <2>1, MemoryStep
  <2>3. bucket' = bucket
    BY <2>1 DEF SlidingWindowCheck
  <2> QED
    BY <1>1, <1>3, <2>2, <2>3 DEF LimiterInv, LimiterTypeOK
<1> QED
  BY <1>1, <1>2, <1>3

LEMMA LimiterTick ==
    ASSUME LimiterInv, UNCHANGED limiterVars, clock' \in {clock, clock + 1}
    PROVE  LimiterInv'
<1>1. /\ storage' = storage /\ bucket' = bucket /\ attempts' = attempts /\ checks' = checks
      /\ LimiterTypeOK /\ clock \in Nat /\ clock' \in Nat /\ clock <= clock'
  BY DEF LimiterInv, LimiterTypeOK, limiterVars
<1>2. LimiterTypeOK'
  BY <1>1 DEF LimiterTypeOK
<1>3. ASSUME BucketInv PROVE BucketInv'
  BY <1>1, <1>3 DEF BucketInv
<1>4. ASSUME MemoryInv PROVE MemoryInv'
  <2> DEFINE m == Len(attempts)
             n == Len(checks)
  <2>1. /\ attempts \in Seq(Nat) /\ checks \in Seq(Decision) /\ n \in Nat
        /\ \A i \in 1 .. m : attempts[i] \in Nat
        /\ \A k \in 1 .. n : checks[k] \in Decision
    BY <1>1 DEF LimiterTypeOK
  <2>2. PICK f \in [1 .. m -> Nat] : \A k \in Since(checks, n, clock - Window) :
            \E i \in 1 .. m : f[i] = k /\ attempts[i] = checks[k].at
    BY <1>4 DEF MemoryInv
  <2> HIDE DEF m, n
  <2>3. \A k \in Since(checks, n, clock' - Window) : k \in Since(checks, n, clock - Window)
    BY <1>1, <2>1, LimitAssumption DEF Since, Decision
  <2>4. \A i \in 1 .. m : attempts[i] <= clock'
    BY <1>1, <1>4, <2>1 DEF MemoryInv, m
  <2>5. \E g \in [1 .. m -> Nat] : \A k \in Since(checks, n, clock' - Window) :
            \E i \in 1 .. m : g[i] = k /\ attempts[i] = checks[k].at
    BY <2>2, <2>3
  <2> QED
    BY <1>1, <1>4, <2>4, <2>5 DEF MemoryInv, m, n
<1> QED
  BY <1>1, <1>2, <1>3, <1>4 DEF LimiterInv

LEMMA LimitIsKept ==
    ASSUME LimiterInv
    PROVE  LimitHolds
<1>1. /\ checks \in Seq(Decision) /\ DOMAIN checks = 1 .. Len(checks) /\ Len(checks) \in Nat
      /\ storage \in {"database", "memory"}
  BY DEF LimiterInv, LimiterTypeOK
<1> SUFFICES ASSUME NEW i \in 1 .. Len(checks)
             PROVE  IF storage = "database"
                    THEN /\ Cardinality({k \in Admitted(1, Len(checks)) :
                                            checks[k].resetAt = checks[i].resetAt}) <= Limit
                         /\ \A j \in 1 .. Len(checks) :
                                checks[i].resetAt < checks[j].resetAt
                                    => checks[i].resetAt <= checks[j].resetAt - Window
                    ELSE Cardinality({k \in Admitted(1, i) :
                                         checks[k].at > checks[i].at - Window}) <= Limit
  BY <1>1 DEF LimitHolds
<1>2. CASE storage = "database"
  <2>1. {k \in Admitted(1, Len(checks)) : checks[k].resetAt = checks[i].resetAt}
            = Until(checks, checks[i].resetAt)
    BY DEF Admitted, Until
  <2> QED
    BY <1>2, <2>1 DEF LimiterInv, BucketInv
<1>3. CASE storage = "memory"
  <2>1. {k \in Admitted(1, i) : checks[k].at > checks[i].at - Window}
            = Since(checks, i, checks[i].at - Window)
    BY DEF Admitted, Since
  <2> QED
    BY <1>3, <2>1 DEF LimiterInv, MemoryInv
<1> QED
  BY <1>1, <1>2, <1>3

LEMMA WaitingHelps ==
    ASSUME LimiterInv
    PROVE  RetryAfterHelps
<1>1. /\ checks \in Seq(Decision) /\ DOMAIN checks = 1 .. Len(checks)
      /\ storage \in {"database", "memory"}
  BY DEF LimiterInv, LimiterTypeOK
<1>2. ASSUME NEW j \in 1 .. Len(checks), NEW k \in 1 .. Len(checks),
             j < k, ~checks[j].allowed, ~checks[k].allowed, checks[k].at >= checks[j].resetAt
      PROVE  Admitted(j, k) # {}
  <2>1. \E i \in j .. k : checks[i].allowed
    <3>1. CASE storage = "database"
      BY <1>2, <3>1 DEF LimiterInv, BucketInv
    <3>2. CASE storage = "memory"
      BY <1>2, <3>2 DEF LimiterInv, MemoryInv
    <3> QED
      BY <1>1, <3>1, <3>2
  <2> QED
    BY <2>1 DEF Admitted
<1> QED
  BY <1>1, <1>2 DEF RetryAfterHelps

-----------------------------------------------------------------------------
(* Sessions and roles.                                                     *)

\* A session whose logout was answered is revoked or over, and its id is not used again.
ClosedOver(table, ids, time) ==
    /\ \A a, b \in table : a.id = b.id => a = b
    /\ \A id \in ids : \E row \in table : row.id = id
    /\ \A row \in table : row.id \in ids => row.revoked \/ Exp(row) <= Second(time)

\* What a request knows: its session is one of the table, and revoked if it was over when
\* the request began; the memberships of now are among those held since then.
Knows(q, table, held) ==
    /\ held \subseteq q.held
    /\ q.step \in {"session", "membership", "served", "revoke"}
           => q.org \in Org /\ \E row \in table : row.id = q.id
    /\ q.step = "session" /\ q.ended => \A row \in table : row.id = q.id => row.revoked
    /\ q.step \in {"membership", "served"} => ~q.ended
    /\ q.step \in {"create", "served"}
           => q.org \in Org /\ q.role \in Role /\ <<q.org, q.role>> \in q.held

AccessInv ==
    /\ LimiterInv
    /\ AccessTypeOK
    /\ ClosedOver(rows, closed, clock)
    /\ \A q \in requests : Knows(q, rows, Held)

LEMMA HeldMemberships ==
    ASSUME membership \in [Org -> Role \cup {"NONE"}]
    PROVE  /\ Held \subseteq Org \X Role
           /\ \A g \in {h[1] : h \in Held} : g \in Org /\ membership[g] \in Role
                                            /\ <<g, membership[g]>> \in Held
           /\ \A g \in Org : membership[g] # "NONE" => <<g, membership[g]>> \in Held
BY DEF Held

\* The token of a row is valid only before the row expires.
LEMMA TokenBeforeRow ==
    ASSUME NEW row \in Row, NEW time \in Nat, Exp(row) > Second(time)
    PROVE  time < row.expiresAt
<1>1. row.expiresAt \in Nat
  BY DEF Row
<1> QED
  BY <1>1 DEF Exp, Second

LEMMA LaterSecond ==
    ASSUME NEW a \in Nat, NEW b \in Nat, a <= b
    PROVE  Second(a) \in Nat /\ Second(b) \in Nat /\ Second(a) <= Second(b)
BY DEF Second

\* A step that changes but the requests and the pending tokens.
LEMMA OnlyRequests ==
    ASSUME AccessInv, UNCHANGED <<clock, limiterVars, password, membership, rows, closed>>,
           pending' \subseteq Nat,
           \A q \in requests' : q \in requests \/ (q \in RequestState /\ Knows(q, rows, Held))
    PROVE  AccessInv'
<1>1. LimiterInv'
  BY LimiterTick DEF AccessInv
<1>2. /\ Held' = Held /\ rows' = rows /\ closed' = closed /\ clock' = clock
      /\ membership' = membership /\ password' = password
  BY DEF Held
<1>3. \A q \in requests' : q \in RequestState /\ Knows(q, rows, Held)
  BY DEF AccessInv, AccessTypeOK
<1>4. AccessTypeOK'
  BY <1>1, <1>2, <1>3 DEF AccessInv, AccessTypeOK, LimiterInv
<1> QED
  BY <1>1, <1>2, <1>3, <1>4 DEF AccessInv

LEMMA AccessStart == Init => AccessInv
<1> SUFFICES ASSUME Init PROVE AccessInv
  OBVIOUS
<1>1. LimiterInv
  BY LimiterStart DEF Init
<1>2. AccessTypeOK
  BY <1>1 DEF Init, AccessTypeOK, LimiterInv
<1> QED
  BY <1>1, <1>2 DEF Init, AccessInv, ClosedOver

LEMMA SignInSteps ==
    ASSUME AccessInv, NEW r \in Request,
           \/ Login(r)
           \/ \E g \in Org : SelectOrganization(r, g)
    PROVE  AccessInv'
<1>1. AccessTypeOK /\ clock \in Nat /\ Held \subseteq Org \X Role
  BY HeldMemberships DEF AccessInv, AccessTypeOK, LimiterTypeOK
<1>2. PICK step \in {"limit", "user"}, org \in Org \cup {"none"} :
          Begin(r, step, "none", org, "NONE", FALSE)
  BY DEF Login, SelectOrganization
<1> DEFINE q == [by |-> r, step |-> step, now |-> clock, id |-> "none", org |-> org,
                 role |-> "NONE", ended |-> FALSE, held |-> Held]
<1>3. q \in RequestState
  BY <1>1 DEF RequestState, Steps
<1>4. requests' = requests \cup {q}
  BY <1>2 DEF Begin
<1>5. Knows(q, rows, Held)
  BY DEF Knows
<1> HIDE DEF q
<1>6. UNCHANGED <<clock, limiterVars, password, membership, rows, pending, closed>>
  BY DEF Login, SelectOrganization
<1>7. pending' \subseteq Nat
  BY <1>1, <1>6 DEF AccessTypeOK
<1> QED
  BY <1>3, <1>4, <1>5, <1>6, <1>7, OnlyRequests

LEMMA LimitStep ==
    ASSUME AccessInv, NEW q \in requests, CheckLoginRateLimit(q)
    PROVE  AccessInv'
<1>1. q \in RequestState /\ Knows(q, rows, Held) /\ AccessTypeOK /\ LimiterInv
  BY DEF AccessInv, AccessTypeOK
<1>2. Check(q.now) /\ q.now \in Nat /\ UNCHANGED clock
  BY <1>1 DEF CheckLoginRateLimit, RequestState
<1>3. LimiterInv'
  BY <1>1, <1>2, LimiterCheck
<1> DEFINE next == [q EXCEPT !.step = "user", !.org = "none", !.role = "NONE"]
<1>4. next \in RequestState /\ next.step = "user" /\ next.held = q.held
  <2>1. "user" \in Steps /\ "none" \in Org \cup {"none"} /\ "NONE" \in Role \cup {"NONE"}
    BY DEF Steps
  <2> QED
    BY <1>1, <2>1 DEF RequestState
<1>5. \A k \in requests' : k \in requests \/ k = next
  BY DEF CheckLoginRateLimit, GoTo, End
<1> HIDE DEF next
<1>6. Knows(next, rows, Held)
  BY <1>1, <1>4 DEF Knows
<1>7. /\ rows' = rows /\ closed' = closed /\ clock' = clock /\ membership' = membership
      /\ password' = password /\ pending' = pending /\ Held' = Held
  BY DEF CheckLoginRateLimit, Held
<1>8. AccessTypeOK'
  BY <1>1, <1>3, <1>4, <1>5, <1>7 DEF AccessTypeOK, LimiterInv
<1> QED
  BY <1>3, <1>5, <1>6, <1>7, <1>8 DEF AccessInv

\* The organization is one that the user is a member of at this moment.
LEMMA SelectionSteps ==
    ASSUME AccessInv, NEW q \in requests, SelectMembership(q) \/ FinalizeSelection(q)
    PROVE  AccessInv'
<1>1. /\ q \in RequestState /\ Knows(q, rows, Held) /\ AccessTypeOK
      /\ membership \in [Org -> Role \cup {"NONE"}]
  BY DEF AccessInv, AccessTypeOK
<1>2. UNCHANGED <<clock, limiterVars, password, membership, rows, closed>>
  BY DEF SelectMembership, FinalizeSelection
<1>3. pending' \subseteq Nat
  <2>1. clock \in Nat /\ PendingTtl \in Nat /\ pending \subseteq Nat
    BY <1>1, SessionAssumption DEF AccessTypeOK, LimiterTypeOK
  <2>2. Second(clock) \in Nat
    BY <2>1, LaterSecond
  <2>3. Second(clock) + PendingTtl \in Nat
    BY <2>1, <2>2
  <2> QED
    BY <2>1, <2>3 DEF SelectMembership, FinalizeSelection
<1>4. \/ End(q)
      \/ \E g \in Org : membership[g] # "NONE" /\ GoTo(q, "create", g, membership[g])
  <2>1. CASE SelectMembership(q)
    <3>1. \A g \in {h[1] : h \in Held} : g \in Org /\ membership[g] \in Role
      BY <1>1, HeldMemberships
    <3> QED
      BY <2>1, <3>1, SessionAssumption DEF SelectMembership
  <2>2. CASE FinalizeSelection(q)
    BY <1>1, <2>2 DEF FinalizeSelection, RequestState
  <2> QED
    BY <2>1, <2>2
<1>5. CASE End(q)
  BY <1>2, <1>3, <1>5, OnlyRequests DEF End
<1>6. ASSUME NEW g \in Org, membership[g] # "NONE", GoTo(q, "create", g, membership[g])
      PROVE  AccessInv'
  <2> DEFINE next == [q EXCEPT !.step = "create", !.org = g, !.role = membership[g]]
  <2>1. membership[g] \in Role /\ <<g, membership[g]>> \in Held
    BY <1>1, <1>6, HeldMemberships
  <2>2. /\ next \in RequestState /\ next.step = "create" /\ next.held = q.held
        /\ next.org = g /\ next.role = membership[g]
    <3>1. "create" \in Steps /\ g \in Org \cup {"none"} /\ membership[g] \in Role \cup {"NONE"}
      BY <2>1 DEF Steps
    <3> QED
      BY <1>1, <3>1 DEF RequestState
  <2>3. \A k \in requests' : k \in requests \/ k = next
    BY <1>6 DEF GoTo
  <2> HIDE DEF next
  <2>4. Knows(next, rows, Held)
    BY <1>1, <2>1, <2>2 DEF Knows
  <2> QED
    BY <1>2, <1>3, <2>2, <2>3, <2>4, OnlyRequests
<1> QED
  BY <1>4, <1>5, <1>6

\* The token is valid; so the session is over only if its row is revoked.
LEMMA VisitStep ==
    ASSUME AccessInv, NEW r \in Request, NEW row \in rows, NEW required \in Role,
           Visit(r, row, required)
    PROVE  AccessInv'
<1>1. /\ AccessTypeOK /\ row \in Row /\ clock \in Nat /\ pending \subseteq Nat
      /\ ClosedOver(rows, closed, clock) /\ Held \subseteq Org \X Role
  BY HeldMemberships DEF AccessInv, AccessTypeOK, LimiterTypeOK
<1>2. /\ UNCHANGED <<clock, limiterVars, password, membership, rows, pending, closed>>
      /\ Exp(row) > Second(clock)
  BY DEF Visit, Verified
<1>3. ~(clock >= row.expiresAt)
  <2>1. clock < row.expiresAt /\ row.expiresAt \in Nat
    BY <1>1, <1>2, TokenBeforeRow DEF Row
  <2> QED
    BY <1>1, <2>1
<1>4. row.id \in closed => row.revoked
  <2>1. Exp(row) \in Nat /\ Second(clock) \in Nat
    BY <1>1, LaterSecond DEF Exp, Row
  <2> QED
    BY <1>1, <1>2, <2>1 DEF ClosedOver
<1> DEFINE over == row.id \in closed \/ clock >= row.expiresAt
           q == [by |-> r, step |-> "session", now |-> clock, id |-> row.id, org |-> row.org,
                 role |-> required, ended |-> over, held |-> Held]
<1>5. over \in BOOLEAN /\ (over => row.revoked)
  BY <1>3, <1>4
<1>6. requests' = requests \cup {q}
  BY DEF Visit, Begin
<1> HIDE DEF over
<1>7. row.id \in Session /\ row.org \in Org
  BY <1>1 DEF Row
<1>8. q \in RequestState
  BY <1>1, <1>5, <1>7 DEF RequestState, Steps
<1>9. Knows(q, rows, Held)
  <2>1. q.ended => \A other \in rows : other.id = q.id => other.revoked
    BY <1>1, <1>5 DEF ClosedOver
  <2> QED
    BY <1>7, <2>1 DEF Knows
<1> HIDE DEF q
<1> QED
  BY <1>1, <1>2, <1>6, <1>8, <1>9, OnlyRequests

LEMMA LogoutStep ==
    ASSUME AccessInv, NEW r \in Request, NEW row \in rows, Logout(r, row)
    PROVE  AccessInv'
<1>1. /\ AccessTypeOK /\ row \in Row /\ clock \in Nat /\ pending \subseteq Nat
      /\ Held \subseteq Org \X Role
  BY HeldMemberships DEF AccessInv, AccessTypeOK, LimiterTypeOK
<1>2. UNCHANGED <<clock, limiterVars, password, membership, rows, pending, closed>>
  BY DEF Logout
<1> DEFINE q == [by |-> r, step |-> "revoke", now |-> clock, id |-> row.id, org |-> row.org,
                 role |-> row.role, ended |-> FALSE, held |-> Held]
<1>3. requests' = requests \cup {q}
  BY DEF Logout, Begin
<1>4. row.id \in Session /\ row.org \in Org /\ row.role \in Role
  BY <1>1 DEF Row
<1>5. q \in RequestState
  BY <1>1, <1>4 DEF RequestState, Steps
<1>6. Knows(q, rows, Held)
  BY <1>4 DEF Knows
<1> HIDE DEF q
<1> QED
  BY <1>1, <1>2, <1>3, <1>5, <1>6, OnlyRequests

LEMMA CreateStep ==
    ASSUME AccessInv, NEW q \in requests, CreateSession(q)
    PROVE  AccessInv'
<1>1. /\ AccessTypeOK /\ q \in RequestState /\ Knows(q, rows, Held) /\ clock \in Nat
      /\ ClosedOver(rows, closed, clock) /\ q.step = "create"
  BY DEF AccessInv, AccessTypeOK, LimiterTypeOK, CreateSession
<1>2. PICK id \in Session \ {row.id : row \in rows} :
          rows' = rows \cup {[id |-> id, org |-> q.org, role |-> q.role,
                              expiresAt |-> clock + 2 * SessionTtl, revoked |-> FALSE]}
  BY DEF CreateSession
<1> DEFINE new == [id |-> id, org |-> q.org, role |-> q.role,
                   expiresAt |-> clock + 2 * SessionTtl, revoked |-> FALSE]
<1>3. new \in Row /\ new.id = id /\ rows' = rows \cup {new}
  <2>1. clock + 2 * SessionTtl \in Nat
    BY <1>1, SessionAssumption
  <2>2. q.org \in Org /\ q.role \in Role
    BY <1>1 DEF Knows
  <2> QED
    BY <1>2, <2>1, <2>2 DEF Row
<1> HIDE DEF new
<1>4. \A row \in rows : row.id # id
  OBVIOUS
<1>5. /\ UNCHANGED <<clock, limiterVars, password, membership, pending, closed>>
      /\ requests' \subseteq requests
  BY DEF CreateSession, End
<1>6. LimiterInv'
  BY <1>5, LimiterTick DEF AccessInv
<1>7. AccessTypeOK'
  BY <1>1, <1>3, <1>5, <1>6 DEF AccessTypeOK, LimiterInv
<1>8. id \notin closed
  BY <1>1, <1>4 DEF ClosedOver
<1>9. ClosedOver(rows', closed', clock')
  <2>1. \A row \in rows' : row \in rows \/ row = new
    BY <1>3
  <2>2. closed' = closed /\ clock' = clock /\ rows \subseteq rows'
    BY <1>3, <1>5
  <2> QED
    BY <1>1, <1>3, <1>4, <1>8, <2>1, <2>2 DEF ClosedOver
<1>10. ASSUME NEW k \in requests'
       PROVE  Knows(k, rows', Held')
  <2>1. Knows(k, rows, Held) /\ Held' = Held
    BY <1>5, <1>10 DEF AccessInv, Held
  <2>2. ASSUME \E row \in rows : row.id = k.id
        PROVE  /\ \E row \in rows' : row.id = k.id
               /\ (\A row \in rows : row.id = k.id => row.revoked)
                      => \A row \in rows' : row.id = k.id => row.revoked
    BY <1>3, <1>4, <2>2
  <2> QED
    BY <2>1, <2>2 DEF Knows
<1> QED
  BY <1>6, <1>7, <1>9, <1>10 DEF AccessInv

\* Neither a session that is over nor a role that is not held gets any further.
LEMMA LookupSteps ==
    ASSUME AccessInv, NEW q \in requests,
           FindSession(q) \/ FindMembership(q) \/ Answer(q)
    PROVE  AccessInv'
<1>1. /\ q \in RequestState /\ Knows(q, rows, Held) /\ AccessTypeOK /\ pending \subseteq Nat
      /\ membership \in [Org -> Role \cup {"NONE"}]
  BY DEF AccessInv, AccessTypeOK
<1>2. UNCHANGED <<clock, limiterVars, password, membership, rows, pending, closed>>
  BY DEF FindSession, FindMembership, Answer
<1>3. ASSUME End(q) PROVE AccessInv'
  BY <1>1, <1>2, <1>3, OnlyRequests DEF End
<1>4. ASSUME q.step = "session", GoTo(q, "membership", q.org, q.role),
             \E row \in rows : row.id = q.id /\ Live(row, q.now)
      PROVE  AccessInv'
  <2> DEFINE next == [q EXCEPT !.step = "membership", !.org = q.org, !.role = q.role]
  <2>1. /\ next \in RequestState /\ next.step = "membership" /\ next.held = q.held
        /\ next.org = q.org /\ next.id = q.id /\ next.ended = q.ended
    BY <1>1 DEF RequestState, Steps
  <2>2. \A k \in requests' : k \in requests \/ k = next
    BY <1>4 DEF GoTo
  <2> HIDE DEF next
  <2>3. ~q.ended
    BY <1>1, <1>4 DEF Knows, Live
  <2>4. Knows(next, rows, Held)
    BY <1>1, <1>4, <2>1, <2>3 DEF Knows
  <2> QED
    BY <1>1, <1>2, <2>1, <2>2, <2>4, OnlyRequests
<1>5. ASSUME q.step = "membership", GoTo(q, "served", q.org, RoleOf(q)), RoleOf(q) # "NONE"
      PROVE  AccessInv'
  <2> DEFINE next == [q EXCEPT !.step = "served", !.org = q.org, !.role = RoleOf(q)]
  <2>1. /\ q.org \in Org /\ RoleOf(q) \in Role /\ <<q.org, RoleOf(q)>> \in q.held
        /\ ~q.ended /\ \E row \in rows : row.id = q.id
    BY <1>1, <1>5, HeldMemberships DEF Knows, RoleOf
  <2>2. /\ next \in RequestState /\ next.step = "served" /\ next.held = q.held
        /\ next.org = q.org /\ next.role = RoleOf(q) /\ next.id = q.id /\ next.ended = q.ended
    BY <1>1, <2>1 DEF RequestState, Steps
  <2>3. \A k \in requests' : k \in requests \/ k = next
    BY <1>5 DEF GoTo
  <2> HIDE DEF next
  <2>4. Knows(next, rows, Held)
    BY <1>1, <2>1, <2>2 DEF Knows
  <2> QED
    BY <1>1, <1>2, <2>2, <2>3, <2>4, OnlyRequests
<1> QED
  BY <1>3, <1>4, <1>5 DEF FindSession, FindMembership, Answer

LEMMA UnverifiedStep ==
    ASSUME AccessInv, NEW row \in rows, LogoutUnverified(row)
    PROVE  AccessInv'
<1>1. /\ AccessTypeOK /\ row \in Row /\ clock \in Nat /\ ClosedOver(rows, closed, clock)
  BY DEF AccessInv, AccessTypeOK, LimiterTypeOK
<1>2. /\ UNCHANGED <<clock, limiterVars, password, membership, rows, pending, requests>>
      /\ closed' = closed \cup {row.id} /\ ~(Exp(row) > Second(clock))
  BY DEF LogoutUnverified, Verified
<1>3. LimiterInv'
  BY <1>2, LimiterTick DEF AccessInv
<1>4. AccessTypeOK'
  BY <1>1, <1>2, <1>3 DEF AccessTypeOK, LimiterInv, Row
<1>5. Exp(row) <= Second(clock)
  <2>1. Exp(row) \in Nat /\ Second(clock) \in Nat
    BY <1>1, LaterSecond DEF Exp, Row
  <2> QED
    BY <1>2, <2>1
<1>6. ClosedOver(rows', closed', clock')
  BY <1>1, <1>2, <1>5 DEF ClosedOver
<1>7. Held' = Held
  BY <1>2 DEF Held
<1> QED
  BY <1>2, <1>3, <1>4, <1>6, <1>7 DEF AccessInv

LEMMA RevokeStep ==
    ASSUME AccessInv, NEW q \in requests, RevokeSession(q)
    PROVE  AccessInv'
<1>1. /\ AccessTypeOK /\ q \in RequestState /\ Knows(q, rows, Held) /\ rows \subseteq Row
      /\ ClosedOver(rows, closed, clock) /\ q.step = "revoke"
  BY DEF AccessInv, AccessTypeOK, RevokeSession
<1>2. /\ UNCHANGED <<clock, limiterVars, password, membership, pending>>
      /\ requests' \subseteq requests /\ closed' = closed \cup {q.id}
      /\ rows' = {IF row.id = q.id THEN [row EXCEPT !.revoked = TRUE] ELSE row : row \in rows}
  BY DEF RevokeSession, End
<1> DEFINE Revoked(row) == IF row.id = q.id THEN [row EXCEPT !.revoked = TRUE] ELSE row
<1>3. \A row \in rows : /\ Revoked(row) \in Row /\ Revoked(row).id = row.id
                        /\ Exp(Revoked(row)) = Exp(row)
                        /\ row.revoked \/ row.id = q.id => Revoked(row).revoked
  BY <1>1 DEF Row, Exp
<1>4. rows' = {Revoked(row) : row \in rows}
  BY <1>2
<1> HIDE DEF Revoked
<1>5. LimiterInv'
  BY <1>2, LimiterTick DEF AccessInv
<1>6. PICK mine \in rows : mine.id = q.id
  BY <1>1 DEF Knows
<1>7. AccessTypeOK'
  <2>1. q.id \in Session
    BY <1>1, <1>6 DEF Row
  <2>2. rows' \subseteq Row
    BY <1>3, <1>4
  <2> QED
    BY <1>1, <1>2, <1>5, <2>1, <2>2 DEF AccessTypeOK, LimiterInv
<1>8. ClosedOver(rows', closed', clock')
  <2>1. \A a, b \in rows' : a.id = b.id => a = b
    BY <1>1, <1>3, <1>4 DEF ClosedOver
  <2>2. \A id \in closed' : \E row \in rows' : row.id = id
    BY <1>1, <1>2, <1>3, <1>4, <1>6 DEF ClosedOver
  <2>3. \A row \in rows' : row.id \in closed' => row.revoked \/ Exp(row) <= Second(clock')
    BY <1>1, <1>2, <1>3, <1>4 DEF ClosedOver
  <2> QED
    BY <2>1, <2>2, <2>3 DEF ClosedOver
<1>9. ASSUME NEW k \in requests'
      PROVE  Knows(k, rows', Held')
  <2>1. Knows(k, rows, Held) /\ Held' = Held
    BY <1>2, <1>9 DEF AccessInv, Held
  <2>2. (\E row \in rows : row.id = k.id) => \E row \in rows' : row.id = k.id
    BY <1>3, <1>4
  <2>3. (\A row \in rows : row.id = k.id => row.revoked)
            => \A row \in rows' : row.id = k.id => row.revoked
    BY <1>3, <1>4
  <2> QED
    BY <2>1, <2>2, <2>3 DEF Knows
<1> QED
  BY <1>5, <1>7, <1>8, <1>9 DEF AccessInv

LEMMA MembershipStep ==
    ASSUME AccessInv, NEW g \in Org, ChangeMembership(g)
    PROVE  AccessInv'
<1>1. /\ AccessTypeOK /\ membership \in [Org -> Role \cup {"NONE"}]
      /\ \A q \in requests : q \in RequestState /\ Knows(q, rows, Held)
  BY DEF AccessInv, AccessTypeOK
<1>2. /\ UNCHANGED <<clock, limiterVars, password, rows, pending, closed>>
      /\ membership' \in [Org -> Role \cup {"NONE"}]
      /\ requests' = {[q EXCEPT !.held = @ \cup Held'] : q \in requests}
  BY <1>1 DEF ChangeMembership
<1>3. Held' \subseteq Org \X Role
  BY <1>2 DEF Held
<1>4. LimiterInv'
  BY <1>2, LimiterTick DEF AccessInv
<1>5. ASSUME NEW k \in requests'
      PROVE  k \in RequestState /\ Knows(k, rows, Held')
  <2>1. PICK q \in requests : k = [q EXCEPT !.held = @ \cup Held']
    BY <1>2
  <2>2. /\ k \in RequestState /\ k.held = q.held \cup Held' /\ k.step = q.step /\ k.id = q.id
        /\ k.org = q.org /\ k.role = q.role /\ k.ended = q.ended
    BY <1>1, <1>3, <2>1 DEF RequestState
  <2>3. Knows(q, rows, Held)
    BY <1>1
  <2> QED
    BY <2>2, <2>3 DEF Knows
<1>6. AccessTypeOK'
  BY <1>1, <1>2, <1>4, <1>5 DEF AccessTypeOK, LimiterInv
<1> QED
  BY <1>2, <1>4, <1>5, <1>6 DEF AccessInv

LEMMA TimeStep ==
    ASSUME AccessInv, Tick
    PROVE  AccessInv'
<1>1. /\ clock \in Nat /\ AccessTypeOK /\ ClosedOver(rows, closed, clock) /\ rows \subseteq Row
  BY DEF AccessInv, AccessTypeOK, LimiterTypeOK
<1>2. UNCHANGED <<limiterVars, password, membership, rows, pending, closed, requests>>
      /\ clock' = clock + 1
  BY DEF Tick
<1>3. LimiterInv'
  BY <1>2, LimiterTick DEF AccessInv
<1>4. AccessTypeOK'
  BY <1>1, <1>2, <1>3 DEF AccessTypeOK, LimiterInv
<1>5. ClosedOver(rows', closed', clock')
  <2>1. Second(clock) \in Nat /\ Second(clock') \in Nat /\ Second(clock) <= Second(clock')
    BY <1>1, <1>2, LaterSecond
  <2>2. \A row \in rows : Exp(row) \in Nat
    BY <1>1, LaterSecond DEF Exp, Row
  <2>3. \A row \in rows : Exp(row) <= Second(clock) => Exp(row) <= Second(clock')
    BY <2>1, <2>2
  <2> QED
    BY <1>1, <1>2, <2>3 DEF ClosedOver
<1>6. Held' = Held
  BY <1>2 DEF Held
<1> QED
  BY <1>2, <1>3, <1>4, <1>5, <1>6 DEF AccessInv

LEMMA AccessStep == AccessInv /\ [Next]_vars => AccessInv'
<1> SUFFICES ASSUME AccessInv, [Next]_vars PROVE AccessInv'
  OBVIOUS
<1>1. ASSUME NEW r \in Request, Login(r) PROVE AccessInv'
  BY <1>1, SignInSteps
<1>2. ASSUME NEW r \in Request, NEW g \in Org, SelectOrganization(r, g) PROVE AccessInv'
  BY <1>2, SignInSteps
<1>3. ASSUME NEW r \in Request, NEW row \in rows, NEW required \in Role, Visit(r, row, required)
      PROVE  AccessInv'
  BY <1>3, VisitStep
<1>4. ASSUME NEW r \in Request, NEW row \in rows, Logout(r, row) PROVE AccessInv'
  BY <1>4, LogoutStep
<1>5. ASSUME NEW row \in rows, LogoutUnverified(row) PROVE AccessInv'
  BY <1>5, UnverifiedStep
<1>6. ASSUME NEW q \in requests, Serve(q) PROVE AccessInv'
  BY <1>6, LimitStep, SelectionSteps, CreateStep, LookupSteps, RevokeStep DEF Serve
<1>7. ASSUME NEW g \in Org, ChangeMembership(g) PROVE AccessInv'
  BY <1>7, MembershipStep
<1>8. CASE Tick
  BY <1>8, TimeStep
<1>9. CASE UNCHANGED vars
  <2>1. /\ UNCHANGED <<clock, limiterVars, password, membership, rows, closed>>
        /\ requests' = requests /\ pending' = pending
    BY <1>9 DEF vars
  <2>2. pending' \subseteq Nat
    BY <2>1 DEF AccessInv, AccessTypeOK
  <2> QED
    BY <2>1, <2>2, OnlyRequests
<1> QED
  BY <1>1, <1>2, <1>3, <1>4, <1>5, <1>6, <1>7, <1>8, <1>9 DEF Next

\* The inductive invariant: what the storages of the rate limit, the session rows and the
\* requests being served say of each other.
THEOREM AccessHolds == Spec => []AccessInv
BY AccessStart, AccessStep, PTL DEF Spec

\* Type correctness of RateLimiter and WebSessions.
THEOREM AccessTypes == Spec => []AccessTypeOK
<1>1. AccessInv => AccessTypeOK
  BY DEF AccessInv
<1> QED
  BY AccessHolds, <1>1, PTL

\* LimitHolds: whatever the order in which concurrent checks reach the storage, a window
\* admits at most Limit of them, and windows of the bucket do not overlap.
THEOREM AccessLimitHolds == Spec => []LimitHolds
<1>1. AccessInv => LimitHolds
  BY LimitIsKept DEF AccessInv
<1> QED
  BY AccessHolds, <1>1, PTL

\* RetryAfterHelps: a client that waits as it was told is admitted, unless another one was
\* admitted in the meantime.
THEOREM AccessRetryAfterHelps == Spec => []RetryAfterHelps
<1>1. AccessInv => RetryAfterHelps
  BY WaitingHelps DEF AccessInv
<1> QED
  BY AccessHolds, <1>1, PTL

\* EndedNotServed: a request that begins when its session is over, by a logout that was
\* answered or by time, is never served.
THEOREM AccessEndedNotServed == Spec => []EndedNotServed
<1>1. AccessInv => EndedNotServed
  BY DEF AccessInv, Knows, EndedNotServed
<1> QED
  BY AccessHolds, <1>1, PTL

\* RolesAreHeld: sessions are created, and requests are served, in a role that the user held
\* in that organization while the request ran.
THEOREM AccessRolesAreHeld == Spec => []RolesAreHeld
<1>1. AccessInv => RolesAreHeld
  BY DEF AccessInv, Knows, RolesAreHeld
<1> QED
  BY AccessHolds, <1>1, PTL
=============================================================================
