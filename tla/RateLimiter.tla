---------------------------- MODULE RateLimiter ----------------------------
(***************************************************************************)
(* The rate limit of one key (a client address and an e-mail address that  *)
(* tries to log in): a bucket in the database with a fixed window, or a    *)
(* sliding window in the memory of the process.                            *)
(*                                                                         *)
(* A check of the bucket reads the clock first and runs one upsert later:  *)
(* checks of concurrent requests reach the database in any order, with     *)
(* clocks that may lie before the window that they find.                   *)
(***************************************************************************)
EXTENDS Integers, Sequences, FiniteSets

CONSTANTS Limit,     \* input.limit
          Window     \* input.windowMs

ASSUME LimitAssumption == Limit \in Nat \ {0} /\ Window \in Nat \ {0}

VARIABLES
    clock,      \* the time
    storage,    \* CLAIMFLOW_RATE_LIMIT_STORAGE
    bucket,     \* the RateLimitBucket row of the key; its count is 0 while there is none
    attempts,   \* the attempts that the process remembers, oldest first
    checks      \* the decisions made so far, in the order of the upserts

limiterVars == <<storage, bucket, attempts, checks>>

Decision == [at : Int, allowed : BOOLEAN, resetAt : Int]

LimiterInit ==
    /\ clock = 0
    /\ storage \in {"database", "memory"}
    /\ bucket = [count |-> 0, windowStartAt |-> 0, expiresAt |-> 0]
    /\ attempts = << >>
    /\ checks = << >>

\* Mutant: a window that ends at this very moment still counts.
OverLate(now) == bucket.count = 0 \/ bucket.windowStartAt < now - Window

\* The upsert inserts the row, or finds that its window is over.
Over(now) == bucket.count = 0 \/ bucket.windowStartAt <= now - Window

\* Mutant: the counter restarts, the window does not.
CountedInOldWindow(now) ==
    IF bucket.count = 0 THEN [count |-> 1, windowStartAt |-> now, expiresAt |-> now + Window]
    ELSE [bucket EXCEPT !.count = IF Over(now) THEN 1 ELSE @ + 1]

\* The row after the upsert.  Refused checks are counted like admitted ones.
Counted(now) ==
    IF Over(now) THEN [count |-> 1, windowStartAt |-> now, expiresAt |-> now + Window]
    ELSE [bucket EXCEPT !.count = @ + 1]

Decide(now, allowed, resetAt) ==
    checks' = Append(checks, [at |-> now, allowed |-> allowed, resetAt |-> resetAt])

\* DatabaseFixedWindowRateLimiter.check
FixedWindowCheck(now) ==
    /\ bucket' = Counted(now)
    /\ Decide(now, bucket'.count <= Limit, bucket'.expiresAt)
    /\ UNCHANGED attempts

Full(recent) == Len(recent) >= Limit

\* The attempts are in the order of time, so those of the last Window are a tail.
Recent(now) ==
    LET old == {i \in DOMAIN attempts : attempts[i] <= now - Window}
    IN  SubSeq(attempts, Cardinality(old) + 1, Len(attempts))

\* InMemorySlidingWindowRateLimiter.check
SlidingWindowCheck(now) ==
    LET recent == Recent(now) IN
    /\ attempts' = IF Full(recent) THEN recent ELSE Append(recent, now)
    /\ Decide(now, ~Full(recent), attempts'[1] + Window)
    /\ UNCHANGED bucket

\* A check that read the clock at time now reaches its storage.
Check(now) ==
    /\ IF storage = "database" THEN FixedWindowCheck(now) ELSE SlidingWindowCheck(clock)
    /\ UNCHANGED storage

Admitted(i, j) == {k \in i .. j : checks[k].allowed}

-----------------------------------------------------------------------------
LimiterTypeOK ==
    /\ clock \in Nat
    /\ storage \in {"database", "memory"}
    /\ bucket \in [count : Nat, windowStartAt : Nat, expiresAt : Nat]
    /\ attempts \in Seq(Nat) /\ Len(attempts) <= Limit
    /\ checks \in Seq(Decision)

\* The limit is kept whatever the order in which concurrent checks reach the
\* storage: a window of the bucket admits at most Limit checks and windows do not
\* overlap; in memory any Window of time admits at most Limit (rate-limit.ts,
\* the CASE of the upsert and the filter of recent attempts).
LimitHolds ==
    \A i \in DOMAIN checks :
        IF storage = "database"
        THEN /\ Cardinality({k \in Admitted(1, Len(checks)) :
                                checks[k].resetAt = checks[i].resetAt}) <= Limit
             /\ \A j \in DOMAIN checks :
                    checks[i].resetAt < checks[j].resetAt
                        => checks[i].resetAt <= checks[j].resetAt - Window
        ELSE Cardinality({k \in Admitted(1, i) : checks[k].at > checks[i].at - Window}) <= Limit

\* A client that waits as it was told (retry-after, x-ratelimit-reset) is let in,
\* unless another check was admitted in the meantime: nobody is refused on account
\* of a window that is over, and refused checks do not prolong it.
RetryAfterHelps ==
    \A i, j \in DOMAIN checks :
        i < j /\ ~checks[i].allowed /\ ~checks[j].allowed /\ checks[j].at >= checks[i].resetAt
            => Admitted(i, j) # {}
=============================================================================
