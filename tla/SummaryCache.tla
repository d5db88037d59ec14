---------------------------- MODULE SummaryCache ----------------------------
(***************************************************************************)
(* The summaries that dashboards and health checks show: the counters of   *)
(* ClaimSummary behind caches whose key contains a window of five seconds  *)
(* and which web processes revalidate after they have changed a claim      *)
(* (workers do not).  A load reads the counters some time after its key    *)
(* was computed, and stores what it read some time after that.             *)
(***************************************************************************)
EXTENDS ClaimSummary

CONSTANTS Reader,       \* requests that show a summary
          View,         \* the organizations whose summary is looked at, and AllOrgs
          AllOrgs,      \* the health snapshot, which adds up all organizations
          NoValue

ASSUME ViewAssumption == AllOrgs \notin Org /\ View \subseteq Org \cup {AllOrgs}

VARIABLES
    entry,      \* what is cached for a view under the key of the current window
    load,       \* what each reader is loading
    seen        \* history: what a view showed since it was first asked for in this window
                \* and, if nothing was read by then, since it was last revalidated

cacheVars == <<entry, load, seen>>
allVars == <<vars, cacheVars>>

NoLoad == [view |-> NoValue, value |-> NoValue, current |-> FALSE]

\* loadPrecomputedClaimStatusSummary; sums over no organization are zero.
ValueOf(v) ==
    IF v \in Org THEN Shown(v)
    ELSE [total |-> SumFunction([o \in Org |-> Shown(o).total]),
          by |-> [st \in Status |-> SumFunction([o \in Org |-> Shown(o).by[st]])]]

CacheInit ==
    /\ Init
    /\ entry = [v \in View |-> NoValue]
    /\ load = [r \in Reader |-> NoLoad]
    /\ seen = [v \in View |-> {}]

Asked(v) == entry[v] # NoValue \/ \E r \in Reader : load[r].view = v /\ load[r].current

\* What a step adds to the history, which is kept for as long as anyone may look at it.
Remember(history) ==
    seen' = [v \in View |-> IF Asked(v)' THEN history[v] \cup {ValueOf(v)'} ELSE {}]

\* A request computes its key and does not find it in the cache.
Miss(r, v) ==
    /\ stage = "live"
    /\ load[r] = NoLoad /\ entry[v] = NoValue
    /\ load' = [load EXCEPT ![r] = [view |-> v, value |-> NoValue, current |-> TRUE]]
    /\ UNCHANGED <<vars, entry>>
    /\ Remember(seen)

Load(r) ==
    /\ load[r] # NoLoad /\ load[r].value = NoValue
    /\ load' = [load EXCEPT ![r].value = ValueOf(load[r].view)]
    /\ UNCHANGED <<vars, entry, seen>>

\* Only who asks in the same window finds what is stored under a key.
Stored(r, v) == load[r].view = v /\ load[r].current

Store(r) ==
    /\ load[r].value # NoValue
    /\ entry' = [v \in View |-> IF Stored(r, v) THEN load[r].value ELSE entry[v]]
    /\ load' = [load EXCEPT ![r] = NoLoad]
    /\ UNCHANGED vars
    /\ Remember(seen)

\* A query throws, and nothing is cached.
LoadFails(r) ==
    /\ load[r] # NoLoad /\ load[r].value = NoValue
    /\ load' = [load EXCEPT ![r] = NoLoad]
    /\ UNCHANGED <<vars, entry>>
    /\ Remember(seen)

NoHistory == [v \in View |-> {}]

\* The next window begins: entries and loads of the previous one are not found any more.
NextWindow ==
    /\ stage = "live"
    /\ entry' = [v \in View |-> NoValue]
    /\ load' = [r \in Reader |-> [load[r] EXCEPT !.current = FALSE]]
    /\ UNCHANGED vars
    /\ Remember(NoHistory)

\* Mutant: the health snapshot keeps its tag.
RevalidatedOf(o) == View \cap {o}

\* revalidateClaimsOperationsCaches
Revalidated(o) == View \cap {o, AllOrgs}

HasRead(v) == \E r \in Reader : load[r].view = v /\ load[r].current /\ load[r].value # NoValue

\* A web process has committed a change to a claim of the organization (which need not
\* have changed a counter).
Revalidate(o) ==
    /\ stage = "live"
    /\ entry' = [v \in View |-> IF v \in Revalidated(o) THEN NoValue ELSE entry[v]]
    /\ UNCHANGED <<vars, load>>
    /\ Remember([v \in View |-> IF v \in {o, AllOrgs} /\ ~HasRead(v) THEN {} ELSE seen[v]])

\* The counters change under the caches.
CountersChange ==
    /\ Next
    /\ UNCHANGED <<entry, load>>
    /\ Remember(seen)

CacheNext ==
    \/ CountersChange
    \/ \E r \in Reader : (\E v \in View : Miss(r, v)) \/ Load(r) \/ Store(r) \/ LoadFails(r)
    \/ NextWindow
    \/ \E o \in Org : Revalidate(o)

CacheSpec == CacheInit /\ [][CacheNext]_allVars

-----------------------------------------------------------------------------

AnyValue == [total : Nat, by : [Status -> Int]]

CacheTypeOK ==
    /\ TypeOK
    /\ entry \in [View -> AnyValue \cup {NoValue}]
    /\ load \in [Reader -> [view : View \cup {NoValue}, value : AnyValue \cup {NoValue},
                            current : BOOLEAN]]
    /\ DOMAIN seen = View /\ \A v \in View : \A value \in seen[v] : value \in AnyValue

\* Whoever finds a summary in the cache is shown counters that were true within the same
\* five seconds, and not those from before the last change by a web process that has
\* finished, unless they were just being loaded.
CacheIsRecent == \A v \in View : entry[v] # NoValue => entry[v] \in seen[v]
=============================================================================
