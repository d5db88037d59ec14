----------------------------- MODULE ClaimPages -----------------------------
(***************************************************************************)
(* The pages of the dashboard and of the list of error claims in its three *)
(* orders, as someone turns them: each is one query behind the cursor of a *)
(* link of the page before it.                                             *)
(***************************************************************************)
EXTENDS ClaimTable

CONSTANT PageSize

ASSUME PageSizeAssumption == PageSize \in Nat \ {0}

VARIABLES
    page,       \* what is shown: rows and the cursors of its two links
    shown,      \* history: the keys shown since the first page, turning forward
    kept,       \* history: the claims that matched all the time since the first page
    untouched   \* history: those of them that were not written either

browse == <<page, shown, kept, untouched>>

NoPage == [keys |-> <<>>, next |-> NoCursor, prev |-> NoCursor]

PagesInit == page = NoPage /\ shown = <<>> /\ kept = {} /\ untouched = {}

CursorOf(keys, i, given) == IF given /\ keys # <<>> THEN keys[i] ELSE NoCursor

\* Mutant: of a page turned back to, the rows stay in the order of the query.
PageUnreversed(cursor, direction) ==
    LET found == Fetch(cursor, direction, PageSize + 1)
        more == Len(found) > PageSize
        keys == IF more THEN Front(found) ELSE found
    IN  [keys |-> keys,
         next |-> CursorOf(keys, Len(keys), direction = "prev" \/ more),
         prev |-> CursorOf(keys, 1, IF direction = "prev" THEN more ELSE cursor # NoCursor)]

\* The page a query for one row more than it shows is made into: buildErrorClaimsResult,
\* and the end of listDashboardClaimWindow
PageOf(found, cursor, direction) ==
    LET more == Len(found) > PageSize
        slice == IF more THEN Front(found) ELSE found
        keys == IF direction = "prev" THEN Reverse(slice) ELSE slice
    IN  [keys |-> keys,
         next |-> CursorOf(keys, Len(keys), direction = "prev" \/ more),
         prev |-> CursorOf(keys, 1, IF direction = "prev" THEN more ELSE cursor # NoCursor)]

\* listDashboardClaimWindow and listErrorClaims
PageAt(cursor, direction) == PageOf(Fetch(cursor, direction, PageSize + 1), cursor, direction)

OpenList ==
    /\ page = NoPage /\ shown = <<>>
    /\ page' = PageAt(NoCursor, "next")
    /\ shown' = page'.keys
    /\ kept' = {c \in Claim : rows[c].matches}
    /\ untouched' = kept'
    /\ UNCHANGED table

NextPage ==
    /\ page.next # NoCursor
    /\ page' = PageAt(page.next, "next")
    /\ shown' = shown \o page'.keys
    /\ UNCHANGED <<table, kept, untouched>>

\* A write of another process before the last page is turned to.
PagesOutdated ==
    /\ page.next # NoCursor /\ TableNext
    /\ kept' = {c \in kept : rows'[c].matches}
    /\ untouched' = {c \in untouched : rows'[c] = rows[c]}
    /\ UNCHANGED <<page, shown>>

PagesNext == OpenList \/ NextPage \/ PagesOutdated

-----------------------------------------------------------------------------

PagesTypeOK ==
    /\ {page.next, page.prev} \subseteq {NoCursor} \cup Nat \X Nat \X Claim
    /\ Len(page.keys) <= PageSize
    /\ untouched \subseteq kept /\ kept \subseteq Claim

TimesShown(c) == Cardinality({i \in DOMAIN shown : shown[i][3] = c})

\* The last page is the one without a link to a next one.
AtEnd == shown # <<>> /\ page.next = NoCursor

\* In no order does turning pages show a claim twice that nobody wrote meanwhile, and who
\* turns to the last page has seen each of them, whatever happens to the other claims.
UntouchedShownOnce == \A c \in untouched :
    /\ TimesShown(c) <= 1
    /\ AtEnd => TimesShown(c) = 1

\* Pages meet: on the dashboard and in the list of errors by the last update, no claim is
\* on two of them as they are turned, although it changes, leaves and comes back; on the
\* dashboard and in the list by the age of the failure, no claim that matches all the time
\* is between two of them, although it is edited meanwhile.
PagesMeet ==
    /\ view \in {"dashboard", "updated_desc"} => \A c \in Claim : TimesShown(c) <= 1
    /\ view \in {"dashboard", "failure_oldest_first"} /\ AtEnd => \A c \in kept : TimesShown(c) >= 1

\* Turning back shows the page that was left, in the same order and with the same link
\* forward, as long as no claim has changed: for each of the pages of the list.
PagesTurnBack ==
    view # "export" =>
    LET TurnsBack(p) == p.next # NoCursor =>
            LET back == PageAt(PageAt(p.next, "next").prev, "prev")
            IN  back.keys = p.keys /\ back.next = p.next /\ back.prev = p.prev
        first == PageAt(NoCursor, "next")
    IN  TurnsBack(first) /\ (first.next # NoCursor => TurnsBack(PageAt(first.next, "next")))
=============================================================================
