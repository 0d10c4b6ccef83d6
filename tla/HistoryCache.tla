----------------------------- MODULE HistoryCache -----------------------------
(***************************************************************************)
(* The local history of one account in the Python reference                 *)
(* (history_service.py over the operations table of datastore.py).          *)
(*                                                                          *)
(* Horizon numbers the operations of the account 1, 2, ... and serves pages *)
(* after or before a cursor.  A synchronisation fills an empty cache from   *)
(* the head backwards, and a cache that holds something from its newest row *)
(* forwards; in full mode it then walks on backwards from the oldest row.   *)
(* Workers of the terminal and command-line processes run it concurrently   *)
(* on one database; the setting is read anew at every decision, and the     *)
(* screen may change it, also while a worker is under way.                  *)
(***************************************************************************)
EXTENDS Naturals, FiniteSets, FiniteSetsExt

CONSTANTS
    Workers,        \* threads or processes that synchronise
    MaxHead,        \* bound: operations of the account
    Page,           \* operations of a page (SYNC_PAGE_LIMIT)
    CacheLimit,     \* rows of the recent window (history_cache_limit)
    Interrupts,     \* whether a request fails, or a worker ends, between two steps
    ChangesUnderWay \* whether the setting changes while a worker is under way, too

LimitsAreCounts == {MaxHead, Page, CacheLimit} \subseteq Nat \ {0}
\* As 200 and 2000 do; a window that is no multiple would lose rows when the mode changes.
WindowIsPages == CacheLimit % Page = 0
FaultsAreBoolean == {Interrupts, ChangesUnderWay} \subseteq BOOLEAN

VARIABLES
    head,       \* newest operation of the account on the network
    cache,      \* rows of the operations table
    full,       \* keep_full_history
    job         \* worker -> what it is in the middle of

vars == <<head, cache, full, job>>

Operations == 1 .. MaxHead
\* A walk that has no cursor starts at the head.
FromHead == MaxHead + 1
\* A job is at "idle", "fetch", "store", "trim" (one page), "turn" (to the older rows) or "last".
Idle == [at |-> "idle", walk |-> "bootstrap", cursor |-> FromHead, fetched |-> 0,
         records |-> {}, seen |-> 0, steady |-> TRUE]

Init ==
    /\ head \in 0 .. MaxHead
    /\ cache = {}
    /\ full \in BOOLEAN
    /\ job = [w \in Workers |-> Idle]

\* The n newest, or the n oldest, of a set of operations.
Newest(S, n) == {o \in S : Cardinality({x \in S : x > o}) < n}
Oldest(S, n) == {o \in S : Cardinality({x \in S : x < o}) < n}

\* get_operations of the gateway: a page before the cursor, newest first, or after it.
PageOf(walk, cursor) ==
    IF walk = "newer" THEN Oldest({o \in 1 .. head : o > cursor}, Page)
    ELSE Newest({o \in 1 .. head : o < cursor}, Page)

\* The paging token of the last record of a page.
LastToken(walk, records) == IF walk = "newer" THEN Max(records) ELSE Min(records)

\* trim_operations
Trimmed(rows) == Newest(rows, CacheLimit)

Walk(walk, cursor) ==
    [Idle EXCEPT !.at = "fetch", !.walk = walk, !.cursor = cursor]

\* Mutant: every synchronisation starts at the head.
SyncFromHead(w) ==
    /\ job[w].at = "idle"
    /\ job' = [job EXCEPT ![w] = Walk("bootstrap", FromHead)]
    /\ UNCHANGED <<head, cache, full>>

\* sync_recent: an empty cache is filled from the head, another one from its newest row.
SyncRecent(w) ==
    /\ job[w].at = "idle"
    /\ job' = [job EXCEPT ![w] = IF cache = {} THEN Walk("bootstrap", FromHead)
                                 ELSE Walk("newer", Max(cache))]
    /\ UNCHANGED <<head, cache, full>>

\* load_older, in full mode only: one page before the oldest row, or everything from the head.
LoadOlder(w) ==
    /\ job[w].at = "idle" /\ full
    /\ job' = [job EXCEPT ![w] = IF cache = {} THEN Walk("refill", FromHead)
                                 ELSE Walk("older", Min(cache))]
    /\ UNCHANGED <<head, cache, full>>

\* The head of a loop and its request.  The recent window is full, or the page is empty: the
\* walk is over.
Fetch(w) ==
    LET j == job[w]
        enough == j.walk \in {"bootstrap", "refill"} /\ ~full /\ j.fetched >= CacheLimit
        records == PageOf(j.walk, j.cursor)
        seen == IF j.walk = "newer" \/ j.cursor = FromHead THEN head ELSE j.seen
    IN
    /\ j.at = "fetch"
    /\ job' = [job EXCEPT ![w] =
                 IF enough THEN [j EXCEPT !.at = "turn"]
                 ELSE IF records = {} THEN [j EXCEPT !.at = "turn", !.seen = seen]
                 ELSE [j EXCEPT !.at = "store", !.records = records, !.seen = seen]]
    /\ UNCHANGED <<head, cache, full>>

\* save_operations: one transaction of the database.
Store(w) ==
    /\ job[w].at = "store"
    /\ cache' = cache \cup job[w].records
    /\ job' = [job EXCEPT ![w].at = IF job[w].walk = "older" THEN "last" ELSE "trim"]
    /\ UNCHANGED <<head, full>>

\* Mutant: the first page is taken for the whole window.
GoesOnNewer(j) == Cardinality(j.records) = Page /\ j.walk = "newer"

\* Whether the walk goes on after a page: not after a short one.
GoesOn(j) == Cardinality(j.records) = Page

\* Mutant: the cursor stays where it is.
TrimInPlace(w) ==
    LET j == job[w] IN
    /\ j.at = "trim"
    /\ cache' = IF full \/ j.walk = "backfill" THEN cache ELSE Trimmed(cache)
    /\ job' = [job EXCEPT ![w] = IF GoesOn(j) THEN [j EXCEPT !.at = "fetch", !.records = {}]
                                 ELSE [j EXCEPT !.at = "turn", !.records = {}]]
    /\ UNCHANGED <<head, full>>

\* Trimming after a page, except for the backfill, and the cursor of the next one.
Trim(w) ==
    LET j == job[w] IN
    /\ j.at = "trim"
    /\ cache' = IF full \/ j.walk = "backfill" THEN cache ELSE Trimmed(cache)
    /\ job' = [job EXCEPT ![w] =
                 [j EXCEPT !.at = IF GoesOn(j) THEN "fetch" ELSE "turn",
                           !.cursor = IF GoesOn(j) THEN LastToken(j.walk, j.records) ELSE @,
                           !.fetched = Min({@ + Cardinality(j.records), MaxHead}),
                           !.records = {}]]
    /\ UNCHANGED <<head, full>>

\* Mutant: full mode is left to load_older.
TurnLast(w) ==
    /\ job[w].at = "turn"
    /\ job' = [job EXCEPT ![w].at = "last"]
    /\ UNCHANGED <<head, cache, full>>

\* After the newer operations, full mode goes on before the oldest row; with no row left, from
\* the head.
Turn(w) ==
    LET j == job[w]
        walk == IF cache = {} THEN Walk("bootstrap", FromHead) ELSE Walk("backfill", Min(cache))
    IN
    /\ j.at = "turn"
    /\ job' = [job EXCEPT ![w] =
                 IF j.walk = "newer" /\ full
                 THEN [walk EXCEPT !.seen = j.seen, !.steady = j.steady]
                 ELSE [j EXCEPT !.at = "last"]]
    /\ UNCHANGED <<head, cache, full>>

\* The last trimming; load_older ends without one.
Finish(w) ==
    /\ job[w].at = "last"
    /\ cache' = IF full \/ job[w].walk \in {"older", "refill"} THEN cache ELSE Trimmed(cache)
    /\ job' = [job EXCEPT ![w] = Idle]
    /\ UNCHANGED <<head, full>>

\* A request that fails, or the end of the process, leaves what is stored.
Interrupt(w) ==
    /\ Interrupts /\ job[w].at # "idle"
    /\ job' = [job EXCEPT ![w] = Idle]
    /\ UNCHANGED <<head, cache, full>>

\* set_keep_full_history from the settings of the screen.  Bound: at most one change during a
\* synchronisation; one that is taken back between two pages can leave a hole.
SetKeepFullHistory ==
    /\ \A w \in Workers : job[w].steady /\ (ChangesUnderWay \/ job[w].at = "idle")
    /\ full' = ~full
    /\ job' = [w \in Workers |-> [job[w] EXCEPT !.steady = job[w].at = "idle"]]
    /\ UNCHANGED <<head, cache>>

\* The account does something.
Happens ==
    /\ head < MaxHead
    /\ head' = head + 1
    /\ UNCHANGED <<cache, full, job>>

Continue(w) == Fetch(w) \/ Store(w) \/ Trim(w) \/ Turn(w) \/ Finish(w)

Next ==
    \/ \E w \in Workers : SyncRecent(w) \/ LoadOlder(w) \/ Continue(w) \/ Interrupt(w)
    \/ SetKeepFullHistory
    \/ Happens

Spec == Init /\ [][Next]_vars

\* A worker thread that was started is run to its end.
LiveSpec == Spec /\ \A w \in Workers : WF_vars(Continue(w))

----------------------------------------------------------------------------
AtRest == \A w \in Workers : job[w].at = "idle"

Contiguous(S) == \A o \in Operations : o \notin S => ~(\E a, b \in S : a < o /\ o < b)

\* What is shown as the account's recent activity has no holes, with one worker: whatever page a
\* synchronisation is interrupted at, and if the mode changes once during it, the rows are
\* consecutive operations.
NoHoles == Contiguous(cache)

\* sync_recent has come to its last step, under one mode all along.
AtEnd(w) == job[w].at = "last" /\ job[w].walk \notin {"older", "refill"} /\ job[w].steady

\* A synchronisation in full mode that runs to its end leaves every operation there was when it
\* read the head, also after any number of interrupted ones and of changes of the mode.
FullHistoryIsComplete ==
    \A w \in Workers : AtEnd(w) /\ full => 1 .. job[w].seen \subseteq cache

\* A synchronisation of the recent window that runs to its end leaves the newest operations, as
\* many as the window holds.
NewestAreKept ==
    \A w \in Workers : AtEnd(w) /\ ~full => Newest(1 .. job[w].seen, CacheLimit) \subseteq cache

\* Every synchronisation that was started ends, as long as the account does something only
\* finitely often.
SyncEnds == \A w \in Workers : job[w].at # "idle" ~> job[w].at = "idle"

=============================================================================
