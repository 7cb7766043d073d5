---------------------------- MODULE MarketTicks ----------------------------
(***************************************************************************)
(* Where the runtime's prices come from, for one symbol: the mid prices of *)
(* the market adapter (apps/runtime/src/services/market.ts), the order     *)
(* book behind two caches (the end of                                      *)
(* apps/runtime/src/orchestrator/state.ts, packages/hl-client/src), and    *)
(* the two readers that use them and interleave at their awaits: the       *)
(* trading cycle and /flatten.  A price is the moment it was asked for:    *)
(* the exchange took it no earlier.  A flight is bounded by the timeouts   *)
(* of the requests.                                                        *)
(***************************************************************************)
EXTENDS Integers, Sequences

CONSTANTS
  MidTtl, BookTtl, ClientTtl,  \* CACHE_TTL_MS, DEFAULT_L2_BOOK_CACHE_TTL_MS, TTL_MAP.l2Book
  StaleData,                   \* staleDataMs
  Flight,                      \* the longest a request takes before it is aborted
  BookRetries,                 \* of a request that does not go through the client
  MaxNow                       \* bound: time

VARIABLES
  now,
  seeded, viaClient,           \* the symbol is in BASKET_SYMBOLS; there is an hlClient
  mids, lastFetchAt, fetching, \* the adapter: its tick, and since when it fetches
  bookCache, clientBook,       \* l2BookDepthCache and the client's response
  at, askedAt, readAt, retries,  \* each reader's place, and its request
  tick, shared                 \* its tick, and whether that is the adapter's object

tickVars == <<now, seeded, viaClient, mids, lastFetchAt, fetching, bookCache, clientBook,
              at, askedAt, readAt, retries, tick, shared>>

Readers == {"cycle", "flatten"}
None == <<>>
Never == -100

\* depth: the sizes of the book are known, and not 0.
Tick(taken, updatedAt, depth) == [taken |-> taken, updatedAt |-> updatedAt, depth |-> depth]

Init ==
  /\ now = 0
  /\ seeded \in BOOLEAN /\ viaClient \in BOOLEAN
  /\ mids = None /\ lastFetchAt = Never /\ fetching = Never
  /\ bookCache = None /\ clientBook = None
  /\ at = [r \in Readers |-> "idle"] /\ askedAt = [r \in Readers |-> 0]
  /\ readAt = [r \in Readers |-> 0] /\ retries = [r \in Readers |-> 0]
  /\ tick = [r \in Readers |-> None] /\ shared = [r \in Readers |-> FALSE]

midVars == <<mids, lastFetchAt, fetching>>
bookVars == <<bookCache, clientBook, askedAt, readAt, retries>>
setting == <<seeded, viaClient>>

Goto(r, place) == at' = [at EXCEPT ![r] = place]

(***************************************************************************)
(* Begin and end of a reader's work.                                       *)
(***************************************************************************)
\* The cycle asks for the seeded, the held and the watched symbols; its
\* proposal may be about another one.
Begin(r) ==
  /\ at[r] = "idle"
  /\ \/ Goto(r, "mids")
     \/ r = "cycle" /\ ~seeded /\ Goto(r, "propose")
  /\ UNCHANGED <<now, setting, midVars, bookVars, tick, shared>>

End(r) ==
  /\ Goto(r, "idle")
  /\ tick' = [tick EXCEPT ![r] = None] /\ shared' = [shared EXCEPT ![r] = FALSE]
  /\ UNCHANGED <<now, setting, midVars, bookVars>>

\* The cycle ends without a proposal, or adds the depth its legs need.
\* /flatten closes at whatever price it has.
Propose(r) ==
  /\ at[r] = "propose"
  /\ \/ End(r)
     \/ /\ r = "cycle" /\ Goto(r, "augment")
        /\ UNCHANGED <<now, setting, midVars, bookVars, tick, shared>>

\* checkFreshTicks and, of what it needs the depth for, checkLiquidity.
PassesChecks(t) == t # None /\ now - t.updatedAt <= StaleData /\ t.depth

Check(r) == at[r] = "check" /\ End(r)

(***************************************************************************)
(* HyperliquidRestAdapter.latest                                           *)
(***************************************************************************)
HaveTick(r, t, own) ==
  /\ tick' = [tick EXCEPT ![r] = t] /\ shared' = [shared EXCEPT ![r] = own /\ t # None]
  /\ Goto(r, IF t = None THEN "fallback" ELSE "propose")

LatestCached(r) ==
  /\ at[r] = "mids" /\ now - lastFetchAt <= MidTtl
  /\ HaveTick(r, mids, TRUE)
  /\ UNCHANGED <<now, setting, midVars, bookVars>>

\* refresh: a second caller waits for the fetch of the first.
LatestFetches(r) ==
  /\ at[r] = "mids" /\ now - lastFetchAt > MidTtl
  /\ Goto(r, "refresh")
  /\ fetching' = IF fetching = Never THEN now ELSE fetching
  /\ UNCHANGED <<now, setting, mids, lastFetchAt, bookVars, tick, shared>>

\* The fetched tick is a new object without depth; only seeded symbols have
\* one.  Who waits reads it when the fetch is over.
MidsArrive ==
  /\ fetching # Never /\ fetching' = Never /\ lastFetchAt' = now
  /\ mids' = IF seeded THEN Tick(fetching, now, FALSE) ELSE None
  /\ at' = [r \in Readers |-> IF at[r] = "refresh" THEN "refreshed" ELSE at[r]]
  /\ shared' = [r \in Readers |-> FALSE]
  /\ UNCHANGED <<now, setting, bookVars, tick>>

\* A refusal, a timeout or a body that is no object: the old tick stays, and
\* the next caller asks again.
MidsFail ==
  /\ fetching # Never /\ fetching' = Never
  /\ at' = [r \in Readers |-> IF at[r] = "refresh" THEN "refreshed" ELSE at[r]]
  /\ UNCHANGED <<now, setting, mids, lastFetchAt, bookVars, tick, shared>>

Refreshed(r) ==
  /\ at[r] = "refreshed"
  /\ HaveTick(r, mids, TRUE)
  /\ UNCHANGED <<now, setting, midVars, bookVars>>

(***************************************************************************)
(* fetchHyperliquidL2BookSnapshotCached, for a symbol without a tick and   *)
(* for the depth of a proposal's legs                                      *)
(***************************************************************************)
AwaitsBook == [fallback |-> "fallbackFlight", augment |-> "augmentFlight"]

\* The snapshot is the tick, or is written into the tick there is, which may
\* be the adapter's own.
UseSnapshot(r, t) ==
  LET adding == at[r] \in {"augment", "augmentFlight"}
  IN /\ Goto(r, IF adding THEN "check" ELSE "propose")
     /\ tick' = [s \in Readers |->
                   IF s = r \/ (shared[r] /\ shared[s]) THEN t ELSE tick[s]]
     /\ mids' = IF adding /\ shared[r] THEN t ELSE mids
     /\ UNCHANGED <<now, setting, lastFetchAt, fetching, shared>>

NoSnapshot(r) ==
  /\ Goto(r, IF at[r] = "augmentFlight" THEN "check" ELSE "propose")
  /\ UNCHANGED <<now, setting, midVars, tick, shared>>

BookCacheValid == bookCache # None /\ now - bookCache.fetchedAt < BookTtl

\* Mutant: a cached snapshot is dated by its use.
BookCachedRestamped(r) ==
  /\ at[r] \in DOMAIN AwaitsBook
  /\ BookCacheValid
  /\ UseSnapshot(r, Tick(bookCache.taken, now, TRUE))
  /\ UNCHANGED bookVars

BookCached(r) ==
  /\ at[r] \in DOMAIN AwaitsBook
  /\ BookCacheValid
  /\ UseSnapshot(r, Tick(bookCache.taken, bookCache.updatedAt, TRUE))
  /\ UNCHANGED bookVars

CacheBook(taken, updatedAt, fetchedAt) ==
  [taken |-> taken, updatedAt |-> updatedAt, fetchedAt |-> fetchedAt]

ClientHas == viaClient /\ clientBook # None /\ now < clientBook.expiresAt

\* The client answers from its cache, and the answer is dated now.
BookFromClientCache(r) ==
  /\ at[r] \in DOMAIN AwaitsBook
  /\ ~BookCacheValid
  /\ ClientHas
  /\ bookCache' = CacheBook(clientBook.taken, now, now)
  /\ UseSnapshot(r, Tick(clientBook.taken, now, TRUE))
  /\ UNCHANGED <<clientBook, askedAt, readAt, retries>>

BookAsked(r) ==
  /\ at[r] \in DOMAIN AwaitsBook
  /\ ~BookCacheValid
  /\ ~ClientHas
  /\ Goto(r, AwaitsBook[at[r]])
  /\ askedAt' = [askedAt EXCEPT ![r] = now] /\ readAt' = [readAt EXCEPT ![r] = now]
  /\ retries' = [retries EXCEPT ![r] = 0]
  /\ UNCHANGED <<now, setting, midVars, bookCache, clientBook, tick, shared>>

EndOfRequest(r) ==
  /\ askedAt' = [askedAt EXCEPT ![r] = 0] /\ readAt' = [readAt EXCEPT ![r] = 0]
  /\ retries' = [retries EXCEPT ![r] = 0]

InFlight(r) == at[r] \in {"fallbackFlight", "augmentFlight"}

\* The cached book is as old as the call, and dated by the answer.
BookArrives(r) ==
  /\ InFlight(r)
  /\ clientBook' = IF viaClient THEN [taken |-> askedAt[r], expiresAt |-> now + ClientTtl]
                   ELSE clientBook
  /\ bookCache' = CacheBook(askedAt[r], now, readAt[r])
  /\ UseSnapshot(r, Tick(askedAt[r], now, TRUE))
  /\ EndOfRequest(r)

\* A book without a price fails as a lost request does; only a request that
\* does not go through the client is tried again.
BookFails(r) ==
  /\ InFlight(r)
  /\ IF ~viaClient /\ retries[r] < BookRetries
     THEN /\ retries' = [retries EXCEPT ![r] = @ + 1] /\ askedAt' = [askedAt EXCEPT ![r] = now]
          /\ UNCHANGED <<now, setting, midVars, at, tick, shared>>
          /\ UNCHANGED readAt
     ELSE NoSnapshot(r) /\ EndOfRequest(r)
  /\ UNCHANGED <<bookCache, clientBook>>

\* An entry past its time is never read again, and is dropped here.
Kept(entry, holds) == IF holds THEN entry ELSE None

\* At the awaits; no request outlives its timeout.
TimePasses ==
  /\ now < MaxNow /\ now' = now + 1
  /\ fetching # Never => now - fetching < Flight
  /\ \A r \in Readers : InFlight(r) => now - askedAt[r] < Flight
  /\ \A r \in Readers : at[r] \in {"idle", "refresh", "propose"} \/ InFlight(r)
  /\ bookCache' = Kept(bookCache, BookCacheValid /\ now' - bookCache.fetchedAt < BookTtl)
  /\ clientBook' = Kept(clientBook, ClientHas /\ now' < clientBook.expiresAt)
  /\ lastFetchAt' = IF now' - lastFetchAt <= MidTtl THEN lastFetchAt ELSE Never
  /\ UNCHANGED <<setting, mids, fetching, askedAt, readAt, retries, at, tick, shared>>

ReaderNext(r) ==
  \/ Begin(r) \/ Propose(r) \/ Check(r)
  \/ LatestCached(r) \/ LatestFetches(r) \/ Refreshed(r)
  \/ BookCached(r) \/ BookFromClientCache(r) \/ BookAsked(r) \/ BookArrives(r) \/ BookFails(r)

TickNext == (\E r \in Readers : ReaderNext(r)) \/ MidsArrive \/ MidsFail \/ TimePasses

TickSpec == Init /\ [][TickNext]_tickVars

\* A book that passes the risk engine's checks was taken from the exchange
\* at most a flight and the client's cache before the staleness limit, however
\* the readers share the caches and the adapter's tick and whatever fails: no
\* path dates a price anew a second time (state.ts:2349-2547, risk-engine
\* index.ts:100-115).
CheckedBookIsRecent ==
  at["cycle"] = "check" /\ PassesChecks(tick["cycle"]) =>
    now - tick["cycle"].taken < StaleData + ClientTtl + Flight
=============================================================================
