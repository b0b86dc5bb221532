# A formal model of market-terminal

market-terminal is a research terminal: one FastAPI process that fetches market
data from free or rate-capped providers, caches it, interprets it, keeps a
registry of instruments and a daily history in SQLite, and serves the result to
a web page and, over MCP, to agents. This directory holds TLA+ modules that model
parts of it, TLC configurations that check them on small instances, and proofs
that TLAPS checks for every instance. `PROJECT.json` maps every definition to the
lines it stands for. All source paths below are relative to the repository.

To run a check: `tlc -config X.cfg M` with the module and configuration of the
table under "Runs"; to check a proof: `tlapm M.tla` on a `*Proofs` module.

## 1. Inventory

### 1.1 The process and its threads

There is one process. In it run

* the thread pool of the web server, which executes every synchronous endpoint
  of `app/routers/*` and of `app/main.py`,
* the MCP tools of `mcp_server.py`, mounted in the same process, which call the
  same service functions,
* the daemon thread `precache` of `app/precache.py`, which calls one function per
  view, sequentially, at startup and then every `precache_interval_min` minutes,
* the short-lived pools of `concurrency.parallel_map`, through which a view
  fetches its instruments four at a time.

They share three pieces of mutable state: the response cache, the circuit
breakers, and the SQLite file. The web page keeps some state of its own.

### 1.2 Components

| component | state | operations | what makes it correct |
|---|---|---|---|
| Response cache `cache/store.py` | `_store`: key to (expiry, value) | `get_or_set` (`cached`) | an answer is never older than the TTL; a producer that raises leaves nothing; the cache spares the provider |
| Circuit breaker `circuit.py` | per (function name, arguments): `_failures`, `_opened_at` | `guarded`: `check`, `record_success`, `record_failure` | a failing provider is left alone; one that recovers is used again; the cooldown is counted from the last failure |
| Instrument registry `services/instruments.py`, `services/custom_store.py` | table `watchlist` | `seed_defaults`, `add`, `ensure`, `remove`, `prune`, `ensure_default_book`, `resolve` | one row per instrument; the default book is there when promised; replies report what happened |
| Daily history `services/history.py` | table `snapshots` | `record_all`, `record_snapshot_daily`, `history` | at most one point per series and day, and that one in the end |
| Pre-cache loop `app/precache.py` | its position in a cycle | `warm_all`, `start`, `stop` | no failure stops it |
| Persistence `app/db.py` | the SQLite file | one transaction per function | every function commits as a whole or not at all |
| Alerts `services/alerts.py` | table `alerts` | add, remove, enable, evaluate | an evaluation reflects the latest reading of each series |
| Accounts `app/auth.py`, `app/main.py` | table `users`, signed cookies | register, create, enable/disable, sign in and out, the gate | one account per name, which is its creator's; the admin of the environment always gets in; sign-ins last their time |
| TradingView webhook `services/tradingview.py` | table `tv_signals` | append, list | nothing is lost |
| Data layer `obb_layer/*` | none of its own | stacked cached and guarded fetches, the provider chain | a failing provider is passed over; ages of stacked caches add up and no more; the echo of an outage dies out |
| Fan-out `concurrency.py` | the queue and threads of one call | `parallel_map` | results in the order of the items; an exception only after the pool is joined |
| Views `services/watchlist.py`, `custom_watchlist.py`, `volatility.py`, `cot.py`, `screener.py`, `macro.py`, brain screens | none | a row per instrument or panel | a failure stays in its row; rankings lose nothing better than what they show |
| News `services/news.py` | none | `feed` | a story once, with all its tags; an error only if every source failed |
| Scan `obb_layer/grouped.py`, `services/movers.py`, `services/signals.py` | none | walk back to two sessions, movers, hit list | a session is never taken for another |
| Curves `obb_layer/term_structure.py`, `services/term_structure.py`, `services/analysis.py` | none | order of expirations, classification, comparison | the ends are the nearest and the farthest expiration; what is said follows the move |
| Symbol search `services/symbol_search.py` | none | `search` | no suggestion twice, none lost below the limit |
| Interpretation `services/*`, `vol/*` | none | regime, brains, setups, briefs, pulse | scores and verdicts agree with the rules they state; a missing input degrades a read and never sinks it |
| Web page `web/app.js` | copy of the registry, active view, loaded views | loads, picks, edits, refresh timer | a panel shows what was picked |
| Forecasting `kronos_layer/*`, scripts, `doctor`, `config` | none | offline or read-only | |

### 1.3 How they interact

A request runs a service function. The service asks the registry which
instruments there are (a transaction), fetches each of them through a `cached`
function whose producer is a `guarded` function whose body calls the provider,
sometimes through another `cached` and `guarded` function, and combines the
answers. Nothing locks across two of these steps: the cache and each breaker
have a lock for their own dictionary operations only, and SQLite serialises
single transactions. The pre-cache thread does the same for every view and, last
in each cycle, appends to the history. The registry is the one table written by
users, agents and startup alike.

### 1.4 What is hard here

* Interleavings between the two critical sections of a cached call, and between
  the check of a breaker and the recording of the outcome.
* Look-then-write across transactions: `ensure_default_book`, `prune`, `ensure`,
  the startup seeding, `evaluate`.
* Partial failure by design: every part of a cycle, a brief or a screen catches
  exceptions and goes on without the part; what was lost must be made up later
  or at least be reported.
* Two clocks: `time.monotonic` for TTLs and cooldowns, the UTC date for the
  history, the latter read twice per point.
* Restarts: the tables survive, cache and breakers do not, and startup decides
  what to do from what it finds in the table.
* Names: an instrument has an id, a code, a symbol and a label, and different
  parts refer to it by different ones.

The list of hazards, each at its line and with the properties that would catch
it, is in `PROJECT.json`.

## 2. Modules

| module | models | composes or extends |
|---|---|---|
| `FreshRead` | abstract specification of a cached fetch | |
| `TtlCache` | `cache/store.py` | implements `FreshRead` |
| `CacheLoad` | TtlCache with a count of fills | extends `TtlCache` |
| `CircuitBreaker` | `circuit.py` | |
| `CircuitHistory` | CircuitBreaker with a record of failures | extends `CircuitBreaker` |
| `Registry` | `services/instruments.py`, `services/custom_store.py`, the watchlist table, startup seeding | |
| `RegistryHistory` | Registry with a record of replies | extends `Registry` |
| `DailyHistory` | `services/history.py`, `record_snapshot_daily`, the loop of `app/precache.py`, registry edits and midnight around it | |
| `HistoryCoverage` | DailyHistory with a record of its cycles | extends `DailyHistory` |
| `Conviction` | pure operators: the votes and thresholds of `services/analysis.py` (regime), `brain*.py`, `signals.py`, `market_setup.py`, `fundamentals.py` (labels), `news_pulse.py`, and the weighing of `decision_brief.py` | |
| `DecisionBrief` | `services/decision_brief.py` and the pulse it calls, one request from its beginning to its answer | extends `Conviction` |
| `PriceFetch` | the functions of `obb_layer/market.py`, `fmp_market.py`, `macro.py` and `providers.py` as they are stacked, on the call stacks of several threads | composes `TtlCache` and `CircuitBreaker` |
| `PriceOutage` | PriceFetch with a record of failures and of the sources tried | extends `PriceFetch` |
| `PriceRoutes` | which function reads through which sources | |
| `Alerts` | `services/alerts.py`, the tables `alerts` and `snapshots` | |
| `AlertsHistory` | Alerts with a record of what an evaluation could have seen | extends `Alerts` |
| `Accounts` | `app/auth.py`, the account routes of `app/main.py`, the table `users` | |
| `AccountsHistory` | Accounts with a record of what users were told | extends `Accounts` |
| `OrderedMap` | abstract specification of a parallel map | |
| `FanOut` | `concurrency.py` | implements `OrderedMap` |
| `Rankings` | sorting by a key in Python's order, picking and cutting | |
| `Views` | the dashboards that make a row of every item of a list, on the pool or in a loop | extends `FanOut`, `Rankings` |
| `NewsFeed` | `services/news.py` | extends `Views` |
| `MarketScan` | `obb_layer/grouped.py`, `services/movers.py`, `daily_hitlist` of `services/signals.py` | extends `Rankings` |
| `TermStructure` | `term_structure_signal` of `services/analysis.py` over `services/term_structure.py` | extends `Rankings` |
| `SymbolSearch` | `services/symbol_search.py` | extends `Rankings` |
| `Dashboards` | one request at a time of any of the five before, while clients edit the registry | extends them |
| `TtlCacheProofs`, `RegistryProofs`, `DailyHistoryProofs`, `BriefProofs`, `AlertsProofs`, `AccountsProofs`, `PriceProofs` | theorems | extend the above |
| `ConcurrencyProofs` | theorems about `CircuitHistory`, `FanOut` and `Dashboards` | extends `CircuitHistory` and `Dashboards` |
| `MCTtlCache`, `MCRegistry`, `MCHistory`, `MCBrief`, `MCPriceFetch`, `MCAlerts`, `MCAccounts`, `MCViews` | values of constants for TLC | |

The record-keeping modules never restrict their base module: each of their
actions is an action of the base with assignments to the record, and every
action of the base is among them.

### 2.1 TtlCache

A call of `get_or_set` is four steps: `Begin` (lines 47-49: the clock is read
before the lock is asked for), `Lookup` (51-54, the first critical section),
`Produced` or `ProducerRaises` (56, without the lock), `Store` (58-60, the second
critical section). `start` is the local `now` of the code and `store` its
`_store`. A value is represented by the instant at which the provider knew it,
since freshness depends on nothing else. `Lag[k]` is the age that the data of k's
producer may have already: 0 for a provider, the window of the inner cache for a
producer that is itself a cached function, as in `proxy_history`, `movers` or
`regime`. `clear` and `stats` are left out: nothing but tests calls the first,
and the second changes nothing.

`FreshRead` is what callers rely on: a call either fails or answers with data
that was true at some instant not more than a window before the call, and it
ends. In the refinement mapping the window is `Ttl + Lag`, a running call is
"waiting" wherever it is, and store and lock disappear.

### 2.2 CircuitBreaker

A guarded call is `Refuse` or `Admit` (`check`, under the lock), `Reply` (the
fetch, without it) and `RecordSuccess` or `RecordFailure` (under the lock).
`_opened_at` is represented by `opened` and by `cooling`, the ticks of the
cooldown that are left, which makes the state space finite without a bound on
time. `_failures` is compared with the threshold and printed, never anything
else, so it saturates at `MaxFailures`. `up[k]` is the provider: while it is not
up, a fetch may fail or succeed.

### 2.3 Registry

Every `_db()` block is one transaction and one action. A request of
`ensure_default_book` alternates `EnsureCheck` (the reads of `resolve`) and
`EnsureAdd` for each default; a request of `prune` takes `PruneGet` (the read by
id), `PruneMatch` (the read over all names) and `PruneDelete` for each reference.
`add` and `remove` are one transaction. `Boot`, `SeedOne`, `SeedEnds` are the
startup of `app/main.py`; requests are accepted only after it, as in the
lifespan. `Crash` may come between any two transactions and loses everything but
the table. `Fail` is a database call that raises, in the middle of a request;
`SeedEnds` before the end of the book is the same during seeding, which the
lifespan catches. `rows` is a sequence, ordered by `added_at`, because `resolve`
returns the oldest match. `resolve` folds case; the model's references are
already folded. `ensure_default_book` reads once by id and once by name; a
default's symbol is not an id (ids contain a colon, `BookAssumption`), so the
first read finds nothing and only the second is a step.

### 2.4 DailyHistory

The thread goes through `ReadVol` (the volatility dashboard: any subset of the
tracked instruments answers ok), the recording of each reading, `ReadMacro`, and
the recording of that. Recording is three steps, `ReadDay`, `ReadTs` and `Write`,
because `record_snapshot_daily` reads the clock for the day (line 145) and again
for the timestamp (146, `_now()`) before its transaction (147-158). `PartFails`
is an exception anywhere in one of the two `try` blocks of `record_all`: it ends
that part and not the cycle. `Midnight`, `Retrack` (users editing the registry)
and `Crash` come between any two steps. The loop over readings is in any order,
which includes the code's.

### 2.5 Conviction and DecisionBrief

Services compare each figure with fixed thresholds, so `Conviction` represents a
figure by the band it falls in and a `World` by the bands of every figure that
the providers have of one symbol; a figure that is missing, or whose call raises
inside a service that catches it, is `None`. `Regime`, `EquityVerdict`,
`MarketVerdict`, `TradeSetup`, `MarketSetup` and `Blend` are then the code's sums
of votes with its cuts, and `ConflictClass` and `Caution` the branches of
`_conflict` in their order.

`DecisionBrief` follows one request: `Resolve` and, for a share that is not
tracked, `Ensure` (lines 147-157), `ReadMacro` (168), then one step per section in
the code's order (`Turn`), which is `Answer` or, if the call raises, `Fail` (the
code's `grab`), the pulse last (`Pulse`), and `Compose`, whose results are the
operators `Class`, `Strained` and `Skipped` of the state. Around the request
another client may remove the instrument (`Remove`), which the services that
resolve it again answer with an exception (`NeedsRow`), and the world may change
(`Move`). `world` is what the providers, or the caches in front of them, answer;
the regime has a cache of its own, which either still holds the regime that
frames the brief or has expired (`RegimesRead`). The pulse resolves the symbol
anew, and reads the setup a second time, in whatever world there is by then; a
language model, if one is configured, answers any direction. Not every field of
a section is kept: positioning, filings, smart money and single briefs are "read",
since nothing in the brief depends on what they say.

### 2.6 PriceFetch

`TtlCache` and `CircuitBreaker` model one call each; here they are instantiated
over *frames*, a function on the call stack of a thread, so that
`proxy_history` is producing while `fx_history`, which it called, looks up.
`Look`, `Refused`, `Admitted`, `Recorded` and `Keep` are the steps of the two
instances, in the order in which `@cached` and `@guarded` nest; `Ask`, `Descend`
and `Ascend` are the body, which goes through `Plan[f]`: a provider, or another
cached function, one after the other until one answers rows. A source is *strict*
if its exception is kept and raised when nothing else has answered
(`eod_with_fallback`, `fx_history`), and lenient if it is swallowed (the FMP
attempt of `macro.py`). `BreakerOf` names the breaker of a function: `guarded` keys
by the function's name and arguments and leaves out its module, so
`obb_layer/market.py`'s and `obb_layer/macro.py`'s `fx_history` have one breaker for
EURUSD (`BreakerName`), and entries of their own in the cache, whose keys do hold
the module. `CircuitOpen`, raised by an inner breaker, arrives in
`Ascend` as an error like any other. An answer is represented by when a provider
gave it and whether it has rows; an empty one is cached like any other.
`PriceRoutes` lists the routes from the code, and `MCPriceFetch` takes from it
everything that is reached from two views of the pair EURUSD, which share the
REST entry below and a breaker above it, and go to it by different stacks.

### 2.7 Alerts

`AddRule`, `RemoveRule` and `SetEnabled` are one transaction each. `evaluate` is
`ListRules` (line 126, one transaction) and then a `ReadPoint` per rule (line 97,
`history(series, 1)`, one transaction each), with the four outcomes of
`_evaluate_rule` in their order (the last, a figure that is no number, takes a row
that the recorder has not written: the run has none, the theorems allow it). `Record` and `Midnight` are what
`DailyHistory` does to the table, seen from here: at most one point a day and
series, which is what `DailyHistoryProofs` proves. The record keeps how many
points each series had when the rules were listed, which rules have been on
since, and what has been removed.

### 2.8 Accounts

The middleware, `/login` and `/register` are coroutines without an `await`
between look and insert, so they hold the event loop (`loop`) until their reply;
the admin routes are plain functions, in threads of their own. `users.create` is
a look (`RegisterLooks`, `AdminLooks`) and an insert (`Create`), two
transactions, of which the second refuses a name that is there. An admin's
request passes `Gate` (the middleware) and `RequireAdmin`, which reads the role
anew. `Unlock` is the middleware's `?token=` branch: the request passes and its
answer brings a session for the sentinel name "token", whose role is that of an
account of that name, if there is one, and else none. A client with a Bearer header
passes as the sentinel too and holds no session, so it changes nothing here. A cookie carries its name, its expiry and the key that signed it; `secret`
stands for the key that `_secret()` derives, and only a changed configuration
changes it. `Restart` loses every request under way and keeps the table, the
cookies and, since it is derived, the key.

### 2.9 FanOut, Views and Dashboards

`FanOut` is `list(pool.map(fn, items))` with its `with` block: workers take the
first item of the queue (`Take`), end (`Finish`, `Fail`), the caller takes the
results in order (`Collect`); the first exception that it meets cancels what is
queued (`CollectRaises`) and is raised when the running workers have ended
(`Join`). `OrderedMap` is what the callers rely on.

`Views` takes a list, from the registry or fixed, and makes a row of every item:
on the pool (watchlist, sectors, macro) or in a loop, which is a pool of width 1
(custom watchlist, volatility, COT, screens, curves, the parts of
`analysis.brief`). A row's worker looks the instrument up again
(`LooksUp`, e.g. `watchlist.py:97`), which raises if it was removed meanwhile, and
makes its provider calls, of which some are optional (`Optional`: the row lacks
them) and the others make it an error row. `SectorAnswer` and `ScreenAnswer` rank.
`Rankings!RankDesc` is Python's stable descending sort, and the keys are those of
the code, with its treatment of `None` and 0.

`NewsFeed` adds the feed: the world wire, whose stories are tagged one by one
against the registry as it is then, or else the fan-out over the instruments'
own wires, whose results are merged one by one with `Merge`, with the world
wire standing in for a coin without news. `MarketScan` walks back day by day
(`WalkDay`; a refused call, a `RuntimeError`, passes its day by, and any other
exception ends the walk, `WalkBreaks`), and its pure rest is `Movers`, `Candidates`
and the ranking of the hit list. `TermStructure` reads the curve of the VIX now and
earlier and compares; GC, CL and NG are `CurveUnavailable` before any fetch
(`services/term_structure.py:92-93`), so `obb_layer/fmp_curve.py` is never reached.
`SymbolSearch` is `search()`, one branch per asset class. None of the last three
touches anything that others write, so `Dashboards` lets them run one request at a time; the views and the
feed interleave with removals.

## 3. Runs

| run | module, cfg | instance | result |
|---|---|---|---|
| `ttl_cache` | MCTtlCache, TtlCache.cfg | 2 threads, 2 keys (TTL 1 lag 0; TTL 2 lag 1), clock up to 2, fills counted | `TypeOK`, `AnswersAreFresh`, `FillsPerTtl`, `ImplementsFreshRead` hold; 334 600 states |
| `circuit` | CircuitHistory, Circuit.cfg | 2 threads, 2 keys, threshold 2, cooldown 2 | `TypeOK`, `OpenIffThreshold`, `BoundedBurst`, `CooldownFromLastFailure`, `Recovery` hold; 164 800 states |
| `registry` | MCRegistry, Registry.cfg | 2 requests, 3 instruments of which 2 default and the third bears the name of one, 3 prune requests, 1 crash | `TypeOK`, `EnsureGuaranteesBook`, `RemovalsAddUp` hold; 143 035 states |
| `daily_history` | MCHistory, DailyHistory.cfg | 2 instruments and the regime, 2 days, 1 crash | `OnePointPerDay`, `CycleRecordsItsDay`, `DayGetsItsPoint` hold; 92 844 states |
| `brief` | MCBrief, Brief.cfg | every asset class with and without its keys, 6 worlds, 1 change, 1 failing section, removals | `EverySectionAccounted`, `OppositionOutweighed`, `AlwaysAnswered` hold; 692 690 states |
| `price_fetch` | MCPriceFetch, PriceFetch.cfg | 2 threads, 2 providers, the functions on the way from `proxy_history` and the macro tile of EURUSD, TTL 2, threshold and cooldown 1, clock up to 2 | `TypeOK`, `AgesAddUp`, `EchoDiesOut`, `FailuresArePassedOver` hold; 811 139 states |
| `alerts` | MCAlerts, Alerts.cfg | 2 series, 4 posts, 2 ids, 2 points per series, 1 request that evaluates again and again | `FlagsAreCurrent`, `ContradictionNeedsNewPoint`, `DisabledIsNotCounted`, `RemovedStaysRemoved` hold; 1.2 million states |
| `accounts` | MCAccounts, Accounts.cfg | 2 browsers, 2 names of which one is the admin's, 2 passwords, sessions of 1 tick, clock up to 2 | `OneOwner`, `BootstrapAdmin`, `LoginsLast`, `OffStaysOff` hold; 579 149 states |
| `views` | MCViews, Views.cfg | 3 instruments, 3 sector ETFs, 5 panels, 2 workers; 4 stories; 3 tickers in 8 days; answers of up to 3 expirations | `PagesTypeOK`, `FailureStaysLocal`, `FeedIsWhole`, `BestRankedFirst`, `SessionsAreTheirOwn`, `HitsRankedByAgreement`, `CurveIsReadRight`, `SuggestionsComplete`, `ImplementsOrderedMap` hold; 116 015 states |
| `startup_seed` | MCRegistry, StartupSeed.cfg | 1 crash | `StartupSeedsBook` is violated |
| `series_by_code` | MCHistory, SeriesGoByCode.cfg | an instrument whose id is not its code | `SeriesGoByCode` is violated |
| `aligned_reads` | MCBrief, AlignedReads.cfg | as `brief` | `AlignedReadsAgree` is violated |

The type invariants of `DailyHistory`, `DecisionBrief`, `Alerts` and `Accounts` are
theorems (section 4) and are not checked again by their runs.

### 3.1 What the passing runs show

`AnswersAreFresh`: late writers may put an older value over a newer one, but
since the expiry counts from the clock reading that precedes the lookup, they can
never make it live longer than one TTL. (Counting from the end of the call, a
natural way to write the code, breaks this: it is the mutant of the property.)
`ImplementsFreshRead` adds that every call ends and that nothing else about the
cache can be observed through its answers.

`FillsPerTtl`: without single-flight, N threads fill a key up to N(N+1)/2 times
in one TTL rather than once or N times, because a call that began before the
period may write an entry that is already expired over a live one.

`OpenIffThreshold`: the two fields of a breaker never disagree, in whatever order
late outcomes are recorded. `Recovery`: once a provider answers for good, its
circuit closes for good although late failures extend the cooldown.
`BoundedBurst`: in one burst at most threshold - 1 + N failing calls reach the
provider. `CooldownFromLastFailure`: the time left of a cooldown is counted from
the last recorded failure of the same key, so failures of one symbol never
extend the cooldown of another.

`EnsureGuaranteesBook`: when `ensure_default_book` replies, every default is tracked
or another row goes by its name, whatever ran meanwhile, unless one of these rows
has been removed since it began. The exception is the code's and not its promise
(3.2), and the run has a row that takes it.
`RemovalsAddUp`: for each instrument, insertions less reported removals is 1 or 0
exactly as it is tracked or not; two replies never claim one deletion. `TypeOK`
includes that the table has no instrument twice.

`OnePointPerDay`: with midnight, failures and crashes between the two clock
readings and the insert, a day still has at most one point of a series and rows
are in the order of their days. It holds because there is one recorder thread
and the day is read before the timestamp; exchanging the two readings breaks it.
`CycleRecordsItsDay`: a cycle of one day without a failure leaves a point for
everything it had a reading of, whatever earlier cycles did. `DayGetsItsPoint`:
if exceptions stop, every day that lasts gets its point of the regime.

`EverySectionAccounted`: whatever fails and whoever removes the instrument during
the request, each section promised for the asset is answered, in `errors` or in
`skipped`, and in one of them only (smart money and filings apart, which may come
back empty without a word). `AlwaysAnswered`: no exception sinks the request.
`OppositionOutweighed`: the
setup has the conviction as one of its votes, which makes the comparison of the
two lopsided: a setup against a conviction it has counted has at least three
points of its own.

`AgesAddUp`: what a function answers was true at most its own TTL and those of the
layers below it ago, whichever threads filled which layer when; letting an entry
live one tick longer in one layer breaks it. `EchoDiesOut`: a refusal of an inner
breaker counts as a failure of the outer one, although no call was made, and two
functions may open one breaker; but after a time of one cooldown for each breaker in
the stack in which the providers answer rows, nothing is refused any more. `FailuresArePassedOver`: no body
raises or answers nothing before it has tried every source on its list.

`FlagsAreCurrent`: an evaluation spans as many transactions as there are rules and
is no snapshot of the tables; yet each flag is what its rule says of a point that
was the latest at some moment of the request. `ContradictionNeedsNewPoint`: two
opposite rules, such as `>= 90` and `< 90`, both on or both off in one answer mean
that their series got a point meanwhile. `DisabledIsNotCounted`: the badge counts
nothing that was off from the beginning of the request to its end.
`RemovedStaysRemoved`: a toggle that arrives late does not bring a rule back.

`OneOwner`: with registrations on the event loop and admins in threads beside it,
all past their look for the same name, whoever is told "created" is the only one,
and has the password that the row has. `BootstrapAdmin`: no row can take the name of the
environment's admin, which would decide before the environment does. `LoginsLast`:
a browser is signed in exactly until its latest sign-in is older than the lifetime,
over any number of restarts. `OffStaysOff`: no creation under way switches an account
back on.

`ImplementsOrderedMap`: the pool computes each item at most once, answers in the
order of the items, raises the first exception in that order and none of a later
one, and always answers; no worker runs on after the call. `FailureStaysLocal`: a row
is a reading exactly if what its own worker met lets it be, an instrument that is
still tracked is never taken for a removed one, and the answer shows every item once.
`FeedIsWhole`: no story twice, all tags of all wires, newest first, nothing newer cut
off, and an error only if every target has failed. `BestRankedFirst` and
`HitsRankedByAgreement`: no row stands before a better one, and the cut leaves out
nothing better than what it leaves in. Of a score of 0 `Better` compares the label
alone (3.2).
`SessionsAreTheirOwn`: whatever days are refused or empty and wherever the walk
breaks, the two sessions compared are of different days, each with its own rows, and
every weekday passed by was asked in vain. `CurveIsReadRight`: however the answer is
ordered, the ends are those of the nearest and the farthest expiration with a price,
and the text says more stress exactly if the back has fallen for the front and less
if it has risen, within contango and backwardation and across a flip. A flip to a flat
curve is left out: the text calls it stable.
`SuggestionsComplete`: nothing twice, nothing beyond the limit, nothing missing below it.

### 3.2 What the violated ones show

* `startup_seed`: a process that dies while seeding leaves part of the book, which
  every later startup takes for the user's own.
* `series_by_code`: docs, routers and page name gold's series `vol:GC`; the
  recorder writes `vol:futures:GC=F`.
* `aligned_reads`: the class "aligned" says that "technical, fundamental and news
  reads agree" (`decision_brief.py:114`), and agents are told to drop a
  `news_conflict` (`docs/openalice-prompts.md:14-15`); headlines against the setup
  are cancelled by the setup's own vote in the pulse, and the brief is aligned.

Seen while modelling, without a run of its own:

* `services/analysis.py:137-139` caches the regime so that every caller in a window
  "reads ONE coherent regime"; two calls that miss together compute and return two.
* `ensure_default_book` is to guarantee the book also over a polluted registry; an
  instrument of another asset that bears a default's symbol or label counts as the
  default (`instruments.py:138-143`, `:213`) and keeps it out, against the docstring
  (`:191-197`). `EnsureGuaranteesBook` states what is left of the promise.
* `circuit.py:13` has a breaker "per (function, args) key"; the key (`:94-98`) has the
  function's name without its module, so functions of one name share a breaker for
  the same arguments: `fx_history` of `obb_layer/market.py` and of
  `obb_layer/macro.py` (`:43`), and `etf_history` of `market.py` and `screener.py`.
* `news_pulse.py:7-9` and `:31` say that the macro regime is blended into the
  direction; `_blend` (`:83`, called at `:198`) takes the headlines and the technical
  bias only. `Conviction!Blend` follows the code.
* `brain.py:122` ranks "best to worst"; the sort key `score or -99`
  (`brain_crypto.py:164`) puts a score of 0 below -1 of the same label.
* `grouped.py` says that the walk "Only raises if every attempt failed"; an exception
  that is no `RuntimeError`, as of an answer that is no JSON (`:63`), raises at once
  although sessions have been found.
* The VIX curve flipped to flat has no text of its own and is called stable
  (`analysis.py:324-333`).
* The header of `decision_brief.py` has every section that "returned empty" in
  `skipped`; `_skipped_sections` never lists smart money and filings.
* `providers.py:39-40` says that the chain raises "only if every provider failed";
  it raises if any provider failed and none gave rows, and so does the walk of
  `grouped.py`. The models follow the code.
* After a cooldown every thread that asks before the first outcome is let by, where
  `circuit.py:12` has "one trial".
* An asset without fundamentals, whose conviction is "insufficient", still has a
  score, that of the macro regime, whose sign counts as a fundamental lean
  (`decision_brief.py:86-88`) and may be reported as a conflict with fundamentals.
* The cache and the breakers never evict (`store.py:29`), and keys of price histories
  hold today's date.
* The label of a regime without inputs is recorded like any other and occupies its
  day (`history.py:46`).
* `add` of `custom_store.py` reads the registry again after its insert (line 34); a
  removal between the two makes it answer as if nothing had been added.

### 3.3 Bounds, and why they are enough

Threads are interchangeable and every race of the cache and the breaker is
between one call and one other; the bound of `BoundedBurst` is proved for any
number. Clocks: the cache run's clock reaches the longest TTL, which lets an entry
be filled, expire and be overwritten late; the breaker's time is
unbounded. Threshold 2 and cooldown 2 are the least values at which "below the
threshold" and "in the middle of the cooldown" exist. The registry needs two
requests to race, two defaults so that one can be lost while the other is
checked, and a third instrument that is not a default; one crash reaches every
partial book. Two days have one midnight between them, which may fall at every
step of a cycle; points of further days do not meet those of the first. Bounds
on the clock, the days and the crashes are guards of `Tick`, `Midnight` and
`Crash`; with the exception of `MaxTime` they only end an environment action, and
the theorems hold for every value of them. The six worlds of the brief are a
share that rises with everything for it but the news, two that rise on poor
fundamentals, an asset without fundamentals that falls, one that falls with
everything, and silence; between them they reach every class of conflict, every
label, and both sides of every opposition. One change of the world is enough to
tell the two readings of the setup, or of the regime, apart; failures are
independent of each other in the code, as one section never looks at another.

The price run has the deepest stack of the code, a cached and guarded function over
another over an unguarded REST entry, and a second thread that reaches that entry by
another way. With two points per series and two rules, an alert can be evaluated on both sides of a
new point; a rule removed leaves its id used, so a late toggle is possible. Two
browsers are the two sides of a race for a name, and one of them can be the admin.
Three items and two workers let a worker be free, busy or waited for out of order,
and put one item before and one behind an exception; 8 days contain a weekend and
weekdays on either side of it wherever today is; answers of the curve come in order and
out of order, with a point without a price, and are too short; their prices make every
structure and, between two of them, every trend and flip. The screens rank three rows
with scores of either sign and 0 and keep two of them, so that both the order and the
cut are at stake. `MaxTime`, `MaxPoints` and `MaxLimit` are the
bounds of these modules, in the guards of `Tick`, `Record` and `Search`.

Symmetry over threads is used only in runs without liveness properties.

### 3.4 Fairness

* `TtlCache`: weak fairness of `Finish` per thread. A thread inside `get_or_set`
  holds the lock for a dictionary operation, and every producer ends because
  its HTTP calls have timeouts. No call is ever forced to begin.
* `CircuitBreaker`: weak fairness of time and of every thread's progress, for the
  same reason, and strong fairness of some thread asking for a key: the pre-cache
  loop asks for every key in each cycle, and is at times refused. Recovery
  assumes that the key is asked for; a key nobody asks for stays as it is.
* `DailyHistory`: weak fairness of the recorder's steps, a thread with nothing to
  wait for but a timed event, and of `Start`: the platform restarts a service
  that is down (`railway.json`). Failures are not assumed to be rare; the
  property has their end as its hypothesis.
* `DecisionBrief`: weak fairness of the request's steps, a thread whose calls end.
* `Dashboards`: weak fairness of `Serve`, the steps of the pool and of its caller,
  whose calls have timeouts. No request is forced to come.

## 4. Proofs

Each theorem holds for all values of the constants that satisfy the named
assumptions of the modules (TTLs and lags natural numbers, ids distinct, and so
on), which TLC evaluates in the runs.

| theorem | says | argument |
|---|---|---|
| `TtlCacheProofs!TypeCorrect`, `Freshness` | `Spec => []TypeOK`, `[]AnswersAreFresh` | the invariant `FreshInv`: besides the property, a stored entry expires within TTL + lag of the instant its value was known (`EntriesExpire`), and a value about to be stored was known no more than the lag before its call began (`PendingIsFresh`). Without the second nothing can be said of a store, without the first nothing of a hit. |
| `TtlCacheProofs!LoadIsBounded` | `LoadSpec => []FillsPerTtl`, for any finite set of threads | `LoadInv`, with the potential `FillBudget`. Let m be the number of threads that are not in a call from before the period. While the entry serves, twice the fills and the misses in flight are at most m(m+1); while it does not, twice the fills and m are. A hit or a store uses up what a miss has reserved (`ServeWithin`); a late write of a call from before the period ends the service, and makes m grow by one (`LeftoverWithin`, `Triangle`). |
| `TtlCacheProofs!Refinement` | `SafeSpec => Abstract!SafeSpec` | under `FreshInv`, `Lookup` that hits and `Store` map to `Answer`, `Begin` to `Ask`, `ProducerRaises` to `Fail`, `Tick` to `Tick`, the rest to stutters |
| `ConcurrencyProofs!BreakerTypes`, `OpenExactlyAtThreshold` | `[]TypeOK`, `[]OpenIffThreshold` | inductive together (`BreakerInv`) |
| `ConcurrencyProofs!BurstIsBounded` | `HistSpec => []BoundedBurst` | `HistInv`, with the budget `BurstBudget`: while calls are refused, failures counted and calls in flight together stay within threshold - 1 + N; otherwise the count is at most the breaker's own. The cardinality of the calls in flight falls by one with every recorded outcome (`Landing`). |
| `ConcurrencyProofs!CooldownIsFromLastFailure` | `HistSpec => []CooldownFromLastFailure` | a conjunct of `HistInv` |
| `PriceProofs!PriceTypes`, `StackedAgesAddUp`, `EverySourceIsTried`, `OutageEchoDiesOut` | `OutageSpec => []TypeOK`, `[]AgesAddUp`, `[]FailuresArePassedOver`, `[]EchoDiesOut`, for any functions, sources, TTLs and breakers, which functions may share | `OutageInv`. `StacksAreNested`: a frame below another is in its body, at the source that the upper one is for, was called before it, and has more breakers under it; so no function is on a stack twice. `PhasesAgree`: where a frame is in cache, breaker and body. `GotIsFresh` is `PendingIsFresh` of the answer in the hands of a body. `TriedInOrder`: the sources before the present one have been tried. `CoolingEchoes`, `FailuresEcho`, `HurtEchoes`: every cooldown, every failure on its way to a breaker and every exception kept by a body leaves room for itself in the echo, which is that of any function under the breaker, since those that share one are equally high (`SharedAssumption`). |
| `PriceProofs!LayersAreCaches`, `LayersAreGuarded` | `OutageSpec => Cache!SafeSpec`, `OutageSpec => Breaker!SafeSpec`: the composition implements its parts | under `OutageInv`, every step of a thread is a step of the cache, of the breaker, of both or of neither. What `TtlCache` assumes of a producer (`Producible`) is here a result: it follows from `GotIsFresh` for the answer in hand, and from the ages of the layers for an answer handed up by the layer below (`TakeIsCached`, `AscendTakes`). |
| `RegistryProofs!RegistryTypes`, `RemovalsCounted` | `HistSpec => []TypeOK`, `[]RemovalsAddUp` | `CountInv`; the facts about deleting from and inserting into a sequence without duplicates are `CutAt`, `InsertTable`, `DeleteTable` |
| `RegistryProofs!BookGuaranteed` | `HistSpec => []EnsureGuaranteesBook`, for any instruments, symbols and labels | `BookInv`: of every default that an `ensure_default_book` has passed a row that stands for it (`StandsFor`: itself, or one that goes by its name) is tracked, unless such a row was removed since it began (`Passed`). The corollary `WholeBook` draws the conclusion for a registry in which no other instrument goes by the name of a default: the whole book is tracked. |
| `DailyHistoryProofs!RecorderTypes`, `OnePoint` | `Spec => []TypeOK`, `[]OnePointPerDay` | `DayInv`: rows and both readings are not later than the present day, and the timestamp's day is not earlier than the day looked up (`ClockInv`). If the day looked up has no point, every row is of an earlier day, since a row of a later day would have been written by this very thread, after this reading. |
| `DailyHistoryProofs!CyclesRecord` | `CovSpec => []CycleRecordsItsDay` | `CoverInv`: in a cycle that is still in its first day and has had no failure, whatever it had a reading of has its point of that day or waits in `todo`; between the parts nothing waits. The write leaves a point of the day looked up whether it finds one or inserts it (`CoverWrite`), and points are never taken away. |
| `BriefProofs!BriefTypes`, `SectionsAccounted` | `SafeSpec => []TypeOK`, `[]EverySectionAccounted` | `BriefInv`: besides the types, `Accounting`, the bookkeeping of `brief`: a section is planned, waits, and is then answered or has raised, and only smart money, filings and news may leave nothing. |
| `BriefProofs!Opposition` | `[]OppositionOutweighed` | `LabelsFollowScores` and `BiasFollowsScore`: a label has the sign of its score, a bias two points. |
| `AlertsProofs!TypeCorrect`, `NoFlagIsStale`, `CountIsFair`, `RemovalIsFinal`, `NoContradictionWithoutNews` | `Spec => []TypeOK`, `HistorySpec =>` the four properties of `Alerts` | `AlertsInv`. `FlagsHavePoints`: the point behind a flag is the last one of the time the rules were listed, or a later one, and points are only ever appended. `CountsAreFair`: a rule that a request still has to evaluate and takes to be on is known to have been on. If a series has not got a point since, both opposite rules read the same one (`OnePointDecides`), and opposite comparisons of one number disagree (`OppositesDisagree`). |
| `AccountsProofs!TypeCorrect`, `NamesHaveOneOwner`, `BootstrapAdminStays`, `SessionsLast`, `SwitchedOffStays` | `Spec => []TypeOK`, `HistorySpec =>` the four properties of `Accounts` | `AccountsInv`. `PendingConfirmations`: between its insert and its reply a creation owns the row alone, and nobody has been told yet. `AdminHasNoRow`: nobody gets past the look with the admin's name. `CookiesAreDated`: a cookie expires a lifetime after the sign-in that set it and is signed by the key that still holds. |
| `ConcurrencyProofs!ResultsInOrder` | `FanSafeSpec => []FanInv` | with `TakenInOrder`: the caller holds the results of the first items, and what has become of the next one says where the call is. |
| `ConcurrencyProofs!PoolImplementsOrderedMap` | `FanSafeSpec => Map!SafeSpec`, for any items, results and number of workers | under `FanInv`, `Finish` and `Fail` map to `Settle`, the last `Collect` to `Return`, `Join` to `Raise`, `Begin` to `Ask`, `Leave` to `Leave`; the rest is invisible. A raised exception needs that everything before it was taken, which `TakenInOrder` gives. |
| `ConcurrencyProofs!PagesTypes`, `PagesImplementOrderedMap` | `PagesSpec => []PagesTypeOK`, `PagesSpec => Map!SafeSpec` | `PagesInv`, whose part `RequestsInv` says which request owns the pool: outside of it the steps of a page leave the pool alone, inside they are steps of `FanOut` with a list and results that it allows. |
| `ConcurrencyProofs!RowsFailAlone` | `PagesSpec => []FailureStaysLocal` | `RowsInv`, in `PagesInv`: what each worker has met and where it is, that a finished row is made of just that, and that "gone" was met only for an instrument that was tracked as the request began and is no longer. |
| `ConcurrencyProofs!ScreensKeepTheBest` | `PagesSpec => []BestRankedFirst` | `RankedInOrder` and `UpToPrefix`: a stable descending sort has no element before one with a larger key, and what a prefix leaves out has no larger key than what it keeps; the keys order rows as `Better` does. |
| `ConcurrencyProofs!WalkFindsSessions` | `PagesSpec => []SessionsAreTheirOwn` | `WalkInv`: also during the walk the days found are before the present one, in order, and every weekday passed is among them or void. That they are the latest trading days cannot be said: a refused one is passed by. |
| `ConcurrencyProofs!HitsAreRanked` | `PagesSpec => []HitsRankedByAgreement` | the sort as above, keyed by agreement, score and move. A ticker whose tag contradicts its move is among the first `TopN` of a list sorted by moves, so fewer than `TopN` have moved that way: counted over the positions of the list. |
| `ConcurrencyProofs!CurvesAreReadRight` | `PagesSpec => []CurveIsReadRight` | `CurveInv`: the two readings are consistent, their structure being that of their ends. The points with a price, sorted by expiration, begin with the nearest and end with the farthest (`CurveInOrder`, `EndsOf`); what is said of two readings follows their fractions, case by case of the two structures (`ReadFollows`). |
| `ConcurrencyProofs!SearchMissesNothing` | `PagesSpec => []SuggestionsComplete` | per asset class, from facts about a list filtered, freed of repetitions and cut (`SearchInv`). |
| `ConcurrencyProofs!FeedsAreWhole` | `PagesSpec => []FeedIsWhole` | `FeedInv`: no two headlines of one key; the list so far is that of the targets merged so far, each tag being from the wire of a merged target and each story of such a wire in the list with its tag (`MergedInv`); nothing is merged before all results are in (`FetchInv`); a story of the world wire is tagged with what its text mentions and was tracked as it was read, so that what is tracked now is among the tags and the tags are among what was tracked first (`TaggedInv`). `MergesInto` says what one wire adds to a list. |

Every invariant of the passing runs is stated by one of these theorems. Only
model-checked are the five temporal properties, for what they say of liveness,
which the prover does not reach: `Recovery`, `DayGetsItsPoint` and `AlwaysAnswered`
altogether, and of `ImplementsFreshRead` and `ImplementsOrderedMap` the fairness of
the abstract specification; that every step maps to a step or a stutter is proved
(`Refinement`, `PoolImplementsOrderedMap`, `PagesImplementOrderedMap`).

The assumptions on constants are those under which the code runs. Threads are
finite in number in `CacheLoad`, since the pools of the server are. TTLs (in `PriceFetch`), thresholds
and cooldowns are positive, as in `cache/__init__.py` and `circuit.py`. In `PriceFetch` (`LayersAssumption`) and
`PriceOutage` (`BreakersAssumption`) a function that reads through another one has a
breaker, and its lag and height are at least those that the layers below add up to;
that no function reaches itself follows. Functions that share a breaker are equally
high (`SharedAssumption`), so none of them reads through another, as in the code.
The prices of a curve are natural numbers (`ChainsAssumption`): the VIX is not
negative. Lists of the code (the book, the sector
funds, the majors) have no element twice, and sequences of
figures are sequences of integers, of which the missing figure is none. To be reasoned
about, sorting and merging are written over sets of positions (`Rankings!Picked`,
`Among`, `Ranked`; `NewsFeed!Merge`) and not by recursion.

## 5. Plan

What is left, in this order:

1. Proofs: the reply of `startup_seed` as a conditional theorem (without a crash
   or a failing call startup leaves the whole book), and the bounds of `CircuitHistory`
   for the breakers inside the stack, over `LayersAreGuarded`.
2. `SpaClient`: the page's copy of the registry and its panels, over `Registry`
   (`web/app.js:483`, `:754`, the two hazards without a property).
3. The equity screen and the market screen as further views.

A violated run whose disagreement has been settled makes room for a new one.

## 6. Not modelled, and why

* Numerics: realized volatility, HAR forecasts, indicators, percentiles. They are
  floating-point computations on series, out of TLC's reach; their labels are
  inputs of the models.
* Reshaping of provider data (`obb_layer/normalize.py`, COT indices, macro series,
  fundamentals, ownership, filings): stateless; their caching, failures and
  concurrency are those of `TtlCache`, `CircuitBreaker` and `PriceFetch`.
* In `Views`: of the edits of the registry only removals come between the list and
  a row, since an addition is in the next list only; of the tags of the setups and
  the columns of rows nothing is kept but the figure that is ranked. The equity
  screen, whose universe is FMP's screener, and the market screen are not among the
  views. In `TermStructure` the spread in percent is a fraction, without its
  rounding to two decimals, within which the code calls two curves stable. In `MarketScan` the floors on price and volume have been applied.
* Matching of text: which symbols match a query, which instruments a headline
  mentions, and the keywords of the pulse are choices of the models.
* Cookie signing and password hashing: cryptography; a signature verifies exactly
  under the key that made it.
* Routers and MCP tools: one call of a service each.
* The web page: its registry copy and panels are planned (section 5), rendering is
  layout.
* `obb_layer/fmp_curve.py`: never reached, since the roots that FMP has are
  unavailable before any fetch (`services/term_structure.py:31`, `:92-93`).
* `kronos_layer` and scripts: a neural model and offline evaluation.
* `services/doctor.py`, `config.py`, `obb_layer/probe.py`: read-only reports and
  environment parsing.
* The TradingView webhook: a single append to a table that is only listed.
