# A verification project for the Ajar Gateway

The Ajar Gateway is a reverse proxy that serves signed, prepared artifacts (a
manifest, a view index and views) from memory beside an ordinary HTTP origin.
This directory models it in TLA+: the process from its command line to its exit,
the loading and hot reload of the prepared content store, the request path that
reads it, the routing, negotiation and header handling of one exchange, and the
calendar that decides when a manifest has expired. TLC checks small instances.
TLAPS proves the main safety properties for every value of the constants.

## 1. Inventory

| Component | Where | State | Operations |
|---|---|---|---|
| Content store | `crates/store` | none (a loaded `PreparedContentStore` is immutable) | `load_from_dir`, the validations, lookups |
| Timestamps | `crates/store` | none | `parse_rfc3339_utc`, `days_from_civil` |
| Hot reload | `crates/serving` `reload_store` | `Arc<RwLock<Arc<PreparedContentStore>>>`, counters, `manifest_expiry_logged` | `POST /reload` on the admin listener |
| Request path | `crates/serving` `proxy_request`, `serve_*` | the same, read only, and the upstream call in flight | any request on the public listener |
| Pure helpers | `negotiate`, `request_target*`, `if_none_match_matches`, `strip_hop_by_hop_headers` | none | |
| Metrics | `Metrics` | seven atomic counters | increments, `GET /metrics` |
| Lifecycle | `ajar-gateway/src/main.rs`, `serve_until_shutdown_with_clock` | listeners, a watch channel | configuration, startup, graceful shutdown |
| Adapters (external) | `docs/CONTENT-STORE.md` | the directory at `store_dir` | rename a release into place, then `POST /reload` |
| Origin, clients, clock, stderr (external) | | | answer, fail or stay silent; disconnect; advance or be set back; fail |
| Signer, Harvester, Extractor, Inducer, Policy engine | their crates | none | interfaces and types only |

How they interact:

- startup loads the store before it binds a listener, and ends if that fails; it binds
  both listeners before it serves on either;
- a spawned task waits for SIGTERM or SIGINT and tells both servers over a watch
  channel; each drains its own connections, and the process ends when both have;
- a request counts itself, takes an `Arc` to the store under the read lock and
  keeps that snapshot to its end, so a later swap does not reach it;
- a reload loads the directory without any lock, takes the write lock, compares
  manifest sequences, and assigns. On failure it counts and logs, and a rejected
  rollback does so while it still holds the guard;
- the two paths share the counters and the flag that limits the expiry log.

What is hard: a load is many file reads, each resolving `store_dir` again, while
adapters rename directories. Reloads overlap and reach the lock in any order. The
manifest expires between validation and answer. A panic under the guard poisons
the lock. A signal may come before the servers poll their receivers, or before the watcher
has installed its handlers. A view's URL, a request's target and `views.index` are three
texts that are compared without being parsed. The origin's answer, the timeout and the client's disconnect race at
one await. `PROJECT.json` lists every hazard at its line.

What makes each component correct:

- *store*: only validated artifacts get into a store, and no two views answer for
  one request target; a failed load leaves no trace;
- *reload*: all or nothing, never back to a lower sequence, a mixture of releases at most until the
  newest is served, what was acknowledged is served, and the release that adapters published last is
  served in the end;
- *request path*: no client goes back in time, nothing prepared is served past its
  expiry, everybody is answered, a 304 is truthful, the expiry is logged once, the lock is never left
  behind, and each counter equals the number of requests or reloads it is to count;
- *exchange*: the representation chosen does not depend on the order of `Accept`, a view with an ordinary URL is
  what that URL brings, exactly the hop-by-hop fields stay behind;
- *lifecycle*: a start that fails has served nobody, a shutdown that succeeds has cut nobody,
  and a signal is enough to end the process;
- *timestamps*: the number of days is that of the calendar.

## 2. Modules

| Module | Models |
|---|---|
| `ContentStore` | the directory and the validations as data: which releases are sound, what a loaded store is |
| `StoreCell` | abstract specification of hot reload: one atomic replacement by one whole sound release, never by one of a lower sequence |
| `StoreReload` | startup and any number of reloads, one file per step, beside adapters and clock |
| `StoreReloadProofs` | eight theorems about it |
| `Bulletin` | abstract specification of what adapters and readers may rely on: numbered publications, acknowledgements, and readers who find what was acknowledged before they asked |
| `Gateway` | `StoreReload` composed with adapters that wait for the answer to their reload and with readers |
| `GatewayProofs` | five theorems about it, among them that it implements `Bulletin` |
| `Serving` | requests and reloads on the shared store: lock, poisoning, counters, log flag, expiry, conditional requests, upstream |
| `ServingProofs` | eight theorems about it |
| `Exchange` | one exchange in detail: request targets, routing, `negotiate` item by item and `q` by `q`, hop-by-hop names collected and removed one by one, the Link to the manifest |
| `ExchangeProofs` | five theorems about it |
| `Lifecycle` | configuration, startup, signals, graceful shutdown, beside connections on both listeners |
| `Process` | abstract specification of the process's life: it starts with all of its listeners or not at all, and once it has closed one it ends only by serving everybody to the end |
| `LifecycleProofs` | four theorems about `Lifecycle`, among them that it implements `Process` |
| `Calendar` | `days_from_civil` beside a calendar turned month by month |
| `CalendarProofs` | that it counts the days of every month of every year from zero on |
| `MCStoreReload`, `MCGateway`, `MCServing`, `MCExchange`, `MCLifecycle` | instances for TLC |

`Serving`, `Exchange` and `Lifecycle` look at the same handlers from three sides: what many requests
and reloads do to each other, what one exchange does in full, and what a connection needs for
a shutdown. Each abstracts what the others detail.

### ContentStore and StoreReload

`Dir[r]` is the content of a release: which of its three parts exist and decode
(`sound`), the manifest's sequence and two timestamps, and for each view file the
request target its `url` resolves to, `Rejected` if the file is malformed or
its url cannot be served, `NoFile` if there is none. The bytes of an artifact
are abstracted to the release they were read from, so a store is a record of
origins and "a mixture of two releases" can be said.

`served` is the shared store and `pc`, `build`, `todo` are the locals of each
loader (`Boot` for startup, one per reload handler). One action is one file
access and the checks that follow it before the next one:

| Action | Code |
|---|---|
| `ReadManifest` | `read_artifact("manifest.json")`, required fields, lifecycle against the clock |
| `ReadIndex` | `read_artifact("view-index.json")` and its JSON |
| `ListViews` | `json_files`, the sort |
| `ReadView` | one turn of the loop: read, decode, required fields, target, duplicate check |
| `Start`, `Swap`, `RejectRollback`, `Fail` | the end of startup and of `reload_store` |
| `Place`, `MoveAside` | an adapter's renames: the exchange of one directory for another, in one rename or two |
| `SetClock` | the wall clock, which may be set back |

Swap is one action: the comparison and the assignment are made under one write
guard. The listing of `views/` is one step although `readdir` is not atomic: the
documents forbid changes within a live directory, and a rename replaces the
directory as a whole. `MayOverlap` says whether adapters may rename during a load
and `Increasing` whether every release placed has a higher sequence than the one
before. They are the assumptions under which the stronger properties hold, and
the code enforces neither.

### Serving

`request[r]` holds the locals of `proxy_request` and `reload[h]` those of
`reload_store`, at the granularity of what the other side can see: the counter,
the lock, the clock, the flag and the log are separate steps. The kind of a
request stands for the outcome of routing and negotiation (manifest, index, view
as JSON, view as markdown, view left to the origin, anything else). The declared length is read only on the way to the
origin, and any request that gets there may have one that is accepted (`Forward`) or not (`Refuse`); by then
a view left to the origin has been counted (`CountPassthrough`). `Copies` gives a client the copies it can really hold: those
that it or another client was answered with for the same URL (`If-None-Match: *`
and tags made up by a client are left out). A load is abstracted to its result.
A reload that the sequence check or a poisoned lock refuses keeps the write lock
(`writer`) until `reload_failed` has logged, as the guard (or the `PoisonError` that
owns it) lives to the end of the `match`. A failing write to stderr makes
`eprintln!` panic: `LogPanics` unwinds the handler and poisons the lock if it is held.

History are the variables `acked` (the highest sequence any client was shown) and
`expiries` (expiry events written), the fields `floor` and `arrived` of a request, and the field `swapped` of a reload
(it has assigned its store), by which its answer and its counter are judged.

### Gateway and Bulletin

`Gateway` extends `StoreReload` with three things. `promised[h]` is the release that was placed last when
the reload `h` was posted: what its sender takes a 200 to mean. `acked` is the highest such promise that was
answered 200 (`Reloaded`, the `Swap` of `StoreReload`; a failed load and a rollback are the 409s
`LoadOrFail` and `Conflict`). A reader asks (`Ask`, which notes what was acknowledged by then) and is
shown one artifact of the snapshot taken later (`Show`). The 200 is taken as answered at the swap,
the earliest possible time, which makes the promise strongest.

`Bulletin` forgets files, directories, loads and locks. `Board`, the sequence served, is its board;
`Post` covers every reload, also a useless one. A reader may be shown more than is on the board,
because a torn store has content newer than its manifest, but nothing newer than the last publication. That the number
shown was ever published is not said: numbers of publications may be skipped.

### Exchange

`RequestTarget(u)` is the key of a view with the URL `u`, by the form of the URL: with or
without scheme, path, query and fragment, and with a slash within the query or fragment
(`AfterSlash`), where the code cuts if there is no path. `ToManifest`, `ToIndex` and `ToView` are the three
comparisons of `proxy_request` in their order; `index`, the text of `views.index`, is compared whole with the path of the
request. An item of `Accept` is its media type and the list of its `q` parameters: positive, NaN, zero or below, unparsable.
The inner loop of `negotiate` is a step per `q` (`ReadQ`, on `q` and `invalid_q`), the outer one a step per item
(`PassOver`, `NoteMarkdown`, `ServeViewJson`), and `NextItem` is what a new turn of it declares anew.

Header fields are abstract: a field has a name and a place among others of its name, and a `Connection` field lists
names. `strip_hop_by_hop_headers` is a loop too. `BeginStrip` starts with the fixed names, `ReadConnection` reads the
`Connection` fields in their order and collects what they list, `FindProxyName` adds the keys that start with `proxy-`, in any order,
and only then `RemoveName` removes the names one by one. It runs twice: `Forward` to `Send`, and
`OriginAnswers` to `Relay`, which appends the Link if the first `Content-Type` field (`IsHtml`) says so. A `Connection`
field that is not visible ASCII lists nothing.

### Lifecycle and Process

| Action | Code |
|---|---|
| `Configure`, `Misconfigured` | `parse_config_path`, `load_config`, `GatewayConfig::validate` |
| `LoadStore`, `LoadFails`, `BindPublic`, `BindAdmin`, `BindFails` | `serve_until_shutdown_with_clock`, up to the servers |
| `Watch`, `CannotWatch`, `Announce` | the spawned task: `shutdown_signal` of `main.rs`, then `shutdown_tx.send(true)` |
| `Signal` | SIGTERM or SIGINT: kills while no handler is installed, wakes the watcher, and is ignored afterwards |
| `Drain`, `Stop`, `Finish` | `shutdown_signal` of `serving`, the end of each server, `try_join!` |
| `Connect`, `Ask`, `Answer`, `Forward`, `TimeOut`, `Sent`, `CloseIdle`, `HangUp`, `OriginAnswers` | one connection: hyper, the routers and `proxy_request` |

`End` is the end of the process, which takes listeners, tasks and connections along and notes in
`cut` those that had a request in hand. A connection on which no whole request has come (`open`) is not
closed by a draining server, while an idle one is; that is how hyper drains. `Stop`, `CloseIdle` and the
clients are external: `axum::serve` returns no error, so `ProxyServerFailed` and `AdminServerFailed` do not occur.

`Process` forgets the configuration, the two binds, the watcher and the way of a request. Its listeners open together
(`BindAdmin`) and close one by one (`Drain`); a client is attached from `Connect` to the close of its connection and
has a request in hand from `Ask` to `Sent`. A signal may kill it until the first listener has closed, not later.

### Calendar

`DaysFromCivil` is `days_from_civil` with Rust's truncating division (`Quotient`).
The state machine counts the days of each month and knows nothing of the formula.
32-bit overflow cannot occur: with four-digit years every intermediate value is
below 4 million.

## 3. What TLC checks

| Run | Bounds | Shows |
|---|---|---|
| `reload_serial` | 8 releases, 2 handlers, 3 times, no rename during a load | `TypeOK`; `ServedWhole`; `ImplementsStoreCell`: reload refines the atomic cell |
| `reload_overlap` | 3 releases that swap pages (one with a bad view), 2 handlers, renames and clock jumps at any step | `ServedValidated`, `SequenceNeverDrops` |
| `gateway` | 3 releases of increasing sequence, 2 handlers, 1 reader, renames and clock jumps at any step, fairness | `GatewayTypeOK`, `ContentNotOlder`, `TornIsOutdated`, `NewestStays`, `PublicationRead`, `AcknowledgedIsServed`, `LatestServed`; `ImplementsBulletin`: refinement |
| `reload_torn` | 2 releases, 1 handler | finding: `ServedWhole` fails |
| `serving_faults` | 2 requests of four kinds (manifest, index, JSON, browser), each with a declared length that is accepted or not, 2 reloads, 2 stores, 3 times, failing stderr | `TypeOK`, `MonotonicReads`, `FailClosed`, `ExpiryLoggedOnce`, `LockAccountedFor`, `OnlyAPanicRefuses`, `OutcomesCounted` |
| `serving_answers` | 1 request, 2 reloads, failing stderr, fairness | `EveryoneAnswered` |
| `serving_poisoned` | 2 requests, 2 reloads, failing stderr | finding: `KeepsServing` fails |
| `serving_tags` | 2 requests of one view, 1 reload | finding: `NotModifiedTruthful` fails |
| `calendar_days` | every year from 0000 to 9999 | `DaysCounted` for every accepted date |
| `lifecycle` | 5 command lines, 7 values of the environment, 9 paths, 3 connections, fairness | `TypeOK`, `FailedStartServesNobody`, `NoRequestCut`, `ShutdownCompletes`; `ImplementsProcess`: refinement |
| `exchange` | every loadable store of 8 forms of URL and every one of 3 forms of `views.index` with every target; `Accept` of up to 2 of 24 items; every subset of 7 request fields and 9 response fields | `TypeOK`, `Negotiated`, `OrdinaryUrlsServed`, `HopByHopStays`, `ManifestAdvertised` |
| `exchange_published` | stores with one view `https://host?x` | finding: `PublishedViewsServed` fails |

Why the bounds are enough. A torn store needs one rename during one load; a rollback
race needs two loads and two releases; a duplicate target needs a page that moves
between two files of two releases, which `r1` and `r2b` do. Each class of unsound
release occurs in `reload_serial`: duplicate target, no index, bad view, lifetime
too long, and expired once the clock moves. A backwards read needs one
request or reload that is answered from the newer store and one request that comes after it. Two reloads
are enough to reject one, to poison the lock and to find it poisoned. The calendar
is complete: no four-digit year is left out. A lost promise needs one reload that overlaps another
or a rename, and a reader that asks afterwards; `gateway` has both at every step. A shutdown goes wrong between
the two servers, or between a server and its connections: two connections on one listener and one on
the other. Order in `Accept` shows in two items, and each item takes every list of `q` the code
tells apart; a third item is covered by the proof. Two `Connection` fields, one of which lists
`connection` itself, are enough to lose one if anything is removed before both are read, and among the response fields are HTML
before and after another `Content-Type`, which tells the first from any. A browser's GET of a view with a declared length
over the limit is enough to tell a counter of what is passed through from one of what is forwarded. Handlers and requests are
interchangeable in the safety runs, which use symmetry; the runs of
liveness properties do not. In `StoreReload` a handler may be used again without limit,
and the only bounds are the sets of releases, handlers and times; in `Serving` each request
and reload is made once, and `LastTime` stops the clock. `CHECK_DEADLOCK FALSE` is set in
`Serving` because everything ends once all requests and reloads are done, and in
`Calendar` because it stops after the last month, in `Exchange` because it models one exchange, and in
`Lifecycle` because the process ends.

Fairness. *StoreReload*: a load has no await, so once begun it runs on (weak fairness of each
loader), and an adapter that renamed a release into place posts a reload
(`docs/CONTENT-STORE.md`, "After the rename succeeds, call the admin control
API"); one whose connection is refused because the gateway is still starting posts again, so that `pending`
survives until a store is served. Nothing is assumed of renames or of the clock. *Serving*: weak fairness
of the steps the gateway makes on its own, the timer of `tokio::time::timeout`
among them. This assumes that tokio runs every handler on and that whoever
reads stderr drains it; nothing is assumed of the origin, the clients or
the number of reloads. *Gateway*: the fairness of `StoreReload`; readers may never ask. *Lifecycle*: the process runs
its own steps on (weak fairness of startup, of the watcher's tasks, of each server's shutdown and of the handling
of a request, the timer among it). Nothing is assumed of signals, clients, the origin
or the length of a body, so `ShutdownCompletes` excepts a connection that a client holds for ever with half a
request or an unread body: the code sets no deadline.

Every property of a passing run has a mutant in `PROJECT.json`: a plausible bug,
written beside the definition it changes and marked as such, for which TLC finds
the property violated.

### Findings

1. **A rename during a load serves a mixture** (`reload_torn`). `load_from_dir` holds
   no handle on the directory, at startup (the trace) as in a reload. The documents promise that the swap is atomic, and
   the swap is, but the store swapped in need not be one release. What remains true
   is weaker: everything was validated (`ServedValidated`) and is no older
   than its manifest (`ContentNotOlder`), a mixture is served only while a still newer release has been
   placed (`TornIsOutdated`), and the reload posted after the rename repairs it (`LatestServed`) for good
   (`NewestStays`, `AcknowledgedIsServed`).
2. **A failed reload can stop all serving** (`serving_poisoned`). Logging happens under the
   write guard, a panic there poisons the lock, and every later request gets a 500
   where the documents say the old store keeps serving. Nothing else takes the store away: `OnlyAPanicRefuses`, and
   the theorem `KeepsServingUnlessStderrFails`.
3. **One strong tag for two representations** (`serving_tags`). JSON and markdown of a view
   share the etag, so a client is told that a copy it does not have is unmodified.
4. **A view without a path is served for another URL** (`exchange_published`). The documents promise the view
   for a GET of its `url`. `request_target_from_view_url` looks for the first slash after the scheme: for
   `https://host?x` there is none, the view is keyed `/`, and `/?x` goes to the origin. `OrdinaryUrlsServed` holds
   for every view whose URL has a path and no fragment and is shadowed neither by the manifest nor by the index.

The code also allows what no document excludes: a signal that comes after the servers accept and before the
watcher has installed its handlers kills the process with requests in hand (`Signal` before `Watch`), and a handler
that cannot be installed counts as a signal (`CannotWatch`). `NoRequestCut` holds of every
shutdown that reports success. An index whose `views.index` is an absolute URL or has a query is never served, as its text is
compared with a path (`ToIndex`). `docs/DEPLOY.md` line 100 promises `GET <manifest.views.index>` without saying which form it
has, and the manifest of the tests has `/ajar/views/index`, so `OrdinaryUrlsServed` speaks of an index whose URL is a path.

## 4. What TLAPS proves

All theorems hold for any releases, handlers, view files, clocks, stores and requests that
satisfy the modules' assumptions (`ContentStoreAssumption`, `StoreReloadAssumption`, `GatewayAssumption`,
`ServingAssumption`, `ExchangeAssumption`, `LifecycleAssumption`, `CalendarAssumption`): sentinels
differ from ordinary values, numbers are numbers, and tables are functions on their domains. TLC evaluates these assumptions in every run.

`StoreReloadProofs`

| Theorem | Property | Argument |
|---|---|---|
| `TypeCorrect` | `TypeOK` | part of `Inv` |
| `OnlyValidatedServed` | `ServedValidated` | `Inv` |
| `NoRollback` | `SequenceNeverDrops` | only `Start` and `Swap` change `served`; `Swap` compares, and `Inv` says that startup is over when a store is served |
| `WholeIfQuiet` | `ServedWhole`, if `~MayOverlap` | `QuietInv` |
| `ReloadImplementsCell` | `ImplementsStoreCell`, if `~MayOverlap` | step simulation under `QuietInv` |
| `NeverOlder` | `ContentNotOlder` | `OrderInv` |
| `OnlyOutdatedIsTorn` | `TornIsOutdated` | `NewestInv` |
| `NewestIsKept` | `NewestStays` | `Swap` asks for a higher sequence, and by `OrderInv` and `NewestInv` no loader has one |

`ServedValidated` says nothing of stores under construction and so is not inductive.
`Inv` adds that at each program counter exactly the parts already passed have been read and
were sound where they were read (`ReadingInv`), and that no handler runs before startup
has served a store (`Startup`). `QuietInv` adds that everything a busy loader has read or has
still to read is of the release now on disk (`TrackingInv`): that is what a rename during
a load breaks. `OrderInv` adds that a loader's parts, in the order they are read, have sequences
that do not fall and do not pass that of the release placed last. `NewestInv` adds that the releases at `store_dir` and in
memory have at most one with the newest sequence among them (`Agreed`), and that a loader which has read the newest manifest
has read everything else from the same release (`FromNewest`): whatever it reads later is no older, and nothing newer exists.

`ServingProofs`

| Theorem | Property | Argument |
|---|---|---|
| `TypeCorrect` | `TypeOK` | inductive as it stands |
| `ReadsAreMonotonic` | `MonotonicReads` | `ReadsInv`: whatever was shown, is about to be shown by a reload that swapped, or is held by a request, does not exceed the sequence of `served`, which never drops |
| `ExpiryFailsClosed` | `FailClosed` | `InTimeInv`: a request arrived no later than now |
| `LockIsAccountedFor` | `LockAccountedFor` | inductive beside `TypeOK` |
| `OnlyPanicsRefuse` | `OnlyAPanicRefuses` | `PanicInv`: the lock is poisoned only after a panic, which a reload never forgets |
| `KeepsServingUnlessStderrFails` | `KeepsServing`, if `~StderrMayFail` | no reload panics then, and `PanicInv` |
| `OutcomesAreCounted` | `OutcomesCounted` | `TallyInv`: each counter is the size of the set it is to count, and that set is finite |
| `ExpiryIsLoggedOnce` | `ExpiryLoggedOnce` | `ExpiryInv`: events written, plus the one that the unset flag still allows, plus the reloads counted that have not reset the flag yet, do not exceed one more than the reloads counted |

The bound on the log is not inductive: between `CountReload` and `ResetExpiryLog` the counter already allows an event that the
flag does not, and `Resetting`, a finite set whose size the proof follows, is the difference. `OutcomesCounted` is not inductive
either. What a counter is to count is a set of requests or reloads (`Counted`), and a step adds one element to the set of the
counter it raises and leaves the others alone (`AnswerCounts`, `ReloadSets`). For that the proof has to know that the sets are
finite, as `Request` and `Handler` need not be, that only prepared kinds find a manifest expired, and that the position
of a reload tells whether it has assigned its store (`Swaps`), as a panic and a 409 end it alike.
`KeepsServingUnlessStderrFails` is the other side of finding 2: the run finds the failure, the theorem says that a failing
write to stderr is its only cause.

`GatewayProofs`

| Theorem | Property | Argument |
|---|---|---|
| `GatewayTypeCorrect` | `GatewayTypeOK` | beside the invariant of `StoreReload` |
| `GatewayReloads` | (`StoreReload`'s `Spec`) | every action of `Gateway` is one of `StoreReload` or leaves its variables alone |
| `PublicationsAreRead` | `PublicationRead` | the invariant of `GatewayImplementsBulletin` |
| `AcknowledgedReleaseIsServed` | `AcknowledgedIsServed` | the same, with `NewestInv` |
| `GatewayImplementsBulletin` | `ImplementsBulletin`, if `Increasing` | step simulation |

`GatewayReloads` carries `StoreReload`'s invariants over. What is added: while a reload runs, its promise does not
exceed the sequence of anything it has read, because the rename came before the post and releases placed later are
higher; at the swap the promise becomes `acked` and what was read becomes `served`; so `acked` never exceeds
the sequence served, and with `ContentNotOlder` no artifact served is below it.

`ExchangeProofs`

| Theorem | Property | Argument |
|---|---|---|
| `TypeCorrect` | `TypeOK` | part of the invariant |
| `NegotiationIsRight` | `Negotiated` | `WeighedInv`: none of the items passed accepts JSON, and `markdown` says whether one of them accepts markdown; `ParamInv`: `q` and `invalid_q` say the same of the parameters read so far |
| `OrdinaryUrlsAreServed` | `OrdinaryUrlsServed` | `AnswerInv`: what was answered matches the target, and no two views of a loadable store have one target, so the view found is the view asked for |
| `HopByHopIsStripped` | `HopByHopStays` | `StripInv` |
| `ManifestIsAdvertised` | `ManifestAdvertised` | the Link is added after the stripping |

`StripInv` is the invariant of both loops of `strip_hop_by_hop_headers`: the names collected are the fixed ones and those that
the fields already read call for; nothing is removed before all are collected; and what is left of the original fields are those with
none of the names passed. When the last name has gone, these are the fields that do not belong to one hop (`OneHop`), a
definition that knows nothing of lists or of their order.

`LifecycleProofs`

| Theorem | Property | Argument |
|---|---|---|
| `TypeCorrect` | `TypeOK` | part of the invariant |
| `AllOrNothing` | `FailedStartServesNobody` | nothing is accepted before both listeners are bound, and from then on no step ends in failure |
| `GracefulShutdown` | `NoRequestCut` | a server that has stopped has no connection, and gets none |
| `LifecycleImplementsProcess` | `ImplementsProcess` | step simulation, with `WatchInv`: no server drains before the watcher has sent its message, so a process that a signal can still kill has both listeners open |

`CalendarProofs`

| Theorem | Property | Argument |
|---|---|---|
| `DaysAreCounted` | `DaysCounted`, whatever `LastYear` is | `TurnedInv`: the formula agrees on the first of the month that the calendar shows |

The calendar's step is split as the formula is: within a year that begins in March the formula adds the lengths of the months, and
from March to March it adds 366 days exactly if the February in between is that of a leap year (`YearStep`), by cases within a
400-year era, at its turn, and at the year zero, whose January belongs to the era before.

Only model-checked: `LatestServed`, `EveryoneAnswered` and `ShutdownCompletes`, which are liveness under fairness and out of
the prover's reach. Every invariant, action property and refinement that a passing run checks is a theorem.

## 5. Not modelled

- Bytes, JSON, signatures, markdown, HTTP framing, and the response headers of prepared artifacts. A value that
  is not a legal header value, which `insert_header` drops, needs the characters of signed artifacts.
- The text of timestamps: which digits are where. `Calendar` starts from year, month and day.
- The preference that `q` values express: `negotiate` reads them only as acceptable or not.
- `ProxyHttpError::InvalidUpstreamUri`: a path and query that came from a parsed URI parse again.
- A streamed body that passes the limit fails the upstream request and appears as `OriginFails`.
- `GET /metrics` and `GET /healthz` change nothing. The page reads seven counters one by one; nothing more than each
  counter's own value is promised of it.
- The freshness of the copies that clients and shared caches keep: a 304 without `Cache-Control` and passthrough HTML
  without `Vary` are hazards outside the gateway, and no document limits them.
- Two overlapping loads of one sequence with different content: the later swap wins by design.
- The clock of `Serving` does not go back; that of `StoreReload` does. With a
  clock set back, `FailClosed` would say the same of the time read last. No property is about a release that expires, is
  refused, and is accepted again because the clock was set back.
- The number of tokio workers: a reload reads the disk on one.
- Startup on systems without Unix signals, and a failure to install the handler of only one of the two signals.
- A stderr that fails, in `Lifecycle`. `log_event` of `main.rs` panics then and ends the process with 101, before it serves
  anybody (lines 20 and 33), but also at line 41, after a shutdown that has answered everybody: that end is neither a failed start nor
  a cut request, and `FailedStartServesNobody` and `NoRequestCut` do not speak of it. `Serving` models what the same failure does to
  reloads and requests.
- An expiry between the arrival of a request and its answer, which the handler notices or not, and one between a load and its swap,
  which the handlers of later requests notice (`FailClosed`).
- `FilesystemStorageBackend::write`, which nothing calls, and the crates without behaviour.

## 6. Plan

Done, in this order: `ContentStore`, `StoreCell`, `StoreReload`, `Serving`, `Calendar`; then `Lifecycle`, `Exchange`,
`Bulletin`, `Gateway` and `Process`, with the proofs above.

Left:

1. That `Serving`, seen through the snapshot of one request, implements `Bulletin` too. It needs a history variable for
   the sequence placed last, which `Serving` does not have.
2. A module of the client's cache, if the documents come to promise freshness.
