# A verification project for nitr

nitr is a web server whose applications are Lua scripts: a hyper front end, a pool of Lua
states, a router, and builtins for SQLite, caching, outbound calls, sessions, validation and
files. This directory holds TLA+ models of its parts, the TLC runs that check them on small
instances, and TLAPS proofs of what holds at every size. Paths below are relative to
`src/crates/`.

Check a run with `tlc -workers 2 -config X.cfg MCX`, a proof with `tlapm X_proofs.tla`.
`PROJECT.json` maps every definition to the lines it models and lists the runs, the mutants
(plausible bugs, at least one per property, that make TLC find a violation), the findings
and the hazards.

## 1. Inventory

### How the parts interact

    listener ── serve loop ── connection task (hyper) ── Svc::call ── handler
        │            │                                        │
    slots (sem.)  SIGHUP / watcher ── reload task         runtime pool ── Lua state
                     │                     │                  │             │
                  readiness, drain     swaps pool+docs     stream task   db, fetch, cache,
                                                           + permit      session, validate

* A process layers its configuration from a file, an environment file, the environment and
  flags, validates it, and may first extract itself from a bundle.
* A connection takes a slot before `accept()`; its task lives until hyper is done.
* A request passes protection (sizes, rate limit), is routed in Rust when all states run one
  application, checks a Lua state out of the pool, has its declared input read and validated,
  runs the handler under an execution budget, and drops the guard: the state goes back, or is
  thrown away and rebuilt. Static files are served without a state.
* A streaming response moves guard and stream permit into a task that outlives the request.
* A reload builds a new pool on a blocking worker and swaps it with the OpenAPI document;
  requests keep the `Arc` they read.
* File system, database and password work are jobs of a blocking pool; a job goes on when the
  future that awaits it is dropped.
* Shared by all states of a process: the cache, the limiters, the HTTP client, the password
  decoy. Owned by one state: the SQLite connection, the outbound budget, the CSRF slot, the
  compiled application. Shared by processes: the database file with its table of migrations,
  the upload directory, the bundle cache. Kept by clients: sessions, tokens, copies of files.

### Components, their state and what makes them correct

| component | state | operations | correct means | hard because |
|---|---|---|---|---|
| Runtime pool `nitr-core/src/runtime/pool.rs` | channel of runtimes, guards, lost count | get, get_timeout, guard drop, rebuild | one owner per state; nothing leaks; damaged states never come back; waiters are woken | futures dropped at any await, panics, rebuilds that fail |
| Reload `nitr-http/src/server/{mod,pool}.rs` | atomic IDLE/RUNNING/PENDING, pool and docs behind locks | reload, rebuild task, TLS re-read | no request for a reload is lost; pool and docs belong together | two atomic operations that are not one step; overlapping tasks |
| Watcher `nitr-http/src/watch.rs`, `nitr test --watch` | event channel, channel of one | event, debounce, rerun, stop | every save is followed by a run that began after it, and no run causes the next | debounce and full channel against a run under way |
| Request path `nitr-http/src/handler/mod.rs`, `service.rs` | stage of a request, what it holds | protect, route, check out, call, error handler, finish | whatever ends a request, it holds nothing afterwards; limits are spent once | hang-ups, timeouts and panics at every await; the state may run another application than the one routed by |
| Streams `nitr-http/src/stream.rs` | permits, producer tasks | start, send, end | never all states | outlive request and connection |
| Serve loop `nitr-http/src/server/serve.rs` | slots, readiness, drain and deadline | accept, back off, handshake, drain, time out | slots conserved, honest readiness, shutdown ends | select arms dropped half way, deadline races |
| Router, middleware `nitr-http/src/app` | the application a script registers, the chains compiled from it | register, group, mount, load, look up | the chain is what the groups declare; a request gets its own route | order of registration; a state compiled from an edited script |
| Bodies, multipart, spool `nitr-http/src/{request,multipart,validation}` | body taken or not, files in a directory | read, stream, spool, save, sweep | limits hold across parts; files are whole or not there; nothing is left | cut requests whose jobs go on, crashes |
| Input declarations `nitr-http/src/validation` | declaration of a route | compile, select media type, read and check four parts | what loads can be served | rules at load and checks at request written apart |
| Validation engine `nitr-std/src/validate/engine` | nesting level, deferred scripts | check, coerce, scripts | the verdict is the schema's | scripts that validate again |
| Schemas, OpenAPI `nitr-std/src/validate`, `nitr-http/src/openapi` | schemas, the document and its file | compile, derive, export, write | rules stay sound; the document says what schemas say | derived schemas, titles that meet, bounds given twice |
| Sessions, CSRF, cookies `nitr-std/src/{session,csrf}.rs`, `http/` | signed cookies, one CSRF slot per state | load, set, rotate, save, verify | a token belongs to one request | the slot outlives the request; ids may be the client's; old cookies come again |
| Credentials `nitr-std/src/crypto` | the decoy hash | verify a token, a password | validity only ends; a failed login says as little as can be | seconds and leeways; two first logins |
| Static files, ranges, CORS, compression | files, mtimes, client copies | locate, serve, negotiate | a copy is one file; caches may share what `Vary` says | a file replaced between two looks |
| JSON `nitr-std/src/bounded.rs` | depth and node budgets | write, guard, read | bounded, and read back as written | cycles, holes, keys without a JSON name |
| Database `nitr-std/src/db/mod.rs` | connection, in_transaction flag, scopes, blocking jobs | statements, await_all, transaction, savepoint | transactions are all or nothing; the connection stays usable | jobs outlive their futures, guards the client |
| Migrations `nitr-std/src/db/migrate.rs` | files, ledger table | run | the ledger says what was applied | two processes, crashes, edited files |
| Cache `nitr-std/src/cache.rs` | entries, two indexes, byte count | get, set, delete, clear, remember | bounded; indexes agree | ticks taken outside the lock |
| Rate limiter `nitr-http/src/protect.rs` | buckets, last purge | check | at most two budgets in a window's length; bounded memory | purge and cap race with clients |
| Outbound calls `nitr-std/src/fetch/` | budget, jobs in flight | send, await_all, redirect, retry | policy at every hop, no repeated POST, bounded work | names that resolve anew, lost answers, partial failure |
| Configuration `nitr-cli/src/main.rs`, `nitr-http/src/config` | the layers, the result | layer, validate | what is served is what the layers spell, uploads not among code | a later layer undoes what an earlier one made safe |
| Bundles `nitr-cli/src/bundle.rs` | the extraction cache | start | what is reused is whole | concurrent starts, crashes |
| Test runner `nitr-cli/src/cmd/test`, `test_framework.lua` | plan, groups, shared cache, clock, doubles, database | run files, hooks, restore | a verdict is the test's own | tests cut, failed or poisoned half way |
| Media sniffing, error pages, TLS files, small builtins, command line | — | — | — | formats and I/O |

The full list, with the parts that are left out and why, is `components` in `PROJECT.json`;
`hazards` lists what is hard to test, line by line, with the properties that watch over it.

## 2. Modules

| module | models | state and actions |
|---|---|---|
| `ResourcePool` | what a pool promises, abstractly | free, used and retired resources |
| `RuntimePool` | `runtime/pool.rs` | `idle` is the channel, `held` the guards, `waiting`/`woken` the channel's waiters; checkout, expiry, cancellation, poison, panic, the two ends of `Drop`, the rebuild job |
| `Reload` | `server/mod.rs`, `server/pool.rs` | `reloading` is the atomic, `pc[t]` where a rebuild task is, `live`/`docs`/`lock` the swap, `seen` what a request read |
| `RequestPath` | `handler/mod.rs`, `service.rs`, `stream.rs`; extends `RuntimePool` | `stage[r]` where a request is; each step of the handler moves the pool by the pool's own actions |
| `ServeLoop` | `server/serve.rs`, `health.rs` | `loop` the select loop, slots, connection states, drain with its two budgets |
| `DbTransaction` | `db/mod.rs` | `dbJobs` the blocking pool, `frames` SQLite's transaction stack, `stack`/`phase` the scopes of the handler, `uncollected` what a hang-up left to the collector |
| `DbMigrate` | `db/migrate.rs` | runner processes, files, schema and ledger, crash at any step |
| `Cache` | `cache.rs` | entries with tick and expiry, both indexes, callers between taking a tick and taking the lock |
| `RateLimiter` | `protect.rs` | buckets, purge, clock; a history of admissions |
| `Fetch` | `fetch/{client,policy,retry,budget}.rs` | jobs of one `await_all`, each a chain of hops within attempts |
| `Bundle` | `nitr-cli/src/bundle.rs` | `disk` the cache's directories, `starts` the processes; extract, mark, rename, sweep, crash |
| `Configuration` | `nitr-cli/src/main.rs`, `nitr-http/src/config/` | `boot` goes through the layers of one deployment, `conf` is what they make; a small file system with links for the rules about places |
| `TestRunner` | `nitr-cli/src/cmd/test/mod.rs`, `test_framework.lua`, `db/testing.rs`, `clock.rs` | `run` where the runner is, `world` what tests share, `groups` the hooks that ran; each script step may act, raise, run out or poison |
| `Watch` | `watch.rs` and the session of `nitr test --watch` | `thread`, `events`, `wanted` (the channel of one), `session` |
| `Content` | `static_files.rs`, `range.rs`, `request/fresh.rs`, `compress.rs`, `cors.rs` | a file under deployment, requests of two looks, clients' copies, a shared cache |
| `Paths` | `path/mod.rs`, `safe_path.rs`, `multipart/upload.rs` | a text typed character by character; each state an input |
| `Negotiation` | `range.rs`, `request/fresh.rs`, `compress.rs`, `http/mod.rs` | one header handed to one parser; each state an input |
| `Upload` | `request`, `multipart`, `validation/{run,multipart,raw,spool}.rs` | `up[r]` a request and its body, `jobs` the blocking pool, `dirs`/`staged`/`target` the disk, `held` the saves a hang-up left suspended |
| `RouteInput` | `validation/mod.rs`, `validation/run.rs` | a declaration, its compilation, a request |
| `Session` | `session.rs`, `csrf.rs`, `http/cookies.rs` | cookies visitors hold, exchanges under way, the slot of each Lua state |
| `Credentials` | `crypto/{jwt,password,mod}.rs` | a token under a clock, two logins and the decoy |
| `Validate` | `validate/engine/`, `coerce.rs` | `frames` the runs that scripts nest, `nesting` the level, `stranded` the levels a hang-up left held |
| `Schemas` | `validate/compile/`, `shorthand.rs`, `lua.rs` | the schemas a script has made; compile, derive |
| `OpenApi` | `validate/schema_json.rs`, `nitr-http/src/openapi/`; extends `Schemas` | declared routes, the document being built, the served one, the written file |
| `Routes` | `nitr-http/src/app/`, the routing half of the handler | the calls of a script, what each state compiled, the pool's routing, requests |
| `Json` | `bounded.rs`, `json.rs`, `utils.rs` | `graph` a script's tables, `walk` the writer, token by token; the reader |
| `MCRuntimePool`, `MCReload`, `MCRequestPath`, `MCServeLoop`, `MCDbTransaction` | — | instances of one module |
| `MCDatabase` | — | `DbTransaction`, `DbMigrate` and `Upload` in one run |
| `MCShared` | — | `Cache`, `RateLimiter`, `Fetch`, `Bundle`, `Configuration`, `TestRunner`, `Watch` in one run |
| `MCWeb` | — | `Content` to `Json` in one run |
| `RuntimePool_proofs`, `Reload_proofs`, `RequestPath_proofs`, `ServeLoop_proofs` | — | inductive invariants and theorems of one module each |
| `Database_proofs` | — | the same for `DbMigrate` and `DbTransaction` |
| `Http_proofs` | — | the same for `Fetch`, `Negotiation`, `RouteInput`, `Paths` and `Schemas` |
| `Shared_proofs` | — | the same for `RateLimiter`, `Bundle`, `Watch`, `Cache`, `TestRunner` and `Configuration` |
| `Web_proofs` | — | the same for `Credentials`, `Session`, `Upload`, `Content` and `Routes` |

The components of `MCDatabase`, `MCShared` and `MCWeb` share no state, so a variable `part`
says which of them moves; nothing is lost by not interleaving them. Components that do
interact are composed: `RequestPath` takes the pool's own actions, `OpenApi` exports what
`Schemas` made.

Conventions: a definition keeps the source's name where it can; `X_bug` before `X` is a
mutated form used to show that a property notices; bounds are constants marked *bound*;
`history` variables record what a property speaks about and guard no action, except as
bounds. A property of a run is often a conjunction of named parts, each with its own comment.

Abstractions that matter:

* What a script *is* is a version number, or the calls it makes. Handlers, upstreams,
  clients, SQLite, hyper, async-channel, matchit, serde_json and the file system are external;
  `map` marks them so.
* A waiter of the channel registers, is woken by a send, and tries again: a newcomer may
  overtake it. (`pool.rs:29` speaks of FIFO order; `pool.rs:145`'s `try_recv` does not keep
  it. No property assumes it.)
* In `RequestPath` the end of a request covers every early return, and dropping the future is
  an action of its own at every await.
* A handler that is cut ends in one of two ways. Its timeout resets the coroutine and collects
  the state, which drops its guards (`runtime/mod.rs:605`); a client's hang-up leaves the
  coroutine suspended with everything on it until the collector comes (`runtime/mod.rs:587`,
  finding 3). `DbTransaction`, `Upload` and `Validate` have an action for each (`Cut` and
  `HangUp`, `CutUpload` and `HangUpUpload`, `CutRun` and `HangUpRun`) and one for the collector,
  which may come at any time or never.
* In `DbTransaction` a statement writes its own row, so that the rows tell what was kept. Left
  out: a ROLLBACK that fails, a handle that cannot be created for lack of memory after BEGIN,
  and a script that stashed `tx` and uses it between a hang-up and its collection.
* In `Fetch` a URL is its origin, a lookup yields any set of public and private addresses or
  fails, and the policy is the default one with `allowed_hosts` and `private_hosts` set.
* In `Upload` a chunk is one unit of size and every handler saves under one name, so that
  requests meet. Jobs that nobody awaits run in any order. `req:read(n)` takes the body frame
  by frame, so that the frame that passes the limit is told from the end of the body. The
  removal of a directory may race with a late creation, which then keeps it (`RacedRemoval`), and
  a sweep may fail.
* In `Session` and `Credentials` signatures and hashes are sound; visitors send any cookie
  they were ever given, and with `trust_request_id` the id of any earlier request. In `Content` a date has the resolution of a second, so two deployments
  may share one; a client's copy remembers the weakest validator its pieces were joined under,
  because two pieces joined by a date may be of two files whatever a third was joined by.
* In `TestRunner` a group is one `describe` call and has one parent; what scripts do to what
  tests share is six deeds and `isolate()`.
* `Paths` and `Negotiation` state the laws of the repository's fuzz targets and check the
  parsers against them on every input of a bounded size.
* `Validate` computes a walk and checks its verdict against a declarative reading of the
  schema. Rules on a text (lengths, affixes, formats) are sets of texts, those on a number its
  bounds. In `OpenApi` whether a document is too large and whether its file can be written are
  free; names of operations and components are words. In `Routes` words are in lowercase already,
  so that two ids meet only when their words do. `Json` checks what is read back against the data of the graph.

## 3. Runs

| run | question | instance |
|---|---|---|
| `pool` | exclusive, conserved, no damaged reuse (`PoolIsSafe`), no lost wakeup, waits end (`WaitersAreServed`), refines `ResourcePool` | 2 runtimes, 4 requests (one unbounded): queueing, overtaking and loss of both runtimes all occur |
| `reload` | pool and docs agree, pending is honoured, tasks end | 3 signals, 1 save, 1 reader: two tasks overlap |
| `reload_wedged` (violation) | "the state must return to idle" | the same |
| `request` | an ended request holds nothing and streams are capped (`NothingIsKept`), limit spent once, every request answered, the pool used as it allows | 2 states, 2 requests, 1 stream slot |
| `request_limit` (violation) | "the routed path spent the route's limit" | the same, an edited script |
| `request_leftover` (violation) | a call starts with nothing of an earlier one suspended | the same |
| `serve` | slots, honest readiness and clean exit (`StatusIsHonest`), shutdown ends, drains cleanly | 3 clients, 2 slots, TLS, delay, probes |
| `db` | the connection is usable after every end (`ConnectionIsUsable`), transactions are all or nothing (`RowsAreRight`), `LedgerHolds`; a saved file is what its client sent (`UploadsAreWhole`), an ended request leaves nothing staged (`SpoolIsEmptied`) | 3 scopes, 2 writes, nesting 2, batches of 2; 2 runners and 2 files, 3 edits; 2 uploads at limits of a unit or two, 2 boots |
| `db_interleaved` (violation) | "a transaction never interleaves with other statements" | 3 scopes, no aborts |
| `db_aborted` (violation) | "rolls back when it errors" | the same, one statement at a time |
| `shared` | what surrounds a handler, see below | see below |
| `web` | what a request meets in the HTTP layer and the builtins, see below | see below |

`shared`:

| property | says | instance |
|---|---|---|
| `CacheSound`, `ExpiredGoFirst` | the map, both indexes and the byte count agree within bounds; nothing live is evicted while something expired is there | 2 entries, 3 keys, 2 callers |
| `LimitsHold` | at most two budgets in a window's length, clients capped | 2 buckets, 3 clients, two windows; a history of who was admitted when |
| `CallsStayInBounds` | credentials stay with their origin, only allowed peers, no POST twice, work bounded | 3 handles, 2 at a time, 2 attempts, 2 redirects |
| `BundlesAreWhole` | what a start runs from holds its whole archive, for as long as it runs | 2 builds, one refused; 2 processes, 3 starts |
| `DeploymentsHold` | what is served is what the layers spell; uploads do not land in the handler's or the templates' directory, and no static directory encloses either; probes, document, page and assets answer at their paths; streams leave a worker | 10227 deployments over a file system of ten directories and two links |
| `TestsStandAlone` | nothing is inherited from another test; hooks surround what they are for; a verdict is true | 3 files; all, `--bail` and `--list`; 2 deeds of scripts in each file |
| `SavesAreRun` | a save is followed by a run that began after it; runs do not cause runs | 45 setups, 3 saves, 4 reruns |

`web`:

| property | says | instance |
|---|---|---|
| `CopiesAreOneFile`, `CachesTellTheTruth` | a resumed copy is one file as far as its validator tells files apart; a 304 and a shared cache tell what the server would send | 1 browser with a cache, 2 deployments, 2 requests |
| `DeclaredInputIsServed` | a declaration that loads can be served, and all failures are told | every declaration of the four parts, content lists of up to three names |
| `VisitorsAreKeptApart` | a handler finds what its cookie's save wrote; a page under the middleware has its own request's token, and no other page has one while ids are the server's | 2 visitors, 2 exchanges, 1 Lua state, ids chosen by clients |
| `CredentialsHold` | a token's validity only ends; a login costs one hash and tells only whether it passed, but for overlong passwords, rows at fault and the decoy | 2 logins, 4 seconds; claims at two dates, leeway 0 or 1, `max_age` 1 or none |
| `PathsStayInside` | the laws of `path_lexical`, `static_resolve`, `upload_resolve`; what is sent in a file's place, its sidecar | texts of 4 characters, 3 segments; links out of the mount, to nothing, to a hidden file, and a linked sidecar |
| `HeadersKeepTheirLaws` | the laws of `range_header`, `conditional_headers`, `accept_encoding`, `accept_negotiation` | headers of 2 members, files of 3 bytes |
| `ValidationHolds` | the verdict is the schema's, texts mean their values, scripts come last and levels are given back | values for a few schemas, strict or not; nesting 3, 2 runs of a handler, cut or hung up on |
| `SchemasHold` | derived schemas keep sound rules; at each place of a visible route the document says the schema, with two exceptions; nothing is served that was not written | 2 fields, 3 schemas, 2 routes, titles shared and titles of nitr's own |
| `AppsServeTheirRoutes` | a chain is what its groups declare, operation ids differ, a request reaches the route its state's own table has for it | scripts of 3 calls, edited to scripts of 2; 1 request, after whose answer no script is run (`AnswersEndIt`) |
| `ValuesTravel` | writers stay in bounds, the guard counts at least as much, what is written is read back | graphs of 4 tables, depth 3, 8 nodes |

Bounds are chosen so that each resource is smaller than the demand on it by one, each chain
(nesting, redirects, attempts, windows) is one longer than its first repetition, and each
race has two parties and, where it fits, a bystander. Symmetry is declared only for runs
without liveness. Deadlock is checked where the system never stops (`pool`, `request`); the
others end with their bounded environment or, for `serve`, because the server stops.

Exceptions that properties name, and why: `AllOrNothing` excludes runs in which a job
overtook an older one that nobody awaits, and transactions that SQLite ended on its own
(`db_interleaved`, `db_aborted` show them);
`NeverBricked` lets a hung-up handler's flag and handles stand until they are collected, and
`ScriptsComeLast` its nesting levels; `CopiesAreOneFile` excludes a deployment between the two
looks of one request, and files, be they versions or codings, of one second and, under a tag,
one length; `SpoolIsEmptied` excludes a request cut while a creation was with the blocking pool,
one hung up on whose coroutine is not collected yet, and one lost in a crash; `TokensAreOwn` a
page without the middleware whose client repeated an id; `LoginTellsNothing` the three it names;
`ContainmentLaws` a sidecar that is a link; `CheckAccept` a header with a NaN, and a type refused
by name that a wider range takes in; `DocumentSaysTheSchemas` a length given twice over and the
title of a component of nitr's own; `RequestsReachTheirRoute` a route that a pattern tried first
covers; `EndpointsAnswer` an asset whose path a probe was given;
`DeclaredInputIsServed` excludes a text-only multipart schema without `upload_dir`;
`ValuesTravel` excludes keys with equal texts and values at the limit itself; `SavesAreRun`
excludes a report in a directory that does not exist yet and a database that is itself an
input; `TestsStandAlone` excludes what a
file's own top level cached under a moved clock, and a fixture job that outlives its cut test.
Each is what the code does; they are described below.

### Findings

Five places where the code does not do what a comment beside it says; each is a run.

1. `server/mod.rs:189` — `PENDING` stored after the last rebuild task is gone is never taken
   off: every later reload only stores it again.
2. `handler/mod.rs:292` — a state rebuilt from an edited script runs its own chain with the
   limit of the table that routed the request.
3. `runtime/mod.rs:582` — after a client hang-up the state goes back with the handler's
   coroutine suspended in it; only the timeout path closes it.
4. `db/mod.rs:153` — a blocking job outlives its cut handler and rolls the next handler's
   transaction back.
5. `db/mod.rs:54` — after SQLite ended a transaction, `tx` statements run in autocommit.

### Observations

Met while modelling; each is how the code is, and none has a run of its own.

* *Reload, pool, requests.* A finished task's `ReloadReset` may overwrite the state of the
  next (`server/mod.rs:296`). The rebuild hook reads the script from disk, so a recycled state
  may be newer than its pool (`server/pool.rs:59`). Some early returns leave the request body
  unread (`handler/mod.rs:494`). `max_streams` counts configured workers, not surviving ones
  (`config/mod.rs:171`). The extra drain budget is granted by producers' permits, which end
  before hyper has sent the last chunks (`serve.rs:519` against `serve.rs:368`).
* *Cache, limiter, database, calls.* `cache:remember` stores over an invalidation that came
  meanwhile (`cache.rs:374`). `Retry-After` is rounded down (`protect.rs:357`). A cut
  transaction keeps SQLite's write lock until the state's next statement (`db/mod.rs:652`), and
  a cut COMMIT may still commit. A migration file that contains COMMIT escapes its transaction;
  a late file with a low version is applied out of order. The fetch timeout restarts at every
  hop and attempt (`client.rs:257`). After a hang-up inside a transaction the next handler's
  `nitr.db` statements are refused until the collector drops the guard, although the comment
  says it "clears the flag on every exit, the dropped-future one included" (`db/mod.rs:660`).
* *Start.* A start that publishes sweeps the staging directory of a concurrent start
  (`bundle.rs:117`, `bundle.rs:207`). `nitr build` archives what environment overrides name,
  while the manifest stays the file's (`main.rs:681`). An empty real variable masks the one of
  the `.env` file. A probe's path may equal that of a documentation asset; an upload directory
  that encloses the package directory is not refused.
* *Uploads and input.* A hang-up in `part:save()` leaves its file under `.nitr-tmp` until the
  collector comes. A cut during the creation of a directory or file leaves it until the
  next boot's sweep (`spool.rs:35`, `part.rs:189`), and a second process's sweep removes what
  the first is spooling. A text-only multipart schema loads without `upload_dir`, and every
  such request is then answered 500 (`validation/mod.rs:245`, `validation/multipart.rs:33`).
* *Sessions.* A session loaded before its expiry and saved after it lives on. Two parallel
  first requests get different tokens. With `trust_request_id` a client that repeats an id gets,
  on a route without the middleware, the token of the earlier request (`protect.rs:166`,
  `csrf.rs:239`), which the comment on the slot rules out (`csrf.rs:28`).
* *Logins.* A known user whose row is malformed, over the cost cap or of an unknown kind costs no
  hash and its handler gets a reason (`password.rs:166`), so that "both branches cost one argon2
  hash" (`password.rs:276`) is not so for such rows.
* *Files and headers.* A file replaced between metadata and bytes is sent under the older
  validators (`static_files.rs:361`). A sidecar of the same second and length has its file's own
  tag, so a copy may be finished in another coding, where the comment says that each encoding has
  its own validator (`static_files.rs:361`). A linked sidecar is sent wherever it leads
  (`static_files.rs:445`). `join` keeps a text's `..`, so that a path may climb out of its base
  when normalized. `text/html;q=0, */*` is answered with HTML, where a test says that q=0 removes
  a candidate entirely (`http/mod.rs:390`); codings go by the server's order. An `If-Range` that
  is not visible ASCII counts as absent (`range.rs:58`). A weight of NaN wins in `best_match`; of a repeated
  member the first weight counts in `Accept-Encoding`, the last in `Accept`. The page of a
  single-page application depends on `Accept` without a `Vary`.
* *Validation and schemas.* `unique` and `min_keys` look at values before `trim` and `case`;
  deferred checks of items run although their array fails later; `min_keys > max_keys` is not
  refused; `len` beside `min_len` makes the document say a wider bound than is held
  (`schema_json.rs:242`). A schema titled `ValidationError` is overwritten in the document
  (`spec.rs:93`). Of two schemas of one title the second is stored again each time it is
  exported. A hang-up while a deferred check awaits keeps its nesting level until the
  collector comes, where the counter is said to be exact (`engine/mod.rs:489`), so that later
  runs may be refused as too deep.
* *Routes and JSON.* A refused registration in a group, caught with `pcall`, still seals the
  group. With `GET /a/id` and `POST /a/*id`, `POST /a/id` is a 405, because the pattern that is
  tried first decides alone (`app/mod.rs:482`). A template's context takes a table as a key,
  which JSON refuses. The encoder admits a depth its decoder refuses; an integer key and the string of the
  same digits collide; the guard charges list indices that the encoder does not (`utils.rs:148`).
* *Tests.* `--watch` accepts a report inside the templates when its directory does not exist
  yet, because both paths are resolved first (`cmd/test/mod.rs:796`), and then reruns on its
  own report, although the comment says such a path is refused. A database named among the
  templates, or with a `.lua` name, is an input that the tests themselves write, and nothing
  refuses it: each run then causes the next. What a file's top level caches
  under a moved clock is there for its first test. An inner `before_all` runs although the
  outer one failed. A call that is cut runs no `after_each`. A fixture job of a cut test may
  commit after the database was put back.

## 4. Fairness

Only what the executor and the code's own timers guarantee: a woken task is polled, an expired
timer fires, a handler ends because of its execution budget, a blocking worker runs its job.
All of it weak, except the serve loop's shutdown and delay arms, where `select!` polls arms in
random order and an arm ready again and again is eventually taken although the pause after an
accept error keeps interrupting it: strong. No client, upstream, developer or signal is
obliged to act, a stream may last for ever, and in `ServeLoop` the clean drain is promised only
under `TasksRun`, the end of shutdown without it. The other modules state no fairness and no
liveness; in its place are the safety halves of "it ends": `NeverBricked`, `WorkBounded`,
`SpoolIsEmptied` (once the jobs have run), `HooksSurround` (once the file is done) and
`SavesAreRun` (once everything is quiet).

## 5. Proofs

52 theorems are listed, 22711 obligations. Every safety invariant of the runs `pool`, `reload`,
`request`, `serve` and `db` is proved for every value of the constants, and so are those of
`shared` and `web` but for the ones named at the end of this section.

* **RuntimePool_proofs.** `IInv` adds to the checked invariants `DamageTracked` (with a rebuild
  hook, a damaged state is still with the request that damaged it, and `Drop` can see why) and
  `WaitersHoldNothing`. Exclusive use and conservation are inductive only together: that the
  `try_send` whose error is ignored cannot fail follows from a count of the slots outside the
  channel (`RoomForOne`), which needs that no slot is in two places. `PoolSafety` is the
  conjunction the run checks. `PoolRefinement` maps the channel, guards and rebuilds to
  `ResourcePool` step by step.
* **Reload_proofs.** `PairOrHeld` and `LockHolder`: between the two assignments the lock is
  held by the task that made the first, the document lags one build behind, and when it is free
  they are a pair. Holds for any number of overlapping tasks, finding 1 notwithstanding.
* **RequestPath_proofs.** First, every step of the path is a step of the pool or leaves it alone
  (`PathIsPoolStep`), so the pool's theorems carry over (`PathPoolSafety`); then `PInv` with
  `CountedByStage` and `PermitsCounted`, from which `RequestsGiveBack`.
* **ServeLoop_proofs.** `LInv` ties slots to the accept future and live connections, and the
  listener to the loop's phase, from which honest readiness and the clean exit follow
  (`StatusHolds`).
* **Database_proofs.** *Migrations* (`MigrateInv`): what a runner saw of the ledger may be
  stale, but lines are only added, so what it saw is still there (`RunnerInv`); the runner
  between executing a file and its commit is the writer, and whoever came second finds the
  version's line taken. A runner past a version has it in the ledger. *Transactions.* `ConnectionInv`
  is what holds in any order of jobs: an inner scope is a savepoint (`StackInv`), a job is
  awaited by at most one statement (`JobsInv`), a write's path is the stack it was made in
  (`PathInv`), and a handler that ended leaves no flag but one that is
  to be collected (`CalmInv`); `ConnectionStaysUsable` and
  the outer statements' half of `RowsAreRight` follow. The other half, all or nothing, needs
  `RowsInv`: while nothing was overtaken, the jobs of inner scopes come before those of outer
  ones and a control statement comes last (`QueueInv`); SQLite's frames are, row by row, those
  of the scopes of the transaction that owns them (`Mine`, `Aligned`); and a written row is in
  a frame, in the database, or was rolled back with its scope (`WrittenInv`). The queue is part
  of it because the jobs of a cut handler run after it is gone.
* **Http_proofs.** *Outbound calls*: `CallInv`: a call with credentials is at the origin it was made for, a POST
  that nobody vouched for was sent at most once and not before it is sent; `WindowInv`: what
  runs is within the window of `buffered()` behind the results taken; `BudgetInv`: what was
  performed was paid for. *Headers*: `HeadersAnswered` holds for lists of every length. The heart
  of it is `best_match()`: `BestOf` says what its scan has kept of the candidates seen so far (one
  of them, and without a NaN the one that no other is ranked before), `BestStep` that one more
  comparison keeps it so, and two inductions (`BestForBest`, `BestMatched`) carry it over the
  offers of an item and over the items; a span is compared with the set of bytes asked for form
  by form (`ParsedRange`). *Input of a route*: what `body_part()` would fail on, `compile_body()`
  refused (`AcceptedIsServed`), whatever the content list. *Paths*: `NothingEscapes` is the
  containment half of `PathsStayInside`, for every file system and every path. The kernel's walk
  and the components that `safe_join()` keeps are scans that exist by one lemma (`ScanExists`); a
  walk along a directory's own path comes to that directory (`WalkAlong`), so an upload's parent
  is what was checked; and a walk below the mount shows a hidden name only if it was given it or
  a link on that walk led to it (`WalkShowsNothing`). The sidecar is looked up beside a canonical
  file, so only its own link can lead it out. The model-checked tree has links out of the mount,
  to nothing and to a hidden file. *Schemas*: `GroupsSound` is the half of `SchemasHold` about
  schemas made from schemas (`GroupsStaySound`). `check_groups()` compares neighbours of an ordered
  group and takes two fields that name no format for comparable; that any two fields are read alike
  needs that a number never names a format, which compilation refuses and every derivation keeps
  (`SoundRule`), and an induction along the group (`NeighboursCompare`).
* **Shared_proofs.** *Limiter*: a client's admissions fall into windows that start a window's
  length apart with a budget in each (`Continues`, `Spaced`), so two budgets is the most any
  window's length can see. *Bundle* (`StartInv`): a start's staging directory holds just what
  the start has unpacked so far (`Intact`), unless a start that published its build swept it,
  and then its rename fails and the published directory is there (`Published`). *Watch*: what was heard is covered by a run or on its way through burst,
  channel and session, and runs, counted with those in sight, are at most one more than the
  saves of inputs; that a save is heard rests on lemmas about roots covering what is read.
  *Cache*: the two indexes agree with the map because a tick is used once, although ticks reach
  the lock out of order; every turn of an eviction takes one entry, and set induction over the
  turns and over the sum of costs does the rest. `ExpiredGoFirst` is an action property from the
  same invariant. *Test run* (`TestInv`): the run goes forward in its file; each group of a test
  that was looked at was opened, or an outer one failed in a call that was cut (`Met`); what is
  cached under a moved clock implies a touched clock or the file's top level; the n-th verdict
  is the n-th test's. A group's tests are found through its first and its last one, which is
  why groups have to form trees. *Configuration* (`BootInv`): every phase of the start has the
  configuration that the layers read so far spell, until `nitr test` puts its own database in
  the place of the live one. Where a path leads is a recursive function, shown to exist from the
  least length without one (`TrailExists`); `DirFacts` and `OpensApart` then say that the
  directory `package_dir` names is the one the handler is found in, and that two files
  `resolved_file` tells apart are two files when they are opened, links included, the one of the
  tests not being there yet.
* **Web_proofs.** *Credentials*: verification is monotone in the clock, and both login paths
  take the same steps but where `LoginTellsNothing` says so. *Sessions*: what a Lua state holds belongs to the exchange in it, and
  every cookie around was written by one save; a slot
  under another id is read only by whoever repeats that id. *Uploads* (`UploadInv`): a request has at most
  one job that matters, the one it awaits, until it ends; a staged file's size is what was
  written to it; and whatever was made has its removal queued or is known to have leaked, in
  whatever order the pool runs the rest. *Content* (`ContentInv`): the request under way and its
  answer are tied to the client's copy (`AskInv`, `AnsweredInv`), and every byte of a copy is
  not older than the copy's date, the unreplaced ones of that very date and, under tags, length
  (`CopyInv`). The proof is what showed that the history of a copy had to keep its weakest
  validator: pieces joined under a tag, a date and a tag again are only as good as the date.
  *Routes* (`RoutesInv`): the middleware of a group is what it and its ancestors were given,
  because whoever takes it seals it first (`RegisterInv`, over the recursive `GivenTo`); a free
  numeral for an operation id exists by a pigeonhole count (`ClaimInv`); and the index a request
  was routed by is, in the table of the pool, that of the route it has for the request
  (`RoutingInv`), so that with an equal fingerprint it is the state's own, and otherwise the state
  looks the request up again, whatever was edited since (`LookupFacts`).

Assumptions are the named `ASSUME`s of the modules, which TLC evaluates for the instances:
bounds and limits are naturals (`Depth`, `Batch`, `Workers`, `MaxConnections` positive, as the
code's own checks or types make them), flags Boolean, sets whose members are counted finite
(`Slots`, `Conns`, `Clients`), markers distinct from what they mark (`NoneIsNoSlot`,
`NoFileIsNoContent`, `NobodyIsNoRunner`), archives, bodies and setups of the right shape
(`ArchivesAreLists`, `BodiesAreParts`, `SetupsAreRecords`, `ContentConstants`), the watched tree
closed under parents with no file a directory (`ExistingIsATree`, `FilesAreNoDirectories`),
groups that form trees (`SuitesAreTrees`), a file system whose files are in directories and whose
links resolve (`FilesAreInFolders`), one whose links may also lead nowhere (`PathsConstants`), settings of the types serde and `FromStr` give them, files
named by a last name that is not `.` or `..` (`DeploymentsAreTyped`), no deployment whose
database is the scratch file named after the process (`ScratchIsFresh`), weights that are
numbers, NaN or text (`WeightsAreNumbers`), content lists of names (`ContentsAreNamed`), groups that are lists (`SchemasConstants`), a format
that stands under its key (`FormatsHaveTheirKey`), the
arguments of a script's calls being those the builders take (`ScriptArguments`), and numerals
that differ (`NumeralsDiffer`).

Induction over naturals and finite sets is derived where it is needed from the least element of
a non-empty set of naturals (`LeastNatural`, `SetInduction`), since the library's induction
theorems have an operator as parameter.

Only model-checked: liveness (`WaitersAreServed`, `TasksEnd`, `PendingIsHonoured`,
`EveryRequestAnswered`, `ShutdownEnds`, `DrainsCleanly`), which the prover cannot do; and
`ValidationHolds`, `ValuesTravel`, the document's half of `SchemasHold`
(`DocumentSaysTheSchemas`) and the lexical half of `PathsStayInside` (`PathLaws`), which speak of
what folds and recursive definitions over nested data compute.

## 6. Plan

Theorems next: that `PathLaws` holds of every path, which needs the folds of `Paths` written as
recursive functions first.

Models next: instruction and memory limits inside a state; the derivation of a client's key
and the refusals before the limiter; the cookie jar and matchers of the test framework;
`RequestPath` composed with `Upload`'s directory, so that a stream reading an uploaded file
after its request is seen (`handler/mod.rs:318`).

Properties are kept few: a new one of weight replaces a plainer one, and what belongs together
is one conjunction of named parts.

## 7. Not modelled

Byte formats (media sniffing, TLS material, cryptographic primitives, compression codecs),
conversions without state (templates, URLs, base64, time formatting, SQLite's values and
pragmas), formatting (error pages, reports, messages, prose of the document), `nitr build`
and the other file output of the command line, and the Lua interpreter with its instruction
and memory hooks: a call's timeout, poison mark and panic are in `RequestPath`. Durations are
the order of events, except where a property is about them: the limiter, the cache, tokens,
sessions and file dates, where the clock is a small number. Proxies and the number of chunks in
a stream are left out.
