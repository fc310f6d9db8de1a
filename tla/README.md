# A TLA+ model of QuickFood

QuickFood (a demo shop for load tests, written in Go) recommends random dishes.
This directory models its services in TLA+, checks small instances with TLC and
proves theorems about every instance with TLAPS. Paths below are relative to the
repository's root, `src/` here.

## 1. The system

One binary (`cmd/main.go`) serves any subset of its services, over HTTP between
them. Every request runs in a goroutine of its own.

| Component | State it keeps | Operations | What makes it correct |
|---|---|---|---|
| Catalog database (`pkg/database/catalog.go`, migrations) | tables users, foods, food_to_ingredients, ratings; autoincrement counters; limits from the environment | RecordUser, RecordRating, UpdateRating, DeleteRating(s), RecordRecommendation, each pruning its table; lookups | references hold, names are unique, tables stay within limits, fixed and new rows stay |
| Catalog handlers (`pkg/http/http.go` 797-1248) | locals between two trips to the database | authenticate, look up, write | a stale lookup never leads to a wrong write |
| SQLite pool (`pkg/database/database.go`, `database/sql`) | open and idle connections, foreign-key setting of each | take, use, put back or close | the in-memory database survives; foreign keys are enforced |
| PostgreSQL (`pkg/database/database.go`, transactions of `catalog.go`) | committed rows, sequences, row locks | insert, prune, commit, roll back | limits at READ COMMITTED, no deadlock, created rows are stored |
| Recommendations (`pkg/http/http.go` 1309-1568) | locals of the request | fetch eight lists, generate, have the catalog record | restrictions hold, the loop ends, the caller gets its own food |
| HTTP client (`pkg/http/client.go`, `clientFromEnv`, vendored retryablehttp) | tries of a call | send, time out, retry, give up | what retries of a POST may leave behind |
| WebSocket service (`AddWebSocket`, vendored melody) | hub's set of sessions, per-session buffer, gauge | connect, broadcast, write, disconnect | one order for all, nothing missed, nothing leaked |
| User sessions (login, cookies, CSRF, fallback user) | tokens, cookies | login, logout, authenticate | nobody is served as somebody else; anonymous visitors are served |
| Error injector (`pkg/errorinjector`) | headers copied to the context and onwards | inject errors and delays | errors only where they were asked for, with the chance asked for |
| Gateway and service selection (`cmd/main.go`, `AddGateway`) | environment | route or proxy | several processes answer like one, no detours, no circles |
| Migrations (vendored bun, `NewCatalog`, `NewCopy`) | table of applied migrations | migrate at start | a crash or a second process leaves services that start, and complete tables where nobody interfered |
| Copy service, k6 test endpoints, gRPC | none | read-only or stateless | bounds of a few computed values |
| Web frontend | visitor id, counters, login state | page events | the counter counts other visitors' foods |
| Telemetry, logging | outside the behaviour | observe | - |

How they interact: the frontend and k6 scripts call the gateway or the services
directly; recommendations calls catalog (authentication, lists, recording) and
copy (names, adjectives) through the retrying client; the catalog's handlers
share one database pool; every page holds a WebSocket to the hub.

What is hard here: handlers that look a row up in one trip and write in
another while other handlers prune; cascades between pruned tables; settings
that belong to one connection of a pool; transactions that do not see each
other's rows; a retried POST that is not idempotent; goroutines that wait for
each other over channels; calls that fail, are retried and carry instructions to
fail through several processes; migrations that compete and crash half-way. `PROJECT.json` lists each hazard at its line.

## 2. The modules

| Module | Models | Uses |
|---|---|---|
| `TableLimits` | `enforceTableSizeLimits`: which ids survive | |
| `Catalog` | tables and handlers, one step per trip to the database | `TableLimits` |
| `SqlitePool` | the same handlers behind database/sql's pool | `Catalog` |
| `PgTables` | insert, prune, commit at READ COMMITTED | `TableLimits` |
| `FoodGenerator` | the draws of the generation loop, as sets of possible foods | |
| `Recommendation` | POST /api/food, its retried call, and the catalog's side of it | `FoodGenerator`, `TableLimits` |
| `Broadcast` | abstract: what WebSocket clients are promised | |
| `WsHub` | handlers, hub and writers of melody; implements `Broadcast` | `Broadcast` |
| `Sessions` | the pages and cookies of a browser, login, CSRF tokens, the authentication middlewares | `TableLimits` |
| `Routes` | the routes, by the group that registers them | |
| `ErrorInjection` | what the x-error and x-delay headers make an action do | |
| `Api` | abstract: what a client may count on, in any deployment | `Routes`, `ErrorInjection` |
| `Deployment` | processes, gateway, handlers, internal client; implements `Api` | `Routes`, `ErrorInjection`, `Api` |
| `Migrations` | the start of the processes that share a PostgreSQL database | |
| `TableLimitsProofs` | theorems: how many rows pruning leaves, and which | `TableLimits` |
| `CatalogProofs` | theorems: the catalog, by itself and behind the pool | `SqlitePool`, `TableLimitsProofs` |
| `PgTablesProofs`, `RecommendationProofs`, `SessionsProofs` | theorems about the module of that name | `TableLimitsProofs` |
| `MigrationsProofs`, `WsHubProofs`, `DeploymentProofs` | theorems about the module of that name | |
| `MC*` | instances for TLC | |

### Catalog

The variables `users`, `foods`, `foodToIngredients` and `ratings` are the tables,
`lastUser`, `lastFood` and `lastRating` SQLite's AUTOINCREMENT counters, and
`handler[h]` the local variables of a request between two trips to the database.
A token is identified with the id of its user's row (both are unique and
constant). Each method of `catalog.go` that touches the database is an action,
pruning and cascades included; a transaction is one action, as it is on SQLite.
The part of an HTTP handler up to its next trip is one action: `PostUser`
parses and checks, `RecordUser` writes. `DatabaseError` is any trip that fails.
`Step(h, fk)` is a trip of handler `h` on a connection that enforces foreign keys
or not (`fk`), and `FKModes` says which connections there are.

`RecordRecommendation` is the one insertion that does not reset the id of its
row: the food comes from the body of POST /api/internal/recommendations, and an
id in it (`FoodIdInputs`; 0 is none) is kept. It may be taken (500), may raise
the counter and leave a gap, may be so low that the pruning of the same
transaction deletes the food that is answered with 201, or may lie within the
fixed ids, which pruning never counts: negative ids go past the limit of the
table, contrary to the comment above `enforceTableSizeLimits`, which speaks of
"the first K rows (IDs 0, 1, 2...)". So `TableSizes` limits the foods beyond the
fixed ids, and what holds of foods under any choice of ids is
`OnlyOldFoodsLeave`: one that is pruned is outnumbered by newer ones. The
recommendations service itself sends foods without an id, and that is what
`Recommendation` and `PgTables` model.

A second, anonymous use of the tables is `Authenticate`: an unknown token
falls back to the default user, user 1. That is why `DefaultUserKept` matters.

### SqlitePool

`initializeDB` leaves the pool at its defaults: unlimited open connections, two
idle ones. `Take` is `DB.conn` (the idle connection used last, or a new one),
`Trip` a step of `Catalog` on it followed by `DB.putConn`. A client that goes
away during a trip interrupts its statement (`Interrupt`): the vendored driver
then calls the connection invalid (`sqlite.go` 1572-1578), and `putConn` closes
it, even when it is the only one. The model is of the default database, which is
in memory: SQLite drops it with its last connection (`dropped`), and from then
on every trip can only fail (`Fails`); the tables keep the rows they had.
`enforces` is the set of connections on which the PRAGMA was run. `burst`
remembers whether a connection was ever opened while another was in use, and
`interrupted` whether a client ever went away. Every trip is a step of `Catalog`
with `FKModes = {TRUE, FALSE}` (`PoolIsCatalog`), so that what holds whatever the
foreign keys do (unique names, table limits, ownership) holds behind the pool.

### PgTables

One table. `Insert` draws an id from the sequence, `StartPruning` takes the
DELETE's snapshot, `PruneRow` locks and deletes one row of it or waits, `Commit`
and `Rollback` end the transaction. Row locks, the order of the scan and the
sequence are PostgreSQL's and are modelled from how `catalog.go` uses them.
`NoDeadlock` rests on that order: a DELETE meets the rows as a sequential scan
does, the same for all; a planner that chose different indexes for two of them
could make them wait for each other.

Of the three seeded tables the migration sets the sequence of foods only, after
fixtures with explicit ids (`seed_db.go:22`). The first rows inserted into the
other two are therefore refused, and each refusal uses up an id
(`SequenceReset`); `RefusalsEnd` bounds the damage to one for each seeded row.

### FoodGenerator, Recommendation

A food is a set of ingredients and a tool; `Generated(r)` is the set of foods
one round can produce. Names, rices and dough do not interact with restrictions.
`Recommendation` has a program counter per request (`request[r].pc`) and a set
`calls` of recording calls under way. A try that the client gives up on
(`TimeOut`, `Cancel`) stays in `calls`: the catalog may `Record` it later,
`FailToRecord` it, or the network may `Lose` it. Fetches are idempotent reads of
lists that never change, so all eight of them and their retries are one step.

### WsHub, Broadcast

`pc[s]` is where the handler of session `s` is, `output[s]` its buffer,
`writer[s]` the state of its writer goroutine, and `sessions` the hub's set.
Handing something to the hub over an unbuffered channel is one action of hub and
handler together. `sending` is the hub's loop over its sessions: handlers and
writers run between two of its sends. `Broadcast` is the promise: one log, and
clients that hear increasing positions of it from the moment they join. The
refinement mapping hides the buffers and the hub's loop; a client counts as in
from its registration until its handler has closed the session.

### Sessions

One browser: `jar` holds its two cookies, `page[t]` what the script of a page
remembers (`loggedIn`, and `form`, the hidden CSRF field), and `call[<<t, slot>>]`
the fetch that the page's loading or a click has under way. A fetch is sent with
the cookies of that moment (`SubmitLogin`, `GetFood`, `Rate`, `Open`), served
(`ServeUser`, `ServeCsrf`, `ServeLogin`), changes the jar when its answer
arrives (`Arrive`), and then continues the script (`Continue...`); `Lose` is a
failed fetch, or one that is refused for a reason other than who the caller is:
the scripts treat them alike. `FailAuthentication` is an authentication that
could not be carried out, for want of the database or of the catalog: both
middlewares answer 401 for it as for a missing token, a login fails as with a
wrong password, and only the endpoint that verifies says 500. The status of a
food or a rating is that of its authentication. Fetches that set no cookie
need no `Arrive`. `Register` stands for everybody else: it fills the users
table, whose pruning takes accounts away from browsers that still hold their
tokens. `holder` only serves `LastFormWorks`. A page has one click under way at
a time; the list and the deletion of ratings on the login page send what
`rateFood` sends and are left out.

### Routes, ErrorInjection, Deployment, Api

`deployment` is the environment of each process: which services it adds
(`EnvServe`), at which endpoint it calls the others (`EnvEndpoint`). `stack` is one
client request and the requests made for it: each waits for the next, so they
form a stack, and a frame holds the process, the route, the headers, and what
the handler has done (`pc`, `call`, `tries`). An action is a handler up to its
answer (`Serve...`), the reverse proxy (`Proxy`, `ProxyAnswer`), or a step of the
client (`Call`, `NextCall`, `Retry`, `CallFailed`). `Disconnect` breaks a
connection before a call is served or after; a handler's database may fail
(`Breaks`). One route stands for those of its group that answer alike.

`Configured(d)` is what the deployments of the repository have in common, and all
that the proofs assume of one: every endpoint names a process that adds the
service, a gateway passes nothing on to another gateway, and the routes on offer
are those that the entry serves itself or has served. Without it a process could
go round in circles: one with the gateway and the catalog but not the copy
service, whose copy endpoint is itself, would proxy `/api/names` to itself for ever.

`Api` knows no processes: a request is asked, a food may be stored, something may
fail, and the answer is one of those that the route, the headers and the token
allow (`Promised`). The refinement maps `offered` to the routes that the
deployment claims to offer, and `vouches` to whether the catalog is behind a
gateway: POST /api/internal/recommendations demands the header X-Is-Internal,
which services send to each other and which a gateway adds to whatever it passes
on (http.go:478). Without the header, a client's recording is refused by the
monolith (401) and accepted behind a gateway (201): that is the one difference
between deployments (`Accepted`). Microservices do not offer
`GET /api/food/{id}`, `/api/names` and `/api/adjectives`, although the API
documentation lists the first: the gateway's table sends them to the catalog,
which answers 404. The headers x-error-record-recommendation and
x-delay-record-recommendation, which `docs/inject-errors.md` describes, do
nothing, and `Api` describes answers without them: the client forwards them, but
the catalog's admin group does not read them. What the documentation says of
them is `RecordErrorsTriggered`, which does not hold (section 3).

### Migrations

`todo[p]` is the list of statements that a starting process has yet to execute:
two CREATE TABLE for bun's own tables, the query for what is applied, and then
for each unapplied migration its mark and its statements (`Migrate`). CREATE
TABLE IF NOT EXISTS is two steps (`LookForTable`, `CreateTable`), because
PostgreSQL refuses it when another process creates the table in between. A
statement that fails ends the process, like a crash does, and `Start` starts it
again. One that fails for a reason of the database's own is counted as a `Crash`.
A process that migrates both collections is not modelled: it is the monolith,
which has its database to itself.

## 3. The runs

| Run | Question | Bounds |
|---|---|---|
| `catalog` | do two handlers keep every invariant of the tables, with all tables pruned? | 2 handlers, 3 names (one seeded), limits 2/1/1, ids to 4/3/3, foods recorded without an id, as -1 or as 3 |
| `catalog_fixed_ratings` | are fixed ratings "never deleted"? **No.** | 3 fixed ratings |
| `sqlite_pool` | what can drop the database; until when do references hold? | 2 handlers, 1 idle, 3 connections |
| `sqlite_orphans` | do references hold with two handlers? **No.** | 2 handlers |
| `pg_tables` | overshoot, loss of created rows, refusals, waiting in circles; does every transaction end? | 3 transactions, limit 2, ids to 8 |
| `recommendation` | restrictions of stored foods, what retries leave behind, whose id is answered; is every request answered? | 2 requests of 3 kinds, 6 ingredients, 1 retry, limit 2 foods |
| `ws_hub` | does the hub implement `Broadcast`, miss and leak nothing; are leavers forgotten and messages delivered? | 2 sessions, buffer 1, 2 messages |
| `deployment` | does every deployment answer like one process (`Api`); are calls direct; is every request answered? | 3 deployments, 2 requests, 2 failures each, 1 retry, depth 5 |
| `deployment_record_errors` | do the headers for recording make it fail? **No.** | 1 request, no failures, no retry |
| `migrations` | does everybody serve in the end; who is sure to serve complete tables? | 2 catalogs, 1 copy service, 2 tables and 1, 2 rows each, 2 crashes |
| `sessions` | can stale cookies, forms or pages make the visitor somebody else, or lock the visitor out? | 2 pages, 2 names, 2 passwords (1 known), limit 1 user, ids to 3, 3 CSRF tokens, 1 failed authentication |
| `session_verified` | does a verified session have a user? **No.** | the same |

Why the bounds are enough. Two handlers are enough for every race between a
lookup and a write, as a write depends on one earlier lookup; limits of one or
two rows make every insertion prune, and id bounds allow each table to be
replaced completely. The ids that a body may bring are a negative one, which
pruning never counts, and the highest, which leaves a gap; sent twice, either is
taken. In `sqlite_pool` one connection may stay
idle where database/sql keeps two, so that two handlers can already open one too
many, and a burst can close the one that ran the PRAGMA. Three transactions give a pruner both
a committed and an uncommitted contemporary, and eight ids let the sequence
pass its fixtures and the limit. The three kinds of restrictions leave a choice,
make every round exceed the calories, and leave an empty list. Two messages
overflow a buffer of one while the hub is between two sends. Three users let a
name be pruned and registered again, with another password, while a browser
keeps its first token; one failed authentication is enough, as each refuses one
call; three CSRF tokens are one in the jar and one in the form of each page (`Nonces` is a set of values to choose a fresh one from; with all
of them in use, a request for another waits). The three deployments are the monolith, the compose files'
microservices, and a gateway that serves everything but the catalog; a second
request finds a stored food or none; two failures exhaust a call with one retry,
and let a food be stored twice. No chain of calls that is correct is longer
than three, so a depth of five shows one that is not. Requests carry ten combinations of
headers where headers matter, and none on other routes. Two crashes hit two
processes, or one again after its restart. The bounds `UserBound`, `FoodBound`,
`RatingBound`, `IdBound`, `MaxMessages`, `MaxRequests`, `MaxFaults`, `MaxFailures`, `MaxDepth` and `MaxCrashes` occur in guards only and stand for
unbounded counters.

Deadlock is checked in the runs of `Catalog`, `SqlitePool` and `Sessions`, where
a handler or a page is always ready. It is off where the run's requests, ids, sessions or
messages are used up and the system rightly stops.

Every property of a passing run has a mutant: a plausible bug in a mapped
definition (a dropped index, an off-by-one limit, a percentage that is not
forwarded, a retry that is not counted) under which TLC finds the property violated.

### What the violated properties show

* **Fixed ratings are deleted** (`FixedRatingsKept`). The comment of
  `enforceTableSizeLimits` promises that the first rows stay; cascades from
  users and foods delete ratings of any id.
* **Foreign keys are off under load** (`ReferentialIntegrity` in
  `sqlite_orphans`). The PRAGMA holds for one connection of the pool.
* **Headers for recording do nothing** (`RecordErrorsTriggered`).
  `docs/inject-errors.md:36` says that x-error-record-recommendation "triggers an
  error when recording a recommendation", and gives an example of it (lines 47
  to 54). The middleware that puts such headers into a request's context is
  missing from the group of the handler that records.
* **A session without a user is valid** (`VerifiedIsValid`). The endpoint that
  verifies a token falls back to the default user, so that a visitor whose row
  was pruned is shown as logged in and acts as the default user.

## 4. Fairness

* `Recommendation`: weak fairness of each request's own steps. A goroutine
  that can run does, and a call that it waits for has a timeout of one second
  or the configured one, so `TimeOut` is always ahead. Nothing is assumed of the
  catalog or the network.
* `PgTables`: weak fairness of a transaction that has begun. A handler runs to
  the end of `RunInTx`; PostgreSQL serves a statement whose locks are free.
* `WsHub`: weak fairness of handlers, writers and the hub's loop; strong
  fairness of the hub's `select` for each session that waits for it. Go picks
  uniformly among the ready cases, and the senders of one channel queue, so
  none is passed over for ever. Clients owe nothing.

* `Deployment`: weak fairness of `Step`, the whole of what the processes do
  for a request. Exactly one process works at any time, the others wait, so
  this only says that handlers return. Clients and failures are not fair.
* `Migrations`: weak fairness of each process, its restart included. The
  Kubernetes manifests restart a pod whose process ends (the default policy);
  the compose files do not, so there `EventuallyServes` needs somebody who does.

## 5. What is proved

TLAPS proves these for every value of the constants that the modules' ASSUMEs
allow: any number of handlers, names, rows, requests, processes or pages, and any
limits. Every invariant of a passing run is proved, and every action property
and refinement, some under a hypothesis that the tables name; liveness is not (see the end of this section). A theorem's
"argument" names the inductive invariant or lemma that it rests on. In each
module there is one lemma per action that shows that it keeps the invariant.

### Tables (`TableLimitsProofs`)

The pruning subquery selects at most as many rows as the
limit (`NewestBounded`, by an injection of the selected rows into the ranks
below the limit), so that pruning leaves at most the limit and the fixed rows
(`KeptBounded`), and a row with fewer newer ones than the limit stays
(`KeptRecent`). These are the facts about pruning that the proofs of the catalog,
PostgreSQL, recommendations and sessions share.

### The catalog (`CatalogProofs`)

`TypeOK` is not inductive, because what a handler may write
depends on what it has looked up. `TypeInv` strengthens it by `HandlersOK`: the
user of a handler that has authenticated is one whose row has existed under that
name, the target of a handler is within the ids handed out, and stars that are on
their way to the table have been validated.

| Theorem | Property | Hypothesis | Argument |
|---|---|---|---|
| `TypeCorrect` | `TypeOK` | | `TypeInv` |
| `UsernamesUnique` | `UniqueUsernames` | | only registrations change names, and the index refuses a second |
| `DefaultUserStays` | `DefaultUserKept` | | pruning spares fixed ids; the name is taken |
| `NewestStay` | `NewestKept` | | ids of users are consecutive, so recent ids have few newer rows: `KeptRecent` |
| `FoodsLeaveByAge` | `OnlyOldFoodsLeave` | | a row that is not selected is outnumbered by those that are, whatever ids callers chose |
| `ReferencesHold` | `ReferentialIntegrity` | every connection enforces foreign keys | inserts check, deletes cascade |
| `TablesFit` | `TableSizes` | the seeded tables fit | `KeptBounded`; of foods, pruning leaves the newest beyond the fixed ids; cascades only shrink |
| `OwnersWrite` | `OnlyOwnersWrite` | | a looked-up rating keeps its owner for ever, as ids are never reused |
| `CreatedIsStored` | `RatingStored` | | the inserted row is the newest: `KeptRecent` |

`OwnersWrite` is the one that needs history: its invariant says that a rating
which a handler is about to delete or update, if it still exists, belongs to the
handler's user, who is not the default one.

### The connection pool (`CatalogProofs`, last section)

`PoolInv` adds to `TypeInv` that all open connections have run the PRAGMA as long
as there was neither a burst nor an interrupted request (`AloneOnPragma`).
`AloneIsSafe` is inductive only together with it: an enforcing trip keeps
references, and alone every trip enforces. `DatabaseSurvives` needs that at least
one connection may stay idle (`MaxIdle` is not 0): then the pool by itself closes
a connection only when another is open, and only an interruption closes the last.

| Theorem | Property | Hypothesis | Argument |
|---|---|---|---|
| `PoolTypeCorrect` | `PoolTypeOK` | | `PoolInv` |
| `DatabaseStays` | `DatabaseSurvives` | | `PoolInv` |
| `SafeWhileAlone` | `AloneIsSafe` | | `PoolInv`, and the lemmas of `ReferencesHold` |
| `PoolIsCatalog` | the specification of `Catalog` | `FKModes = {TRUE, FALSE}` | a trip is a step on the connection's mode, also when it fails or is interrupted; taking a connection is a stutter |
| `PoolKeepsCatalog` | six properties of the catalog, behind the pool | the same | `PoolIsCatalog` and the theorems above |
| `PoolTablesFit` | `TableSizes` behind the pool | also, the seeded tables fit | the same |

The hypothesis is the pool's own situation, not a restriction: the constant only
serves `Catalog`, and the runs of the pool give it this value.

### PostgreSQL (`PgTablesProofs`)

`Base` relates the committed rows, the sequence and what transactions have drawn:
ids under way are distinct and above the fixtures, and whatever a transaction
deletes or has yet to delete is older than as many ids as the limit (`Outdated`). That
is why a created row is only lost when it would have been pruned anyway.

The overshoot is the hard one. Of transactions that prune at the same time each
counts its own row and none of the others'. `Snapshots` gives the DELETE of each
transaction the time at which it started; whoever started later has seen what
was committed before, so the transactions that a DELETE has not seen are those
that started before it and still run. What a transaction leaves, plus one row
for each of those, is within `Bound`: the limit, the fixed rows and the other
transactions. On commit this passes from the transaction to the table.

| Theorem | Property | Argument |
|---|---|---|
| `TypeCorrect` | `TypeOK` | `Base` |
| `CreatedStays` | `CreatedStored` | `Base`: only outdated rows are deleted |
| `RefusalsUseUpFixtures` | `RefusalsEnd` | `Base`: a refused id is a fixture's, and the sequence has moved past it |
| `OvershootStaysBounded` | `OvershootBounded` | `Base`, `Snapshots`, `KeptBounded` |
| `SomebodyGoesOn` | `NoDeadlock` | `Locks`: a DELETE has locked only rows before those it has left |

`SomebodyGoesOn` is the safety half of `TransactionsEnd`. If every transaction
waited, the one whose next row comes last in the table would wait for one that
has locked that row and so waits for a row behind it. That there is a last one
is `Largest`, which rests on the well-foundedness of finite sets.

The transactions must be finitely many, which a pool's connections are.

### Recommendations (`RecommendationProofs`)

`RecInv` follows each try from the client to the call under way and the row it may
leave, also after the client has given it up: each call and each row carries the
food of a try that was made (`Faithful`); no two calls, and no two rows, are of
the same try, and a try that has left a row is not waiting to be recorded (`Tries`);
the ids given away are of the caller's rows, unless pushed out (`Owned`).

| Theorem | Property | Argument |
|---|---|---|
| `GeneratedAllowed` | | every outcome of a round draws from the lists that the restrictions leave |
| `TypeCorrect` | `TypeOK` | `RecInv` |
| `StoredAreAllowed` | `StoredFoodsAllowed` | `RecInv`, `GeneratedAllowed` |
| `RetriesCounted` | `OneRowPerTry` | `RecInv`: rows of a request map injectively to its tries |
| `AnswersAreOwn` | `AnsweredFoodIsOwn` | `RecInv`, `KeptRecent` |

The calories of a food are a fold over its ingredients. No fact about the sum is
used: what the code compares and what the property states is the same number.

### WebSockets (`WsHubProofs`)

`HubInv` is `TypeOK`, `Lives` (where a handler is says whether the hub knows its
session, whether its writer runs, and whether the session is open) and `Gauge`
(the gauge counts the handlers between their connect and their disconnect).

| Theorem | Property | Argument |
|---|---|---|
| `TypeCorrect` | `TypeOK` | `HubInv` |
| `HubForgets` | `NothingLeaks` | `HubInv` |
| `ConnectedMissNothing` | `NothingMissed` | `Complete`: what a connected client has received and what waits in its buffer are together the positions since it joined, without a gap |
| `ImplementsBroadcast` | `Broadcasts` | `Ordered`: a buffer is increasing, and ahead of what the client has heard |

`ImplementsBroadcast` has one step per action of the hub: most of them stutter,
`Broadcast` messages extend the log when the hub takes them up, a client joins
when it is registered, hears when its writer writes, and leaves when its
handler has closed the session.

### Sessions (`SessionsProofs`)

`SesInv` follows a token from the answer to a login to the cookie and to the calls
that carry it. `Own(token)` is what stays true of it while others register: it
is within the ids handed out, and if its row still exists then its password is
known to the visitor or it is the default user's. No id is used twice, so no
later account can get it.

| Theorem | Property | Hypothesis | Argument |
|---|---|---|---|
| `TypeCorrect` | `TypeOK` | | `SesInv` |
| `ServedAsOneself` | `NeverSomebodyElse` | | `SesInv` |
| `LastFormHolds` | `LastFormWorks` | | `SesInv`: a page that is loading has not filled its form yet |
| `MadeUpTokensWork` | `VisitorsServed` | `DefaultIsFixed` | the row of user 1 stays, so that an authentication is carried out or fails |

`DefaultIsFixed` says that the default user is a fixed row, or users are not
limited. The code does not require it: with no fixed rows and a small
limit, user 1 is pruned and anonymous requests are refused. `NewCatalog`'s
defaults fix ten users.

### Deployments (`DeploymentProofs`)

`StackInv` describes the requests in progress: perhaps a gateway's, which waits
for a process that has no gateway; then the one that handles the client's
request, whose `Progress` says what its calls have found out so far; and perhaps
one call that it makes, with the token and the headers that the client's
request implies (`CallOK`), marked as internal, and whose answer means what the caller takes it for (`Outcome`).

| Theorem | Property | Argument |
|---|---|---|
| `TypeCorrect` | `TypeOK` | `StackInv` |
| `CallsAreDirect` | `DirectCalls` | `StackInv`: two frames and a gateway's |
| `ImplementsApi` | `OneProcess` | `StackInv`: an answer is among those promised (`Deserved`) |

All of them hold for every deployment that is `Configured`, with any number of
processes and any choice of services in each that makes it so. That is more
than the three deployments of the run.

### Migrations (`MigrationsProofs`)

What a process has yet to do decides nothing by itself: a statement may fail, and a
migration is marked before it has run. `Lone` says what is known of a process
that nobody with the same collection competes with, and that was never
interrupted: it finds its collection untouched or migrated (`Settled`), and from
the moment it knows which, it has executed precisely what precedes the statements it
has left (`Working`), so that none of them can fail. The processes of the other
collection change nothing of that, since tables, rows and marks of collections
are disjoint; only bun's own two tables are shared, and there they can only make the
process fail before it has marked anything.

| Theorem | Property | Argument |
|---|---|---|
| `TypeCorrect` | `TypeOK` | `TypeInv`: a process only has statements of its own collection to execute |
| `UndisturbedServesComplete` | `UndisturbedComplete` | `TypeInv`, `Lone` |

### What is only model-checked

* Liveness: `EveryRequestAnswered` of `Recommendation` and of `Deployment`,
  `TransactionsEnd`, `LeaversForgotten`, `MessagesArrive`, `EventuallyServes`. TLAPS
  has no support for fairness and ENABLED here.
* The properties that the code violates (section 3).

## 6. What is not modelled

* What lists, wording and layout say; metrics, traces and logs: no state. What
  the k6 test endpoints echo. gRPC: two stateless calls.
* In `Deployment`: the delays of QUICKFOOD_DELAY_* (a slow service is a slow
  `get-ingredients`), what calls that were given up on do later
  (`Recommendation`), and requests side by side (`Catalog`). A process that
  listens on another port than 3333 cannot reach itself (`envEndpoint`); no
  deployment of the repository does that.
* In `Migrations`: that a replica serves complete tables. It need not: one that
  starts while the other still seeds finds everything marked as applied and
  serves what is there, two can each leave the other's rows undone, and after a
  crash within the seed nobody ever completes it. The deployments of the
  repository run one replica of each service. Nothing in the repository
  says that more was meant, so no run refutes it.
* The upper bound on calories and the lower bound on side dishes of the foods
  that are served: after ten rounds the generator serves its last food whatever
  it is, and duplicates among side dishes are removed. `StoredFoodsAllowed`
  claims the restrictions that the generator keeps.
* Deadlocks between tables through PostgreSQL's cascades and foreign-key locks
  (listed as a hazard, planned); SQLite's
  `SQLITE_BUSY` and `SQLITE_LOCKED` are `DatabaseError`.
* Melody's `Close`, filters, binary messages and `Set`/`Get`: unused. Pings: a
  dead peer may be noticed at any time.
* Logins without cookies, and the admin's cookie, of which any value is accepted.
* The page's counter of other visitors' foods: pages send "new_food" and count
  "new_pizza", so it never moves.

## 7. Plan

Done: every module above, and the theorems of section 5, which state every safety
property that a passing run checks.

Next modules: `PgLocks`, two pruned tables that cascade into a third, with row
locks and foreign-key share locks: which orders of locking can make transactions
wait for each other.

Next theorems: other facts that carry the liveness results but are safety by
themselves, such as that the hub of `WsHub` never waits for a handler that waits for
the hub, and that a request of `Recommendation` or `Deployment` can take only
so many steps without a new failure.
