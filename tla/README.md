# A verification model of core-cpp

core-cpp implements the core systems of an Arrowhead local cloud (service
registry, authorization, orchestrator and others).  Every core system is one
process: an HTTPS server that hands requests to the core system's handlers, which
work on a shared database through a pool of connections.  This directory holds
TLA+ modules of the parts of that program where concurrency, failures or long
sequences of requests make testing weak, the TLC configurations that check them
on small instances, and proofs for instances of every size.  Paths below are
relative to `src/src` in the repository.

## The system and its modules

| Part | Source | Module | State |
|---|---|---|---|
| HTTPS server, worker pool (`threads > 0`) | `http/serv/HTTPSServer.h` | `HTTPSServer` | modelled, proved |
| the same, with signals to the process | same | `HTTPSServerSignals` | modelled |
| HTTPS server, one `std::async` per connection (`threads = 0`) | same | `HTTPSServerAsync` | modelled, proved |
| Servlet: one connection | same, `servlet` | `Servlet` | modelled, proved |
| Request parser | `http/serv/RequestParser.*`, `RequestBuffer.h` | `RequestParser` | modelled, proved with `Servlet` |
| Database pool, connection and transaction guards | `db/DB.h` | `DatabasePool`, abstract `ResourcePool` | modelled, proved |
| Service registry | `core/apps/ServiceRegistry`, `utils/common/DbWrapper.h` | `ServiceRegistry`, abstract `ProviderMap` | changes and query modelled and proved; listings not |
| Authorization, intra-cloud | `core/apps/Authorization` | `Authorization`, abstract `RuleTable` | modelled, proved |
| Orchestrator | `core/apps/Orchestrator` | `Orchestrator` | modelled, proved |
| HTTP client | `http/WebGet.h`, `http/wget/WG_Curl.cpp` | `WebGet` | modelled |
| Orchestrator, authorization and registry together | the three above | `LocalCloud` | modelled, proved |
| MariaDB driver | `db/MariaDB.h` | in `ServiceRegistry`, `Authorization` | failing statements, transactions, `escape` |
| Core dispatch | `core/Core.h` | in `DatabasePool`, `ServiceRegistry`, `Authorization`, `Orchestrator` | `noexcept` dispatch, connection per handler |
| Authorization, inter-cloud | `core/apps/Authorization/*/InterCloud*` | none | the intra-cloud code on other tables |
| Device registry, certificate authority | `core/apps/...` | none | see "Not modelled" |
| URI parsing | `http/crate/Uri.*` | none | routing and paging, no state |
| Choreographer, event handler, gatekeeper, gateway, onboarding, QoS monitor, system registry | `core/apps/...` | none | stubs that answer `/echo` |
| Boot, JSON, logging, options, ini files, crypto | `boot`, `main.cpp`, `utils` | none | wrappers, formatting, one-time set-up |

A connection goes through the parts like this: the kernel's backlog, `accept` in
the main loop, the queue `ssl_sockets` (or a `std::async` call), a worker that runs
`servlet`, the parser, `Core::dispatch`, a handler, which takes a connection from
`DatabasePool`, runs SQL statements, gives the connection back and returns the
response that the servlet writes.

### HTTPSServer

`main` is the program point of the thread in `run()`; `worker[w]` that of a worker
(`lock`: about to hold `mux`; `wait`: asleep in `cond.wait`; `servlet`: serving).
`ssl_sockets`, `stop` are the fields of the class, `ssl[w]` a worker's local,
`backlog` and `served` belong to the environment.  A critical section of `mux` is
one action; `notify_one` and `notify_all`, which the code calls after the section,
are actions of their own.  `Spurious` is a wakeup without a notification.

`HTTPSServerSignals` adds signals sent to the whole process: the kernel gives them
to any thread that does not block them.

### HTTPSServerAsync

`future[c]` is what became of the servlet of connection `c`, `servlets` the vector of
futures.  `MaxThreads` is how many threads the system grants; beyond it libstdc++'s
`std::async` defers the call.

### Servlet and RequestParser

The parser is a value and `consume` a function of the value and the next lexeme.  A
lexeme stands for the characters between two of the parser's states in which
something is decided: a request line, a header line that matters (`Connection`,
`Content-Length`, `Transfer-Encoding`), a chunk size, a body byte, a line end.
`Servlet` reads the lexemes of a stream in pieces of any size up to `BufferSize`,
parses them one at a time and answers.  Body bytes carry the number of their
request, so a byte that reaches the wrong request is visible.  A broken connection,
a failed write that is taken for a success, and a client that falls silent are
actions.

### DatabasePool

`idxs` is the stack of idle indexes, `conn[t]` the index in a thread's
`DatabaseConnection`, `open` the connections with an open transaction.  `lock` and
`unlock` run under the mutex and are one action each; a thread that finds the stack
empty sleeps and re-enters.  `Throw` is an exception inside a transaction, `rollback`
the destructor of `TransactionLock`, `Terminate` an exception that meets `noexcept`.
`ResourcePool` says what a pool promises: free resources and owned resources, each
acquired and released by one client.

### ServiceRegistry

Tables are functions from ids to rows.  A request is a record; `at[w]` is the next SQL
statement of worker `w`, as the kind of statement and its table, and `v[w]` the
handler's local variables.  One action is one statement.  `Check`, `Insert` and
`Recheck` are `DbWrapper::checkAndInsertValue(s)`, which a registration runs for all
five tables; `Select` the read-back; `Find` and `Delete` unregistering and the
management deletes; `Update` PUT and PATCH; `Entries`, `Connections`, `Provider` the
query.  The database fails a statement in two ways.  `Unexecuted` is a SELECT that
`fetch(statement)` prepared and could not execute: it returns no rows, and the handler
goes on as if there were none, so a query may report that a service has no provider;
`QueryExact` leaves such a query out.  `Throw` is a `db::Exception`: none of these handlers catches it, so the
process ends and `Reboot` starts it again with the tables as they were.  Names are
UNIQUE where the table descriptions in `Authorization/queries/IntraCloud.h` say so.
Those descriptions do not show foreign keys, so `cascade` is chosen at the start and
both schemas are checked.  SQL leaves the order of a query's rows open: the loop takes
them in a fixed order that the model does not specify (`Current`).  A request carries what the parsers
let pass (`WellFormed`): a registration names at least one interface, and an id in a path
is any number.  `ProviderMap` is the abstract view: a map from URIs to providers, in which
a step binds one unbound URI, or removes one entry or all of a provider, a service or a
system.

### WebGet

`call[c]` is the one call a thread can have, since `send` blocks: the service that is
to answer it, or the result that has arrived.  `Lose` is a transfer that libcurl
could not perform; the result is then a negative code.  There is no retry and no time
limit, as in the code.  `faulty` marks results decided by a fault, for the properties.

### Authorization

`rules` and `links` are the committed rows of the two intra-cloud tables; `newRules[a]`
and `newLinks[a]` those of worker `a`'s transaction, which no other connection sees.
`step[a]` is the worker's next statement.  A POST is `Begin`, one `InsertRule` for each
provider and service, each followed by its `InsertInterface`s, `Commit`, and `ReadBack`.
Every read goes through the code's INNER JOIN (`Join`), so a deleted rule's connection
rows, which stay, are not seen.  A failing statement is `InsertFails` (the guard rolls
back, 400), `ReadFails` (no rows) or `Uncaught` (the exception meets `noexcept`);
`Killed` is a process stopped from outside.  Both of the latter end in `Terminate`: open
transactions are rolled back by the database and calls in progress fail.  `Check` and
`Token` answer the orchestrator.  `CheckUndefined` is the read through an end iterator
when `authenticationInfo` is absent, with each outcome it can have.  `RuleTable` is what
the tables promise: a request's rules appear together and complete, and only a removal
takes one away.

### Orchestrator

`opc[o]` is where worker `o` is: waiting for a connection, at the form, or in one of its
three kinds of calls.  `form`, `queryData`, `authorized`, `vProviders`, `vOrchResp` are the
handler's locals.  Steps end at calls, so registry, rules and other workers move between
them.  Operators keep the names of the functions (`checkServiceRequestForm`,
`selectPreferred`, ...), with their oddities: the later checks of a form run only if the
first one failed, interfaces are collected per provider over all of its entries, and
`onlyPreferred` with matchmaking draws a provider before it looks at authorization.
`SendThrows` is a `WebGet::Error`, which nothing catches.

### LocalCloud

Composes the three.  The registry is a set of entries, one per URI, as `ProviderMap`
promises.  `everEntries`, `keptEntries`, `everGrants`, `keptGrants` record what was
registered and granted at some time, and at all times, of a worker's request; they and
`disturbed` are read by properties only.

Abstractions.  Ids within one request's lists are distinct, so lists are sets; SQL leaves
the order of rows open, so are results.  `system_`, `service_definition` and
`service_interface` do not change.  Warnings, paging and JSON layout are left out.  Of the
orchestration flags only `onlyPreferred` and `matchmaking` change what the code does.
`EscapeQuotes` says whether the driver's `escape` adds quotes: TRUE is the driver of the
tests, FALSE the MariaDB driver.

## The runs

| Run | Instance | Result |
|---|---|---|
| `db_pool` | 4 threads, 2 connections, 2 requests each | pass: connections conserved, no lost wakeup, none returned with an open transaction, every handler served, implements `ResourcePool` |
| `worker_pool` | 2 workers, 3 clients | pass: each connection in one place, queue drained before return, no lost wakeup, no sleeper after stop; every accepted connection is served and `kill()` stops the server |
| `sigint` | 2 workers, 3 clients | violated: Ctrl+C reaches a worker and ends the process |
| `async` | 3 clients, 4 threads | pass: no unfinished servlet forgotten, all waited for, a signal stops the server |
| `async_limit` | 3 clients, 1 thread | violated: a deferred servlet is removed and never runs |
| `servlet` | 1238 streams of up to 3 requests, reads of up to 4 lexemes | pass: framing, order, answers, deserved errors, close |
| `servlet_keepalive` | same | violated: keep-alive leaks into the next HTTP/1.0 request |
| `service_registry` | 1 worker, 3 of 27 different requests, 1 database failure | pass: URIs unique, successful registrations usable, queries exact when their statements execute, unregistering touches its own entries only, implements `ProviderMap` |
| `registration_stored` | 1 worker, 2 registrations | violated: only the first interface is stored |
| `registration_race` | 2 workers, 2 registrations | violated: a duplicate name ends the process |
| `local_cloud` | 2 orchestrator workers on 1 connection, 2 authorization workers, 2 requests or registry changes | pass: rules appear whole or not at all (implements `RuleTable`), a POST reports what it stored, responses name only authorized providers and miss none, flags honoured, connections balanced, every request answered |
| `check_mariadb` | same, with an `escape` that adds no quotes | violated: no authorized provider is returned |

Bounds.  Four threads on two connections leave two asleep at once, so that one
return of a connection meets several sleepers, and two requests each let a returned
connection be taken again before a woken thread runs.  Three clients on two workers
put a connection in the queue while both workers are busy and let a busy worker
overtake the notified one.  A stream of three requests has a request with a
predecessor and a successor, and reads of 1 to 4 lexemes cut every request at every
place and join the end of one with the start of the next.  Three service registry
requests are enough to register, fail in the middle, register again and query, or
for two registrations and a removal.  In the local cloud `MaxWork` = 2: any two of the
nine forms, eight management requests and the changes of the registry run beside each
other at every interleaving of statements and calls, with any number of lost calls and
ended processes.  One connection for two workers makes one of them wait; the two rules
and three entries give one provider two entries with different interfaces, one of them
secured by tokens, and another provider an interface that is offered and not granted.
The theorems below do not depend on these numbers.

Fairness.  `FairSpec` of the servers and of the pool assumes that every thread that
can run is scheduled and that a handler runs finitely many statements; nothing is
assumed of who wins a mutex.  A servlet ends because `SO_RCVTIMEO` bounds every
`SSL_read` and a client sends finitely many requests.  Failures of `poll`, signals,
new clients and spurious wakeups are never assumed to happen.  `LocalCloud` assumes weak
fairness of each worker's own steps and of the service it has called, and strong
fairness of getting a connection, for which `db_pool` shows that the pool serves every
waiting handler.  That a called service answers is an assumption on the service: the
client has no time limit.  Requests, faults and the end of processes are not assumed to
happen.  Deadlock is not checked there, because after `MaxWork` requests all is done; `Answered`
still says that no request is left waiting.

What the violations show is described with each finding in `PROJECT.json`.

## The proofs

Each `..._proofs` module proves the safety properties of the module it is named after,
for any number of threads, connections, workers, clients, requests, rules, entries and
streams; `LocalCloudSteps_proofs` is the first half of `LocalCloud_proofs`.  A leaf
that needs no arithmetic or records often names Zenon; the others are left to SMT.

*Pool.*  Assumes only that `Size` and `MaxRequests` are naturals.  The inductive
invariant is `TypeOK`, `ConnectionsConserved`, `NoSleeperWhileIdle` and `OpenIsHeld`
(an open transaction belongs to a thread inside a transaction that holds the
connection); the last is what makes `IdleConnectionsClean` follow.  The lemmas
`PopProperties` and `PushProperties` say what `lock` and `unlock` do to the stack.
`PoolImplements` maps the stack to the set of free resources: `Take` is `Acquire`,
`unlock` is `Release`, and every other step leaves the mapped state alone.

*Server.*  Assumes a finite, non-empty set of workers and a `NoClient` that is no
client.  The invariant adds to the properties the control facts they need: a worker
holds a connection exactly while it is in a servlet, `stop` is set from the moment
the main loop is past it, a worker that exited found the queue empty, and `run()`
returned after all workers exited.  `NoLostWakeup` compares the length of the queue
with the number of awake workers, so its proof uses the library's cardinality facts.

*Authorization.*  Assumes that stored ids lie below the auto-increment counter and are
unique, and that the lists of a request are finite.  `AuthInv` has five parts: the types
(`AuthTyped`); ids of committed and uncommitted rows are below the counter and never
shared (`IdsFresh`); what a transaction has inserted and what it still has to insert make
up the request (`Inserting`); after the commit the transaction is the whole request
(`Inserted`); and the answer says so (`Reported`).  `IdsFresh` is what rules out that one
request's rules or connection rows mix with another's, so that `Commit` is `Add`, `Delete` is
`Remove` or a stutter, and every other step is a stutter of `RuleTable`.

*Local cloud.*  `CloudRunsAuthorization` shows that every step of the composition is a step
of the authorization system or leaves it alone, so its theorems carry over.  `CloudInv`
says of each orchestrator worker that its call is the one its program point waits for and
carries what was asked (`CallFits`), that everything it has collected was registered or
granted during its request (`Sound`), and that nothing kept throughout has been dropped
(`Complete`).  `OnlyAuthorizedReturned` and `FlagsHonoured` follow from `Sound`, and
`AuthorizedIsReturned`, under the assumption `EscapeQuotes`, from `Complete`.  `CloudTypeOK`
rests on the balance of the pool: idle connections and workers that hold one add up to
`PoolSize`, which needs a finite set of callers.  `LocalCloudSteps_proofs` has the
invariant, what the environment does to a waiting worker and a worker's steps,
`LocalCloud_proofs` the invariance and the theorems.

*Asynchronous server.*  Assumes that `MaxThreads` is a natural.  `AsyncInv` says that a
servlet that runs has its future in `servlets` until it is ready, that a connection in the
backlog has none, and that `run()` returned after the last one.  `OnlyFinishedRemoved` and
`GracefulExit` are false when a call is deferred (the run `async_limit`), so they are
proved under `EnoughThreads`: there are finitely many clients, and the system grants a
thread to each.  `RunningKept` says what is left without that assumption: as long as no
call is deferred nothing is forgotten.

*Servlet and parser.*  Assumes that a stream is a sequence of well-formed requests or of
texts that are none, HTTP/0.9 only as the first (`StreamsAssumption`), with bodies and
chunks of any length, and that `BufferSize` is positive.  `EncodeAll` is recursive: `ConcatenationExists` and the lemmas
after it show where each request begins and ends in the stream by the absence of a least
counterexample (`LeastNatural`).  The inductive invariant `FramedInv` is stated with those
offsets.  While the connection is open, the parser has consumed some lexemes of exactly one
request, the one after the last that was handled; its state, its content and what it has
yet to read fit the place it has reached (`Position`).  Replies are those of the handled
requests, in their order, all of them unless the connection broke, and perhaps one 400 at
the end.  `LexemeConsumed` is the heart of it: at
every place of every request `consume` goes to the state of the next place, and completes
the request at its last lexeme and not before.

*Service registry.* Assumes that requests are as the parsers let them pass
(`RequestsAssumption`) and that the bounds are naturals.  `RegistryTypes` holds for any
number of workers.  It says of every statement which handler it belongs to and how far
the two loops of a registration over its interfaces have come (`LoopAt`), so that neither
loop reads past the end of its list; `TypeOK` follows.  The other properties do not hold
of two workers, whose statements interleave: TLC refutes each of them when `Workers` has
two members (`ImplementsMap` with registrations and deletions of one URI).  For instance
two registrations both find a URI free and both insert it (Register.h:138-146), and a
deletion removes an entry before its registration has replied.  So they are proved for a
server with one worker (`OneWorker`), as the run checks them.  `RegistryInv` adds that
URIs and definition names are unique and connections lead to interfaces that exist
(`TablesSound`), and for each kind of request what its statements may rely on (`Flow`): a
registration inserts an entry only while none has its URI, finds in its second SELECT
what it has inserted, and is past the connections only when its entry has one;
unregistering has found the definition and the system that it was given; a query has
answered exactly for the rows it has gone through.  `UriUnique`, `RegisteredIsUsable` and
`QueryExact` follow; `UnregisterIsOwn` is shown step by step.  For `ImplementsMap`, the
INSERT of an entry is `Bind`, a DELETE is `Remove` of one URI or of all that share
provider, service or system with it (`DoomedEntries`), and every other step leaves the
map alone.

What stays with TLC.  The liveness properties need fairness and ENABLED, which this prover
does not handle: `EveryRequestServed` of the pool, `EveryAcceptedServed` of both servers,
`KillStopsServer`, `SignalStopsServer`, `ConnectionCloses` of the servlet and `Answered` of
the local cloud.  Of the properties that the code violates, `OnlyFinishedRemoved` and
`AuthorizedIsReturned` are proved under the assumption that excludes the violation, as is
`GracefulExit` of the asynchronous server; `RegistrationStored`, `DispatchNoexcept`,
`KeepAliveIsOwn` and `GracefulExit` under the process-wide signals of `HTTPSServerSignals`
have runs only.

## Not modelled

JSON texts and field checks (a payload is well formed or not), response formatting,
logging, certificates and the ownership of OpenSSL objects, the MariaDB client
library, libcurl's options, the configuration and boot sequence, and the stub core systems.
The device registry is unfinished: the INSERTs that would register a new device do not
parse as SQL, the UPDATE of a known one has no WHERE, and `putDeviceRegistry` is empty;
what is left are single-statement changes.  The certificate authority's listings only
read, and the inter-cloud half of the authorization system repeats
the intra-cloud half on other tables.  The service registry's management listings and
`query/system` read without changing state and are left out; the local cloud takes a
registry query as one step, so what a query misses beside a registration in progress is
not covered.  `kill()` before `run_internal()` has stored its thread id is undefined and left out;
so is the unused constructor `DatabaseConnection(pool, Transaction)`.
