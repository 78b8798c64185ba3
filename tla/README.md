# OCP VCF Dashboard: TLA+ models, checks and proofs

The dashboard (`cmd/dashboard`, `pkg/*`) is one Go process.  Informers, a Prow
fetcher and one collector per vCenter write into an in-memory store; HTTP
handlers render pages from it; and one stream per browser tab (Server-Sent
Events, SSE) sends a new fragment whenever the data behind the tab's page
changes.  Nothing is persisted: a restart begins with an empty store.

This directory models that process in TLA+, checks the models with TLC on
small instances, and proves their main safety properties for every instance
with TLAPS.  Paths below are relative to `src/`.

## 1. Inventory

| Part | State it keeps | Operations | Talks to |
|---|---|---|---|
| Change feed (`pkg/store/store.go` 16-88 and the mutators) | subscriber channels, under `subMu`; the data, under `mu` | mutators (change, then `notify`), `Subscribe`, `Unsubscribe` | called by every writer and every stream |
| Store queries (`store.go` getters, 273-382) | none | copies and lookups under the read lock, overview counts | called by pages and streams |
| SSE streams (`pkg/server/sse.go`) | one channel, the fragment just rendered | subscribe, render from one or two reads, write, wait, leave | feed, browser |
| HTTP pages (`pkg/server/server.go`) | none | pages, fragments, detail pages, `/healthz`, `/readyz`, template helpers | getters |
| CRD watcher (`pkg/k8s/watcher.go`) | three client-go informers (external) | list, watch, resync; add, update and delete handlers | API server, store |
| Prow fetcher (`pkg/prow/fetcher.go`) | a ticker, the last response | fetch, call back, wait for a tick or the end | Prow API, store |
| Prow analyzer (`pkg/prow/analyzer.go`) | none | filter, version, grouping, order, counts, ages, sparkline | fetcher |
| vCenter collector (`pkg/vcenter/collector.go`) | a ticker, a wait group, the data being filled | rounds, one goroutine per vCenter, inventory calls | sessions, vCenters, store |
| vSphere sessions (`pkg/vsphere/session.go`) | sessions and per-server locks under `mu` | `Session`, `Servers` | collector, vCenters |
| Configuration (`pkg/config/config.go`) | none | read once at start-up | API server |
| Process (`cmd/dashboard/main.go`) | the context | start order, signal, shutdown | everything |
| Browser (`static/table.js`, htmx and `static/sse.js`) | sort and filter of each table | initialise after each swap, sort, filter | streams |

What is hard in each, and what makes it correct:

* **Change feed and streams.**  Any writer runs against any stream.  A mutator
  changes the data and notifies in two separate critical sections; channels
  hold 64 events and a full one is skipped; a handler subscribes, reads and
  writes while events pile up; clients stall, leave and come back.  Correct
  means: no update is lost while a stream lives, a tab never goes back to older
  data, `notify` never sends on a closed channel and never waits for a browser,
  and a stream whose client is gone leaves nothing behind.
* **CRD watcher.**  Events are repeated by resyncs and lists, lost with a broken
  watch, and deletions may only be inferred (tombstones); an object may not
  convert.  Correct means: with nothing under way the store has what the API
  server has, and it never went back to an older version.
* **Prow.**  Any fetch may fail, the first included; start times tie.  Correct
  means: failures leave the page alone, every summary agrees with the response
  it was computed from, and exactly the right jobs are shown.
* **vCenter collector and sessions.**  Goroutines of a round take a global and a
  per-server lock in turn; requests fail or never return; rounds must not
  overlap.  Correct means: no deadlock, one slow vCenter does not hold up the
  sessions of the others, what is stored is at least as fresh as its
  `CollectedAt`, and cancellation ends the loop.
* **Pages and queries.**  A detail page reads several sections one after the
  other under separate locks, each for what the one before said.  Correct means:
  nothing of another lease is shown, nothing that was there all the time is
  missing, and a page is not found only if what it is about was not there all
  the time.
* **Process.**  It starts with two reads of each of several Secrets, any of which
  may fail; a signal may come before, during and after start-up; streams never
  end by themselves; the pages are served before the caches are filled.
  Correct means: it never runs with some of its vCenters, a signal ends it, and
  as an end and not as a failure.
* **Tables in the browser.**  The stream replaces tables that the user sorts and
  filters, and timers of several swaps run together.  Correct means: every new
  table becomes interactive, once, and what is shown is what matches, in order.
* **From end to end.**  Broken watches, broken streams and restarts come
  together.  Correct means: a tab comes to show what the API server has, and
  never goes back to something older.

The hazards, each at its line, are in `PROJECT.json`.

## 2. Modules

| Module | Models | Extends |
|---|---|---|
| `EventFeed` | mutators, `notify`, `Subscribe`, `Unsubscribe` | |
| `SSE` | `handleSSE`, `sendSSEFragment`, the browser's connects and disconnects, composed with the feed | `EventFeed` |
| `LiveView` | a view that may lag but never goes back: the abstract specification that `SSE` implements for the tabs, and, as theorems, `Collector` and `Prow` for the store | |
| `Watcher` | the handlers of one informer, with API server, informer and restarts around them | |
| `Dashboard` | the watcher composed with tabs: page loads, streams, restarts of the pod | `Watcher` |
| `Collector` | `Run`, `collectAll`, `collectServer`, and `Session` with its two levels of locks | |
| `Prow` | `Fetcher.Run`, `FetchOnce` and `Analyze` | |
| `Details` | the page handlers, the queries of the store they make, and the mutators in between | |
| `Lifecycle` | `main`, `ReadConfig`, `ResolveCredentials`, `ListenAndServe` and `Shutdown` | |
| `Table` | `static/table.js`: initialising, sorting and filtering a table that is replaced | |
| `MCSSE`, `MCDashboard`, `MCCollector`, `MCProw`, `MCDetails`, `MCLifecycle`, `MCTable` | the instances TLC checks | the above |
| `SSEProofs`, `WatcherProofs`, `DashboardProofs`, `CollectorProofs`, `ProwProofs`, `DetailsProofs`, `TableProofs`, `LifecycleProofs` | theorems and proofs | the above and `TLAPS` |

Operators marked `Mutant:` are plausible bugs of the definition that follows
them.  No specification uses them: `PROJECT.json` pairs each with a property
that TLC finds violated when the mutant takes the definition's place.

### EventFeed and SSE

Each writer (an informer, the Prow fetcher, a vCenter's worker) changes one
*section* of the store.  A section's content is the number of changes made to
it, `ver[s]`; an older number is stale data.  A mutator is three steps, as in
`SetPool`: `Change` (critical section of `mu`), `NotifyLock` (takes `subMu` and
fixes the sends to attempt in `outbox`), and `NotifyUnlock` when all are done.
Between them `Deliver` and `Skip` attempt one send each: `notify` iterates over
the map in any order, sends its two events (the section's and `overview`) to a
channel in order, and skips a full channel.  `dropped` is a history variable:
the types skipped since the handler last read.

`pc[t]` follows `handleSSE` for tab `t`.  `Subscribe` is one critical section;
the render is `ReadFirst` and, for pools, networks and prow, `ReadSecond` of the
leases, each under its own read lock; `Write` sends the fragment.  `select` is
`Wake`, `Ignore` or `Return`, any that is ready; the deferred `Unsubscribe` is
`HandlerDeregister` (delete under `subMu`) and `HandlerClose` (close after it).
`Disconnect` cancels the request's context at any moment: a client leaves, a
network breaks, or the server's `ReadTimeout` of 30 s (main.go:147) gives up.
The tab's EventSource may `Connect` again at any time after.

Left out: the error branch of a template (templates are fixed at start-up),
the 404 for an unknown resource, the `!ok` branch of the receive (only the
handler itself closes its channel, after its loop), and the first page load
(a plain GET renders from the same reads; the stream's first fragment replaces
it at once).

### Watcher

One module for the three informers, whose handlers are the same code.  An
object is its version and whether it converts.  The informer is client-go's,
outside `src/`, and modelled as the code relies on it: `Put` and `Withdraw`
change the API server; `watch[n]` are the events on their way; `Receive` moves
one into cache and notification queue; `Resync` repeats the cached object (every
30 s, watcher.go:61); `Disconnect` breaks the watch and may lose its tail;
`List` repairs by relisting and infers deletions, delivered as tombstones;
`Restart` is the pod's.  `HandleSet` and `HandleDelete` are the registered
functions with the mutators they call.  The mutator is one step here, since the
handlers of one informer run one after the other and nobody else writes the
section; its interleaving with readers is the subject of `SSE`.
The failed type assertions of the handlers cannot be reached: the informers are
dynamic and deliver `Unstructured` objects or tombstones.  `List` returns the
present state of the API server.  (An informer's first list may be served from
the API server's watch cache, which can lag behind for a moment; the model
leaves this out, and with it the only way a restarted pod could know less than
the one before.)

### Dashboard

`Watcher` with the tabs that show its resource, so that a change is followed
from the API server to the screen.  All of `Watcher` is kept; a stream is
abstracted to what the proofs about `SSE` say of it: a handler in `read` or
`write` or `wait`, the store as it was read (`frag`), and whether an event waits
for it (`news` is `event`) or the last one met a full channel (`lost`).
`HandleEvent` is an informer's handler with the mutator's `notify`; `RestartPod`
ends store and streams together, and the tabs keep displaying what they had and
connect again to a process whose store is still empty (`main` serves without
waiting for the caches).  `Load` is a page load, which also resets what the tab
is held to (`newest`); `Break` is any end of a stream.

### Collector

`inv[s]`, the number of changes of a vCenter's inventory, doubles as its clock,
so that "collected at" and "what was read" can be compared.  Workers are pairs
of a server and a round modulo 2, so that a round which overtook another would
be seen.  `Lookup` to `SaveDone` are `Session` lock by lock: `mu` for the
lookup, the server's lock around `GetOrCreate`, `mu` again inside it to save.
`Created`/`CreateFails`, `Clusters` and `VMs` are the calls to the vCenter: a
faulty one may fail any of them, at any time, and any vCenter may once the
context is cancelled (`MayFail`).  A failed session stores an empty
reading with an error; a failed inventory call leaves that part empty, as the
code does.  `NextRound` needs `mu`, which `Servers()` takes.

Assumed of the library: calls of `session.GetOrCreate` (Cluster API Provider
vSphere, session.go:128) for different servers do not wait for each other.  Its
own locking is not part of this repository and was not looked at.  If it held one
lock for all servers during a call, a slow vCenter would block the others in spite
of the per-server locks, each time until `sessionTimeout` (120 s) ends its call;
`SlowServerBlocksNoOther` would then need `CallsTimeOut` as a premise, and would
not hold for a `GetOrCreate` that never returns.

Left out: `Metadata.sessions` (written, never read), `ContainerView` (called by
nothing), the missing-credentials branch (the servers come from the map of the
credentials), and the fields of clusters and VMs.

### Prow

A job's name is the sequence of the parts its dashes separate, a part a version
or a word.  `extractOCPVersion` keeps the regular expression's way of consuming
the separator (a version right after a matched one is not matched) and takes
the last match; the comparison with `MinOCPVersion` is Go's string comparison
of the digits, as in the code.  `Orders` are all the results `sort.Slice`, which
is not stable, may produce, and `aggregate` chooses one for each job.  `FetchFails` stands for every error path of
`fetchFromAPI`; `Callback` is `Analyze` and `SetProwJobs`.  `source` is a
history variable: the response from which what is shown was computed.

Left out: variant, sparkline, texts of durations and ages, `Fetcher.cache` and
`cacheAge` (written, never read).

### Details

A request is a list of queries still to be made (`todo`), and a query's answer
may put more in front: `AskLease` reads the lease and then asks for its pools,
the VMs of its namespace and its job, in the order of `handleLeaseDetail`, and
likewise `AskLeaseIn` (cluster page) and `AskLeasesFor` (Prow job's page).  A loop
of a handler is a query that asks for what is left of it: `AskPoolOf` reads one
of the pools left, `NextLease` takes one of the leases left and asks for its VMs
and pools before the others.  Each query is one critical section, as the getters are;
between two of them any mutator may run (`Writers`).  `GetLeaseByNamespace` may
return any match and `NextLease` goes through the leases in any order, as
iterations over Go maps do.  `page` is what has been put on the page, `rows` how
often a VM is on it.  `kept` is a history variable: what has been in the store
at every moment since the request began, which is what a page can be blamed for
not showing.  VM names and namespaces are the sequences of their parts, so that
`isCIVM` and `extractNamespace` do what the Go functions do with the dashes; the
namespaces the pages promise VMs of are those of CI jobs, `ci-op-<hash>`.
One request is followed at a time: handlers only read.

Left out: redirects for an empty name, the networks page (the shape of the pools
page), `GetVMsByClusterID` (called by nothing), the fields no query looks at, and
the overview's counts of Prow jobs and vCenters.

### Lifecycle

`main` is where `main()` is: reading the ConfigMap, then for each entry the
Secret's user name and password, each by a `GetSecret` of its own, then
`NewMetadataFromCredentials`, the goroutines, and `<-ctx.Done()`.  `StartFails`
is any `klog.Fatalf` of start-up.  The goroutine of the HTTP server follows
net/http's `ListenAndServe`: it looks whether `Shutdown` has been called, binds,
looks again, serves.  `Shutdown` refuses new connections and waits for the busy
ones, at most ten seconds (`Overdue`).  `sigCh` holds one signal, and the handler
takes one.  The kubelet may start the container again after a failure
(`Restart`); `Rotate` changes a Secret at any time, `Reconfigure` corrects an
empty ConfigMap.

Left out: flags, the choice of the kubeconfig, YAML, and the `Fatalf` after
`server.New` (main.go:137-140), which only the templates embedded in the binary
can cause: one that does not parse fails in every start alike.

### Table

The state of one table: its rows in their order, which of them are hidden, the
mark that it was initialised, and what the user chose.  `Swap` is an event of
the stream: a new table without any of it, and a timer; `Timer` is `initAll`
50 ms later.  `Sort` moves the rows that are shown behind the hidden ones, as
`applySort` does by appending; the order it makes is a permutation of the
positions (`SortedOrders`) under which no row stands above one that should be
`Above` it.  `applyFilter` hides and, if a column is sorted,
sorts again.  The third click on a header sets `sortDir` to 0 and leaves the rows
where they are.

Left out: `parseValue` (the order of a column's texts is a constant of the
module, total up to ties, with its null last; what the comparison makes of
numbers among names is left out), pages with several tables (they share nothing).

## 3. Runs

Passing runs (TLC finishes, no error):

| Run | Instance | Properties | Distinct states |
|---|---|---|---|
| `sse_two_pages` | writers of pools and leases; a pools tab and an overview tab; channels of 2; one change each | `NoSendOnClosedChannel`, `NoSilentStaleness`, `QuietStreamShowsOwnData`, refinement of `LiveView` | 1.5 million |
| `sse_live` | the same writers, one pools tab, channel of 1, two changes each | `WritersNeverBlocked`, `EventuallyShown`, `DisconnectCleansUp` | 83 thousand |
| `dashboard` | one object, two versions, two faults, one tab, notification queue of 3 before resyncs | `DrainedMirrorsApi`, `NeverBackInTime`, `QuietPageMirrorsApi`, `PageNeverGoesBack`, `EventuallyOnPage` | 166 thousand |
| `collector` | two vCenters, of which one may fail or never answer; any number of rounds | `OneWorkerPerServer`, `CollectedAtIsHonest`, `NewerCollectionWins`, `SlowServerBlocksNoOther`, `CancelStopsRun`, `PolledIfAllAnswer` | 150 thousand |
| `prow` | three jobs (a periodic that upgrades and has two versions, a periodic without a version, one that is no periodic), three changes, start times 0 to 2 | `OnlyVSpherePeriodics`, `NothingMissing`, `LatestIsLatest`, `CountsAddUp`, `LastSuccessIsLast`, `FailureKeepsData`, `EventuallyShown`, `CancelStopsRun` | 736 thousand |
| `details` | two leases, one pool, one job, two vCenters, two VM names; two changes during a request, any number before | `TypeOK`, `OnlyRelated`, `NothingMissing`, `NotFoundIsTrue`, `RowsPerLease`, `OverviewAddsUp` | 626 thousand |
| `lifecycle` | no, two, or a repeated vCenter in the ConfigMap; two Secrets changed once; two connections; two signals | `StartedWithAllCredentials`, `StopIsNoFailure`, `SignalEndsProcess`, `ServesInTheEnd` | 93 thousand |
| `table` | three rows, two columns with equal and with missing values, three filters, three timers | `OneFilterRow`, `ShownMatch`, `ShownSorted`, `InteractiveAgain` | 3.9 thousand |

What the runs of the pages, the process and the tables show: a detail page
may be put together from two states of the store, and still shows nothing that
does not belong to its lease and misses nothing that was there throughout
(`OnlyRelated`, `NothingMissing`, and for each VM and each lease by itself
`NotFoundIsTrue`); two leases of one namespace list each VM twice on the Prow
job's page, which `RowsPerLease` allows, and never more often.  Of runs that start
together, `LatestIsLatest` and `LastSuccessIsLast` accept any as the latest.
No goroutine runs before every vCenter has credentials, of its first entry
(`StartedWithAllCredentials`); a signal before the port is bound is not taken
for a failure (`StopIsNoFailure`).  No sequence of swaps, clicks and inputs
loses a row, leaves an unsorted one or leaves a table without its filters.

Runs TLC ends with a counterexample, for what a document says and the code does
not do (section 4): `sse_dropped`, `sse_lease_columns`, `collector_hung`,
`prow_old_versions`.

Why the bounds are enough to see the interesting cases:

* Channels of 1 or 2 instead of 64: an own event with its `overview` fills a
  channel of 2, so a full channel, a skipped event and the coalescing of a burst
  all happen; the properties depend on full or not full, never on the number.
  With two tabs `notify` is in the middle of its loop while the other tab's
  handler runs.  Two changes per section let a change race with the rendering of
  the one before.
* One object in `dashboard`: objects share nothing but the connection; two
  versions and a withdrawal give an old, a new and no object, two faults a relist
  after a relist and a restart during one.  `MaxQueue` bounds only what resyncs
  add.  The instance is small because what it says about the store is proved for
  every bound (section 6); before the composition, `Watcher` alone was explored
  with three versions and a longer queue.
* Two vCenters in the collector run: one that misbehaves and one that must not
  suffer.  Rounds are not bounded.
* Three changes in `prow` let one job be replaced, corrected and removed, or
  give it two ended runs (a run may be first seen when it has ended), so that the
  order of successes matters; times 1 and 2 give an earlier and a later run and
  ties, time 0 is a start that is missing or does not parse.
* Two changes during a request in `details`: a lease that changes between the
  read of the list and the read of its VMs, and one that goes and comes back,
  which is the shortest way to have been missing in between.  Two leases in one
  namespace are what the Prow page and the cluster page have to tell apart.
* Two entries in `lifecycle`: the second may fail after the first has succeeded,
  or name the same vCenter.
* Three rows in `table`: one to hide, two to order; columns with equal texts, and
  one without a value.

The inductive invariants of section 6 were checked with TLC before they were
proved; the runs state the properties only.

Deadlock is checked except where the system really may stop: after `Run`
returned, with the changes used up, in the Prow runs.  The end of the process is
a stuttering step of its own in `Lifecycle` (`Ending`).

## 4. Where documents and code disagree

* `sse_dropped`: README.md:13 promises real-time updates without a refresh; a
  handler that is writing while 32 changes of other resources arrive has a full
  channel, and its page's own event is skipped (store.go:83).  Nothing makes the
  page render again before the next event of its own type: usually the next
  resync for pools, leases and networks (none comes for the deletion of the last
  object), the next poll for vCenters, the next fetch that succeeds for Prow.
* `sse_lease_columns`: the pools, networks and prow pages show leases too, but a
  lease event does not make them render (sse.go:66).
* `collector_hung`: README.md:114 says each vCenter is polled every interval; a
  single vCenter that accepts a request and never answers stops the polling of
  all (collector.go:118, and no timeout in 160-252).
* `prow_old_versions`: versions are compared as strings (analyzer.go:66), so
  jobs of versions 4.2 to 4.9 pass the filter for 4.12 and later.

Met while reading and not given a run:

* README.md:114 lists datastore capacity among what is collected, and the code
  collects none.
* The comment at server.go:559 speaks of a `job-name` label where the code uses
  an annotation.
* static/table.js:130 says "Restore original order" where the rows stay as the
  last sort left them (`Click` in `Table` does the same).
* `timeAgo` (server.go:56) trims `0h0m0s` from a number of hours, so that 240
  hours are shown as `24`.
* A user name and a password are two reads of a Secret (config.go:91-97): a
  rotation in between gives the old name with the new password, until the pod is
  started again.  `StartedWithAllCredentials` states what does hold, and permits
  this pair.
* The comment at store.go:163 gives `ci-op-xxxxx-yyyyy`, four parts, as an example
  of a lease's namespace label.  The namespaces that the code computes from VM
  names and looks for have three (collector.go:252, store.go:294), so a lease with
  such a label would get no VMs.  `Details` follows the code.

Reachable in the models, where no document says otherwise and no property
forbids it:

* The cluster page decides on its 404 from two reads (server.go:506).  When VMs
  arrive after the first and the lease leaves before the second, the answer is a
  404 for a namespace that had one of them at every moment.
* Two leases of one namespace list its VMs twice on the Prow job's page
  (server.go:565).
* Which of two runs that start in the same second is the latest may change from
  fetch to fetch (analyzer.go:97).

## 5. Fairness

Safety is checked and proved without any fairness.  For liveness:

* *Locks.*  Actions that take a mutex have strong fairness: Go's mutexes hand
  over to a waiter that starves.
* *Goroutines* (weak fairness): a goroutine that can run will.
* *select* (strong fairness of its cases): Go picks a ready case at random, so a
  case that is ready again and again is taken.
* *The environment owes nothing*: changes, browsers, failures, faults, resyncs,
  cancellation have no fairness, with two exceptions.  Tickers tick.  And a
  property that needs the other side to cooperate names that as its premise,
  so that the specification of the run does not assume it for the others:
  `HandlerFairness` (a client that does not read is in the end disconnected by
  TCP, so writes end), `CallsTimeOut` (`sessionTimeout`, and every call returns
  when its context is cancelled), `AllAnswer`, `ApiAnswers`, and `Healthy` in
  `Lifecycle` (from some time on reads of the API server succeed and the port can
  be bound, the ConfigMap is corrected, and the kubelet starts the container
  again).
* *Reconnecting* (weak fairness, `Dashboard`): an informer lists again after its
  watch broke, and an EventSource connects again after its stream broke.  That
  streams stop breaking is the premise of `EventuallyOnPage`, not an assumption;
  resyncs have no fairness, so that they are not what makes it hold.
* *Timers* (weak fairness): the browser's 50 ms and the ten seconds of `Shutdown`
  pass.  Nobody has to close a stream for `SignalEndsProcess`.

So `WritersNeverBlocked` and `SlowServerBlocksNoOther` hold although a handler
or a vCenter call may never take another step, in the same run in which
`EventuallyShown` and `PolledIfAllAnswer` assume that it does; the second of them
under what section 2 assumes of `GetOrCreate`.  The fairness of the collector is
that of a vCenter's workers together, of which at most one runs
(`OneWorkerPerServer`).

## 6. Proofs

All theorems hold for any values of the constants that satisfy the named
assumptions of the modules (types, a positive channel capacity, `None` distinct
from the values).

**Streams** (`SSEProofs`).  `IInv` consists of the types; `LockInv` (the writer
in `notify` holds `subMu`, and sends are pending only on registered channels
while it is held); `StreamInv` (registered from `Subscribe` to `Unsubscribe`,
closed only outside); `WrittenInv` (a waiting handler has written what it read);
`AgeInv` (displayed, read and stored versions are in this order); and
`NoSilentStaleness`.  The last is nearly inductive on its own: a `Change` makes
the data stale and puts its writer into the state that counts as pending news,
`NotifyLock` moves the news to the outbox, `Deliver` to the queue, `Skip` to
`dropped`, and a handler that consumes it has to render.  The lock and
registration parts are needed to know that a channel in `notify`'s snapshot is
not removed before its sends are attempted.  From `IInv` follow
`NeverSendsOnClosed`, `NoLostUpdate`, `QuietIsCurrent`, and, with `AgeInv`,
that every step of `SSE` is a step of `LiveView` or leaves the view alone
(`Implements`).

**Watcher** (`WatcherProofs`).  Why the store ends up right although events are
repeated and lost: `CacheInv`, handling what is queued would leave the cached
object in the store (the last effective event in the queue is the cached
object); `WatchInv`, while the informer watches, the last event on its way is
what the API server has.  With both queues empty, store = cache = API server
(`MirrorsApi`).  `OrderInv` orders versions along the whole path, from store to
API server, and gives `InOrder`.

**Dashboard** (`DashboardProofs`).  `WatcherUndisturbed`: every behaviour of the
composition is one of `Watcher`, so what is proved there holds here and can be
used.  `RenderedInv`: if no event waits for a handler and none was lost, the
fragment it is about to write, or the page behind it, is the store; an event
that is on its way is what makes this true while it is not.  With `MirrorsApi`
this gives `PageMirrorsApi`.  `AgeInv`: for every object and tab, all that may
still reach the store (`Versions`: store, cache, both queues, API server) is at
least as new as the fragment being written, and all of it, fragment included, at
least as new as the newest the page displayed.  It is stated about `Versions`
and not about the store alone because a restart empties the store and fills it
from the API server; it gives `NoPageGoesBack`.

**Collector** (`CollectorProofs`).  `LockInv` ties each lock to the program
counter of its holder; `RoundInv`, only workers of the current round run, and
only while the loop waits for them; `ReadingInv` and `StoredInv`, what is read
is in the order clusters before VMs, after `CollectedAt`, and newer than what is
stored.  `RoundInv` is what makes `ReadingInv` inductive: no second worker of
the server can store in between.  `NoLockCycle` is the order of the locks:
`Session` takes `mu` again with a server's lock held, and still whoever is waited
for is about to unlock `mu` and waits for no one, a server's lock is free when its
worker asks for it, and `mu` is free when the loop asks for it.  `LockInv` is not
enough for it, as it does not exclude that a lock is held by a worker of another
server; `OwnerInv` does, and is an invariant of its own.  `Implements` is the
refinement of `LiveView` once more, with the vCenters as the sections and the
store as the only tab: what it holds of each is from a time that was (`StoredInv`)
and advances only (`ReadingInv`).

**Prow** (`ProwProofs`).  Types; `KeepsData` from "the response under analysis
is not older than the one shown"; the others from `ShownInv`, "what is shown is an
analysis of the response it is said to be from", with `FiniteInv`, "a response
lists finitely many runs".  The second is what makes an order of the runs a
bijection: a listing is injective and as long as the set is large, so that every
run is in it (`NoneMissing`, `LatestRun`) and a count of positions is a count of
runs (`CountsCorrect`).  `LastSuccessCorrect` takes the least position of a
success, which exists, and descending starts do the rest.  `CallbackHasResult`
shows that the analysis has a result for every response: a finite set of runs with
a strict total order (latest first, ties by any numbering) can be listed in that
order (`Ranked`), so `Callback` is never held up and the theorems about what it
shows are not about a step that is never taken.  `Implements`: the store is a
`LiveView` of the Prow API too, by `RevInv`.

**Pages** (`DetailsProofs`).  The properties speak of the finished page and the
invariant of every moment before.  Its parts:

* `QueriesInv`: each query still to be made belongs to the page and to a lease
  that is already on it (`Sensible`), queries come in the order of the handler
  (`MayFollow`; so the VMs are never asked for twice at a time), and no lease is
  on the page while the query for it is still to come.
* `KeptInv`: what was in the store all the time is in it.  Writers can only
  shrink `kept` (`WritesKeep`), which is why none of them breaks what follows.
* `RelatedInv`: what is on the page belongs to its leases (`RelatedOnly`).
* `FoundInv`: what was there all the time and belongs on the page is on it *or is
  still asked for*, and a pool on the page is the one in `kept`.  An answer moves
  it from the second to the first; a loop keeps its remaining pools and leases in
  the query.  When no query is left only the first remains (`Complete`), and a
  query that finds nothing shows that it was not there all the time
  (`NotFoundCorrect`).
* `RowsInv`: on a job's page the rows of a VM, one more if its namespace is being
  asked for, and the leases of the loop that are left and have the VM, are together
  no more than the leases that have it.  `NextLease` takes one from the last and
  adds the second, `AskVMs` turns the second into the first (`RowsCorrect`).
* `FiniteInv` and `CountsInv`: the cardinalities of the overview are of finite
  sets, and three disjoint parts add up (`ThreeParts`, `OverviewCorrect`).

Every query has a lemma (`AskLeaseKeeps`, `NextLeaseKeeps`, ...).  What a query
does not touch is settled by `KeepsLeases`, `KeepsPools`, `KeepsVMs` and
`KeepsJobs`, `Answered` puts the parts together, and `Opened` does the same for the
beginning of a request.

**Tables** (`TableProofs`).  `ControlInv` (the mark and the filter row come and go
together), `RowsInv` (the rows are those sent, each once, and the hidden ones are
those that do not match) and `SortInv`.  They rest on two facts about orders:
reading a sequence through a permutation of its positions keeps its elements and
repeats none (`Permuted`), and `Less` is a weak order although a missing value is
last in both directions.  `SortHasResult` shows that the choice in `Sort` is never
from nothing, so that the theorems are not about a step that cannot be taken: a
strict total order of 1..n is a permutation, each number's position being how many
come before it (`Ranked`).

**Lifecycle** (`LifecycleProofs`).  `CredsInv`: while the Secrets are read, the
credentials resolved so far are those of the entries before the present one, in
order.  `UsernameInv`: the user name in hand is not newer than its Secret, since
Secrets only change to newer versions; so the password read next is not older.
`StartInv`: nothing runs until `main` is past start-up, and from then on the
metadata fit the configuration that was read.  The step that makes it so is
`BuildMetadata`, whose proof needs that a server that is named at all has a first
entry (`FirstOfServer`, from the least element of a set of numbers).
`ClosingInv`: after `Shutdown` only a port that cannot be bound is a failure.
From these follow `StartsWithAll` and `StopNotFailure`, for any ConfigMap.

## 7. Only model-checked

* Liveness under fairness and everything with ENABLED, which the prover does not
  handle.

Every safety property and every action property of the passing runs is a theorem.

## 8. Not modelled, and the plan

Worth proving next: that each path into the store implements `LiveView` together
with the streams behind it, so that the promise holds from the source to the tab,
as `PageNeverGoesBack` states it for the objects of the API server.

Not modelled, and why:

* Formatting: the template helpers of server.go (35-239), among them the sorting
  of a list by name and the columns computed from two lists, the texts of
  durations and ages, the sparkline, `parseValue`.  Pure functions, for which no
  document states what they should yield.
* The networks page and `GetNetworks`: the same code as the pools page.
* `ContainerView`, `GetVMsByClusterID`, `Metadata.sessions`, `Fetcher.cache`:
  called or read by nothing.
* The mapping of govmomi's objects to clusters and VMs (collector.go 160-252),
  the conversion of custom resources, and YAML: data without a decision the
  properties tell apart, beyond failing, which is modelled.
* An inventory that could not be read is stored as an empty one (`Collector` has
  the overwrite); no document says what the pages should show then, so no
  property is stated.
* Templates and styles (no state), client-go, govmomi, htmx and `static/sse.js`
  (third-party; the models state what the code relies on), deployment files.
