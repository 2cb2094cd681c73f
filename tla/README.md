# Tsunami: a TLA+ model of the load-test distributor

Tsunami runs HTTP load tests on a fleet of machines. An **ocean** (`master/`)
takes requests from clients over HTTP and splits every test over the
**workers** (`worker/`) that are attached to it. A worker dials out to an ocean,
registers with a maximum concurrency, keeps one gRPC stream open, runs what the
ocean tells it to, and reports back on the same stream. Nothing about tests or
workers is persisted.

This directory models that system, checks it with TLC and proves part of it
with TLAPS. File and line references are to the repository's sources.

## 1. Inventory

| Component | Source | State | Operations | Interacts by |
|---|---|---|---|---|
| Distributor (ocean) | `master/client.go`, `master/services.go`, `master/ocean.go` | registered workers (`maxCap`, `used`, send buffer, cached metrics and samples), jobs (assignments, configuration, paused) | addWorker, removeWorker, onReport, onSample, command; Start, Stop, Pause, Resume; reads: GetMetrics, GetSample, GetInfo | one mutex; one Attach goroutine and one sender goroutine per stream; HTTP handlers |
| Capacity planning | `services.go:118-179` | locals of one call | allocate | called under the mutex by Start and Resume |
| Attach stream | gRPC, `proto/services.proto` | messages in flight, liveness of the transport | dial, send, receive, cut, end | joins the two sides |
| Worker control | `worker/server.go` | attached or not, running services | attachOnce, handleCommand (start, stop), stopAll, reportLoop | mutex over the services; report loop in its own goroutine |
| Load engine | `worker/tsunami.go`, `worker/worker.go` | `done`, job channel | Init, Run, GenLoad, Worker.Run, do, Stop | channel and an unsynchronised flag |
| Measurements | `worker/worker.go`, `worker/server.go:231-276`, `services.go:738-987`, `worker/sample.go` | per-goroutine counters and histogram, latest sample | record, serviceMetric, GetMetrics, GetSample | atomics per counter; reports |
| Discovery | `master/discovery.go`, `worker/discovery.go`, `etcd/client.go` | lease, published counters, fleet summary | initDiscovery, publishOcean, publishFleet, selectOcean | etcd |
| Saved tests, environments | `master/auth/bookmarks.go`, `env.go`, `services.go:282-535` | two tables and the active environment | save, delete, list, applyEnv | SQLite; read by Start and Resume |
| Login sessions | `master/auth/` (`auth.go`, `store.go`, `middleware.go`, `provider.go`) | users, sessions; the browsers' cookies | Login, Logout, Validate, SeedAdmin | SQLite; middleware around every handler |
| Request templates | `services.go:476-498`, `worker/tmpl.go` | compiled segments, one shared counter | applyEnv, Compile, Render | applyEnv in Start and Resume; Compile once, Render per request, in every request goroutine |

**What is hard here.** Streams of one worker overlap when the network breaks
on one side only. Commands are fire-and-forget through a bounded buffer.
Capacity is accounted for in five places (Start, Stop, Pause, Resume and the
rejected Resume), with clamps. Capacity is handed on before the worker that had
it has stopped anything. A worker without an ocean must stop by itself. A
report leaves the worker after the mutex it was built under has been released,
and its numbers are read one by one while they change. Workers choose an ocean
by counters that are seconds old, under leases that may be lost.
Generators and request goroutines block on a channel without looking at the
flag that stops them. A request is captured, counted and reported by goroutines
that share no lock. A session is checked by one SQL statement and revoked by
another, and a cookie's lifetime is counted on another machine. Texts are
substituted in the order in which Go ranges over a map, and what is left of
their tokens is parsed by hand.

**What makes each part correct.** Distributor: the registry and the tests'
assignments agree, no worker is promised more than it has, counters are exact.
Planning: terminates, complete, capped, even. Ocean and worker together: what
runs converges to what is planned, what is stopped stops, what has no ocean
stops. Engine: stops for good, does not stall. Measurements: what a client sees
fits together and never falls back. Discovery: a worker finds room where there
is room, what is published becomes right or disappears. Saved tests: what is
started is what was saved, with the variables of one environment. Sessions: an
expired or ended one is never honoured. Templates: segments are rendered in
order, and everything else is left as it is.

## 2. Modules

```
Allocation  <-- Allocate                    the plan as a formula / the code's loop
    ^      <-- Reservation                  what the ocean promises about capacity
    |
Stream  <-- Ocean  -- implements --> Reservation
   ^          ^
   |          |
   +-- Worker-+-- Fleet -- implements --> Ocean
Engine                                      one service inside a worker
Measurements                                the numbers of a test, end to end
SavedTests                                  where configurations come from
Discovery                                   several oceans, workers and etcd
Sessions                                    logins in front of the HTTP API
Templates                                   {{...}}: substitution, compiler
Allocate, Templates <-- MCAlgorithms        the pure algorithms

AllocationProofs     sums, maxima, plans; used by the next three
AlgorithmsProofs     the loop computes the plan; what becomes of the texts
FleetProofs          Ocean, then Ocean with its workers
MeasurementsProofs   the numbers of a test
EngineProofs, DiscoveryProofs, SavedTestsProofs, SessionsProofs
```

* **Stream** (external) is gRPC as the two sides rely on it: in order, no loss
  while it lives, blocking sends (`NetCap`), and a cut that the two ends notice
  independently, with or without what was still in flight. `Streams` says how
  many streams of one worker id may exist at once: with two, a worker may
  redial while the ocean still serves its previous stream. No keepalive is
  configured on either side, so the ocean may take minutes to notice.
* **Ocean** is the distributor. Each handler and each callback holds the
  ocean's mutex for its whole effect and is one action: `Start`, `Stop`,
  `Pause`, `Resume`, `ResumeRejected` (the only rejection that writes),
  `Join` (first message, addWorker, new goroutines), `Refuse`, `OnReport` and
  `OnSample` (two critical sections of one report), `Leave` (removeWorker, by
  id), `Deliver` and `SenderExits` (the sender goroutine), `OceanCrash`.
  `workers[w]` is the stream whose `attachedWorker` is in the map under `w`;
  `cap`, `used`, `metrics` and `samples` are the fields of that entry; `held`
  are the jobs' `assignments`, 0 for an absent key. Configurations are reduced
  to their concurrency, which is all the distributor looks at.
* **Reservation** is the abstract specification: tests reserve in full and
  evenly or not at all, free capacity is what the reservations leave, only the
  loss of a worker takes a part of a reservation away. It has no counters.
* **Allocation** is the plan as a formula (water filling), used by Ocean;
  **Allocate** is the loop of the code, step by step, shown to compute it.
* **Worker** is the worker's process: the connection loop (`Attach`,
  `HandleCommand`, `StreamEnds`, `StopAll`), the report loop (`Tick`,
  `SendReport`), and `WorkerCrash`.
* **Fleet** composes Ocean, Worker and Stream.
* **Engine** is one load test inside a worker: two generators, the bounded
  channel, one goroutine per unit of concurrency, the shared flag, the sample
  recorder and the reporter that reads counters and sample. Of the counters only
  whether they are zero is kept, of the sample whether there is one.
* **Measurements** follows one test's numbers from `record` through
  `serviceMetric` and `onReport` to `GetMetrics`. Every atomic update and every
  atomic load is a step of its own; only the count of the request itself is one
  step with the request's end. `HandleCommand` waits for the mutex that a report
  is built under. What the reporter has still to load is a set (`unread`), read in
  the order of `LoadOrder`; `Merged` is GetMetrics' loop over the cached reports
  in closed form. Periods of load are numbered, which the code does not do, to
  say what a number is a number of.
* **Discovery** is everything between oceans: the lease and its keep-alive, the
  goroutines that publish (each a read under the mutex and, later, a Put), the
  heartbeat, etcd with outages and expiring leases (external), the worker's
  choice and its dial, the connection limit, and the list GetInfo makes of what
  is published. The methods of `etcd/client.go` that anybody calls are operators
  of their own (`NewClient`, `Grant`, `CanPut`, `GetPrefix`, `Lapse`). The parts of a stream, which Ocean and Stream have, are
  collapsed into attached or not.
* **SavedTests** is what Start and Resume take their configuration from: the job's
  `rawConf`, the favourites, the environments and the active one. Every SQL
  statement is a step; `mu` is the ocean's mutex where it is held over several
  (Resume). A text whose tokens have been substituted has none left. A favourite
  saved by name keeps a copy of the running test's configuration without host and
  port (`Copy`), or, if none runs, a configuration without a target (`Blank`).
* **Sessions** is the login: a token is issued, its row inserted, its cookie set,
  each in a step of its own; every later request carries the cookie's token as
  it was when it was sent, is admitted or refused by `GetValidSession`, and then
  does its work or deletes the row. The database survives a crash, requests
  under way do not, except for answers that have left. `born` and `out` record
  when a token was generated and whether a logout has revoked it, which the code
  does not, to say what a token is worth. Rows are known by their token, of
  which the code stores the hash. A start that finds a user where it has counted
  none ends, as the table's UNIQUE constraint makes it (`CreateUserFails`). A row is never removed by its age
  (`DeleteExpired` has no caller).
* **Templates** is what happens to a text: `Substitute` is one round of `applyEnv`
  (any order of variables), `BeginCompile`, `CompileToken` and `EndCompile` are
  the loop of `Compile`, `Render` is `Render`. A text is a sequence of symbols
  (brace, space, word), so that tokens, nested tokens and stray braces are found
  as the code finds them; a generator's output is a mark. `RandInt` computes in
  ints that wrap, `Half` of them negative.
* **MCAlgorithms, MCOcean, MCFleet, MCEngine, MCMeasurements, MCDiscovery,
  MCSavedTests, MCSessions** give the constants values. `MCAlgorithms` runs
  Allocate or Templates, one of them in a behaviour.
  `MCOcean!PromptSpec` replaces the downward channel of Stream by workers that
  read at once and a sender that may wait for as long as it likes; the ocean
  never looks at a command it has handed over, so it can do exactly the same.

Operators named `X_...` and marked `BUG VARIANT of X` are plausible slips in the
code that `X` models; each stands next to `X` and some property of a run fails
with it in place of `X`.

## 3. Runs

| Run | Bounds | Shows |
|---|---|---|
| `algorithms` | 3 workers, 0-4 free units each, requests -1 to 9; texts of up to 3 of 14 pieces, 2 variables with 5 values each; integers of 4 bits | allocate ends and computes `Allocation`; compiling loses nothing, what is sent is what was meant; randInt keeps its bounds |
| `ocean_core` | 2 workers of 2 units, 2 tests, requests 0, 1, 3, clean redials | exact counters within the capacities, no use of a closed channel, no assignment on a lost worker, refines `Reservation` |
| `fleet_control` | 1 worker of 2 units, 2 tests, buffer of 2 | commands converge, the worker is never overloaded, workers are the environment Ocean assumes |
| `fleet_live` | 1 worker, 1 verbose test, fair goroutines, clean redials | dead-man's switch, Stop takes effect, reports arrive, sender goroutines end |
| `engine_warm` | 3 request goroutines, 2 generators, channel of 2, verbose | Stop ends the load with at most one late request each, nothing stalls, a report that counts requests shows one |
| `measurements` | 1 worker, 2 request goroutines, in a first period of load 3 requests of one or 1 of each, in a second one 1 request, latencies 1 and 2 | minimum and maximum agree, the histogram keeps up, nothing falls back |
| `discovery` | 2 oceans of 1 connection, 2 starts of each; either 2 workers and 1 trouble, or 1 test and 3 troubles | every worker finds room, counters settle, a test that runs nowhere is listed nowhere in the end, keys go with their lease |
| `saved_tests` | 1 name, 1 text with a URL and 1 without, 2 requests at a time, an environment with 2 versions and one that does not exist | kept configurations keep their tokens, what runs follows from them and from an environment of the time, no test stops under a Resume |
| `sessions` | 2 browsers, 3 requests at a time, 2 tokens, 2 admin names, a lifetime of 2 in a time of 3, 1 crash, failing statements | only live tokens are admitted, nobody's login is ended by another browser, there is one admin |
| `fleet_half_open` (violation) | 1 worker, 2 streams | a worker thrown out of the registry by its own old stream |
| `fleet_resume` (violation) | 2 workers, Resume of a running test | a worker that no Stop reaches |
| `discovery_outage` (violation) | 1 ocean, 1 worker, an outage longer than the TTL | an ocean that cannot be found again |

**Why the bounds are enough.** Three workers are the fewest with which a round
of `allocate` leaves a remainder that several but not all workers share.
`Requests = {0, 1, 3}` over two workers of two units has a test without any
assignment, one that fits one worker, one that needs both and leaves an uneven
rest, and two tests that do not fit together. The code's send buffer of 32 and
job channel of 100000 matter by being empty, partly filled or full; one or two
places have all three. One message in flight per direction (`NetCap`) is enough
because what a network holds beyond that is held by the send buffer, in the same
order. Overlapping streams need two per worker; a third would only repeat what
the second does to the first. 

Three pieces let a token stand between two others, or between braces that are
not its own; two variables are the fewest with which the order of substitution
can matter, and `VarNames`' second one occurs in a value of the first. In `sessions`
three requests are a login, a logout and a request that one of the two overtakes;
a second browser and a second token make them mixable; the clock can pass the
end of one session and begin another. Four bits have every case of an
overflowing `max - min + 1`.

In `measurements` a goroutine with three requests can be read before, between and
after them and would show up in a histogram that lags too far; two goroutines with
one request each show what merging does (`MCMeasurements!FewRequests`), and the
second period of load shows what a late report of the first does. In `discovery` one connection for each of two
workers makes every choice a contest, and one trouble (a crash, an
outage with any number of lost leases, or a lost stream) already
brings stale counters, dead oceans that are still listed, and an ocean that is
back under a new lease before the old one has run out. A test takes a trouble too,
so behaviours with a test have three: the ocean that runs it crashes, cannot reach
etcd, or both, before or after the test has been stopped. Workers never look at
tests, nor tests at workers, so no behaviour has both (`MCDiscovery!SceneNext`).
`Troubled` picks who it happens to, by symmetry.

**Fairness.** Every goroutine that can run runs eventually (the Go scheduler),
so each of a stream's two goroutines, each step of the worker's loops, each
generator and each request goroutine is weakly fair. A request always ends: it
has a dial, a read and a write timeout. Clients, crashes, dials and failures of
the network are not obliged to happen, so no property relies on them.
In `discovery` the publishing goroutines and the heartbeat run, workers retry for
as long as they have no ocean, an outage passes, and a lease that nobody keeps
alive runs out; nobody is obliged to restart an ocean or to stop a test.
`SendReport` is disabled while the window is full, as the send blocks.

**Conditions.** `fleet_control` takes
`ResumeOnlyPaused = TRUE`: the web control offers Continue for paused tests only
(`webcontrol/index.html:760`). The HTTP handler does not insist, which is what
`fleet_resume` shows. `fleet_live` and `ocean_core` give every worker one stream
at a time; `fleet_half_open` shows what overlapping ones do. `CommandsConverge`
and `NeverOverloaded` speak of streams on which no command was dropped: the code
drops a command that finds the buffer of 32 full (`client.go:143-146`), and
nothing repeats it. `engine_warm` has Stop come after the
generators have begun; with `StopEarly = TRUE` `StopEndsLoad` fails, because
`GenLoad` resets `done` (`tsunami.go:158`) when it begins after `Stop`. Overlapping
streams are met by `fleet_half_open` and by the proofs of section 5 that do not
assume `OneStreamEach`: that no counter becomes negative where the clamps bite
(`TypeCorrect`), that no capacity is lost (`CapacityIsNeverLost`) and that the limit
on connections holds (`ConnectionsAreLimited`) is shown there and not by a run. The
counters are not exact then, since a replaced entry starts with `used = 0` while the tests keep
their assignments (`client.go:99`), so `ExactAccounting` is not claimed for them.
Nor is `SendersEnd`: the channel of a replaced entry is never closed, so its sender
goroutine stays.

`measurements` counts `NetCap` reports with the one being built, so a report is
built only when the one before has arrived; what overtaking would do is excluded
by Stream. `NumbersNeverFallBack` allows an old period's number where nothing
newer has been shown: a report that was under way when Start dropped the cached
ones (`services.go:566-570`) is cached all the same, until the next one.
`EveryWorkerAttaches` is checked with a limit on every ocean. Without one
(`max_connections = 0`) `worker/discovery.go:39` computes a negative number of
free slots, and an ocean with two workers is never chosen again.

`ExpandsAsMeant` is about texts and values whose literals have no braces, and
values without variables: `applyEnv` looks at what it has put in again if the
variable comes later in the map's order, so with `a` set to `{{b}}` the result
depends on the order (`services.go:487`). Without that condition TLC shows it.

`OnlyLiveAdmitted` speaks of the moment of admission: a handler that has been let
in finishes, whatever happens to its session. A logout whose DELETE fails is
reported as successful and revokes nothing (`auth.go:92`); the session then ends
by its age. `LoginLasts` lets a browser lose its
cookie by an answer to a request of its own, also when that is a late logout of an
earlier session (`services.go:259`). In Sessions the clock is not set back. Sessions has no fairness and
no liveness property: nothing in the code promises one.

`algorithms`, `measurements` and `engine_warm` have `CHECK_DEADLOCK FALSE`: the loop
ends, and a stopped test comes to rest, also when its periods of load are used up.

## 4. Findings

1. `client.go:61`: the deferred `removeWorker(w.id)` removes whatever is
   registered under the id. When a worker redials before the ocean has noticed
   the loss of the old stream, the old handler later removes the new entry. The
   worker stays attached, keeps its load and cannot be told to stop
   (`fleet_half_open`; against `server.go:92-93`).
2. `services.go:724`: Resume of a running test with an edited concurrency sends
   no STOP to workers that drop out of the assignment (`fleet_resume`; against
   `services.go:584`).
3. `discovery.go:57`: the lease is granted once. After an outage of etcd longer
   than its TTL every publication fails silently, and the ocean, which still
   runs, cannot be discovered until it is restarted (`discovery_outage`;
   against `DEPLOY.md:66-67`).

Seen on the way, without a run of their own: `tsunami.go:158` (a stopped test
runs on if its generators begin after Stop); `client.go:143` (a dropped STOP);
`client.go:109` (the sender goroutine of a replaced entry);
`worker/discovery.go:39` (an ocean without a limit); `services.go:325` (a
favourite saved by name while no test of the name runs is stored without a target,
and a Resume then takes it); `services.go:68` (so is one of a test with host and
port instead of a URL);
`services.go:552` (the variables of an environment that was active when the
request began, as they are after it has been switched off and edited);
`services.go:487` (variables within values); `tmpl.go:160` (a range of more than
an int panics, which ends the worker); `auth.go:92` (a logout that failed);
`store.go:175` (sessions are never deleted by age); `tsunami.go:105` (a URL with a
port gets a second one); `tsunami.go:117` (512 connections at most, as `MaxConns`
is never set).

## 5. Proofs

TLAPS proves the following for every value of the constants: any number of
workers, streams, tests, goroutines, requests or sessions, any capacities and
any buffer sizes. Each module's proofs rest on the named assumptions of the
modules it uses (`StreamAssumption`, `OceanAssumption`, `AllocateAssumption`,
`MeasurementsAssumption`, `TemplateAssumption` and so on): sets that are finite in
the code are finite, bounds are numbers, braces are symbols and no names of
variables, and nothing about what the system does. TLC evaluates them in
the runs.

### Planning (AllocationProofs, AlgorithmsProofs)

`Allocation` is the plan the rest of the system is built on, so it is proved from
both sides.

* `AllocationCapped`: a plan is a function to natural numbers that never exceeds
  a worker's free capacity. The crux is that the level, a maximum, exists.
* `AllocationIsPlacement`: what the fleet can cover is placed in full, and evenly:
  nobody has two units more than a worker that still has room. The level is the
  highest that the request fills, so one level more would be too much; hence the
  rest is smaller than the number of workers that have room, and `First` picks
  exactly that many.
* `LoopComputesAllocation`: the loop of the code computes this plan, and rejects
  exactly the requests nobody could place (the second rejection in the code never
  happens). The loop is not followed to its result. Its invariant `LoopInv` says
  that what has been handed out and what remains are the request, and that the
  workers are filled to one level, the first ones perhaps one unit further:
  `Even` between rounds, `Rising` within one, where those already visited are a
  share ahead and the share is enough for all who are left or is one unit. There
  is only one plan of that shape for a given total (`PlanIsUnique`): of two with
  different levels one is nowhere above the other, and then equal totals make
  them equal; with the same level, they differ at most in who has one more, and
  only the first few come before all others (`FirstOnly`).
* `LoopCountsDown`: every step of that loop makes a natural number (`Countdown`:
  what is still to be handed out, and where the code is) smaller, so it takes
  finitely many. That it takes the next one is fairness, and left to `Terminates`.

A sum is a fold, a recursive function on subsets. What would be proved of it by
induction on the set is proved by taking a smallest subset for which it fails
(`MinimalSubset`): strict inclusion is well founded on the subsets of a finite
set, and that theorem takes no operator. So come `TotalType`, `TotalUpdate`,
`TotalMonotone`, `TotalOfSums` and the others that the next sections cite.

### Templates (AlgorithmsProofs)

For any symbols, texts, variables and values, and any size of int.

* `CompileEatsNothing`: whatever the text, stray and overlapping braces included,
  the segments put together are the text, and only tokens that parseGen knows are
  expanded. The invariant `CompileInv` says that the segments so far are the text
  up to `pos`, and that each of them is a literal or a token parseGen has seen.
* `CompileGoesForward`: each token takes Compile at least four symbols further and
  never past the end, so its loop ends and none of its slices is out of range.
* `SubstitutionIsSimultaneous`: in whatever order a map hands out the variables, a
  request is the client's text with every token replaced by what it stands for, if
  texts and values are clear and no value has a variable in it. `ExpandInv` follows
  pieces, of which the code knows nothing. While the ocean substitutes, the text is
  that of the pieces with the values of the substituted variables in them
  (`Pieces`); while the worker compiles, some of the pieces are in segments and the
  others are what is left of the text (`Halfway`); in the end what is rendered is
  the pieces expanded. Two facts carry it. In a text of clear pieces
  `strings.ReplaceAll` finds `{{k}}` exactly where the piece stands, for a match that
  begins anywhere else would need a brace where there is none (`TokenMatches`,
  `OthersDoNotMatch`, `ReplaceInPieces`); and replacing one variable after the
  others is replacing one more at once (`SubstituteLaw`), because what stands for a
  variable has no variable in it. In Compile the first `{{` and the first `}}` after
  it are those of the next token (`NextToken`), so a step leaves one token, and the
  literals before it, behind (`HalfwayAdded`).
* `RandIntStaysBetween`: a random integer lies between its bounds, in either order,
  and the worker panics exactly when no int can count the integers between them.
  The span wraps to a negative number then and only then (`SpanIs`), and what is
  added to the lower bound does not wrap at all.

The recursive functions of `ReplaceEvery` and of the library's `FlattenSeq` are
defined by a choice, so it is proved first that they exist (`ScansExist`,
`FlattensExist`) and that they compute what they say. Induction on a text is the
choice of the shortest one for which a fact fails (`ShortestSeq`, `LeastNumber`).

### Ocean (FleetProofs, part one)

* `TypeCorrect`: `[]TypeOK`, one lemma per action. The clamps of Stop and Resume
  are what keeps `used` in `Nat`, and `AllocationCapped` is what keeps assignments
  there.
* `RegistryIsSound`: `RegistrySound` is inductive with `TypeOK`. Only `Join`,
  `Leave` and `OceanCrash` touch the registry (`RegistryFrame`); that two
  entries are on different streams follows from each being on a stream of its
  own worker.
* `AssignmentsAreAttached`: needs `AllocationCapped` again, since an allocation
  gives nothing to a worker without free capacity, and an unattached one has
  none.
* `ConnectionsAreLimited`: from the cardinality of a finite set with one element
  added.
* `AccountingIsExact` and `CapacityIsRespected`, for workers with one stream each
  (`OneStreamEach`). `ExactAccounting` is not inductive: a clamp that bit would
  lose the difference. `AccountInv` adds that no worker is promised more than it
  registered for (`WithinCapacity`, `DetachedHaveNothing`), and `RegistrySound`, by
  which no entry is ever replaced. Then the clamps never bite, and Start, Stop,
  Pause and Resume change a worker's sum over the tests by what they change its
  counter by.
* `OceanImplementsReservation`, for the same workers: initial states map to
  initial states and every action to a step of Reservation or to a stutter. What
  is needed beyond `AccountInv` is that capacities come from registrations
  (`OfferedCaps`) and concurrencies from requests (`AskedFor`).
  `AllocationIsPlacement` makes the plan one of the placements that Reservation
  allows; exact counters make the free capacity that the code computes the one
  that Reservation, which has no counters, derives from what is reserved.

* `CapacityIsNeverLost`, however streams overlap. A worker that redials before the
  ocean has finished with its old stream gets a new entry with a counter of zero,
  while the tests keep what they have assigned to it: counters may be too low, and
  clamps bite. But no counter is ever higher than what the tests hold on its worker
  (`NeverTooHigh`, inductive with `TypeOK` and `AssignedAreAttached` as `LeakInv`),
  and when no test is left all capacity is free again.
* `EqualWorkersAreNotOverbooked`: if all workers offer the same, `WithinCapacity`
  holds with overlapping streams too. Nothing that is counted or assigned exceeds
  an offered capacity (`BoundInv`), which is then everybody's. With different
  capacities this argument fails: a rejected Resume restores to the counter what
  its test was assigned, which may come from an entry that offered more.

`OneStreamEach` says that a worker's next stream begins when the ocean has
finished with the one before. The code does not guarantee it: without it the
counters are not exact, and `fleet_half_open` shows a worker that is thrown out of
the registry. The first four theorems and the last two do not assume it.

### Ocean and workers together (FleetProofs, part two)

* `FleetTypeCorrect`, `FleetRefinesOcean` and `FleetIsSafe`: the composition of
  Ocean, Worker and Stream implements Ocean's specification, so what is proved of
  the ocean with its abstract environment holds with real workers: among it that no
  capacity is lost, half-open streams and crashes included. The inductive
  invariant is `OneLiveStream`, every live stream is the one its worker's
  connection loop is on: `attachOnce` returns only when its stream has failed, so
  a worker that dials has no other live stream, which is what the abstract
  environment's dial requires.
* `FleetImplementsReservation`: the two refinements composed.
* `CommandsDoConverge`, `WorkersAreNeverOverloaded` and `StopIsObeyed`, under
  `OneStreamEach` and `ResumeOnlyPaused`. That the load fits now says nothing of
  the load after the next command. `LoadInv` says of the queue of all commands
  under way (in the send buffer and on the stream) that the load fits after each
  of them (`Fits`) and is what is planned after the last (`Leads`). A command that
  is handled drops the first of these statements; one that is sent adds one at
  the end, where the load is what is planned, which `AccountInv` bounds. Stop
  comes before the Start that gets its capacity, in the same queue: that is why
  handing capacity on early is safe. All three speak of streams that have lost no
  command. `ResumeOnlyPaused` is the web control's discipline, not the HTTP
  handler's: `fleet_resume` shows what happens without it.

### Measurements (MeasurementsProofs)

`MeasurementsTypeCorrect`, `NumbersGoForward`, `ExtremesDoAgree` and
`HistogramDoesKeepUp`, for any number of workers, goroutines, periods of load and
requests. The last three are not inductive: what is shown was read long ago, counter by counter,
from goroutines that went on. Besides types,
`MeasureInv` has two parts.

* `RecordsInOrder`: where a goroutine is in `record`, and which of its counters
  are ahead of which there (`Recording`).
* `PipesInOrder`, for every worker, of its counters, the report being built with
  the loads that are left (`unread`), those under way, the cached one, and the
  commands on their way to it (`Piped`). The loads that are left are the last ones of
  their goroutines (`LoadsInOrder`). Every report fits together, the unfinished
  one with what it has still to read: a minimum that fits the maximum has been read
  or is about to be, and every response counted without its bucket is one of a
  goroutine's (`ReportsFit`). None falls back behind the one before it, the
  unfinished one counted with what it has still to read, and so for one that would
  be begun now (`ReportsFollow`). Commands lead only to later periods of load
  (`RunsInOrder`): a late report of an old one is never taken for the new one's.

What fits in every report then fits in what is merged of them, by the theory of
sums, maxima and minima of AllocationProofs.

### Sessions, engine, discovery, saved tests

* `SessionTypes`, `OnlyLiveAreAdmitted`, `OneAdminOnly` and `LoginsLast`
  (SessionsProofs; any number of browsers, requests, tokens and crashes, any
  lifetime). The invariant `SessionInv` adds that a token
  still to be inserted is nobody else's (`Fresh`), that every row has its hard
  expiry and none belongs to a revoked token (`HardRows`), that a browser keeps a
  cookie at least as long (`LongCookies`), and that between the two statements of
  SeedAdmin there is no user (`Seeding`). `Fresh` is why a logout cannot come
  before the insert it should undo.
* `SamplesAccompanyCounts` and `OneLateAtMost` (EngineProofs; any
  number of goroutines, any capacity), on the types of `EngineTypes`. A goroutine about to count has been
  captured, and the reporter reads in the other order (`CapturedFirst`); a
  goroutine that has begun a request since Stop never comes back to the channel
  (`LateIsLast`), because the flag stays set (`StaysDone`). The last one assumes
  `~StopEarly`.
* `LimitHolds` and `KeysStayLeased` (DiscoveryProofs; any number of oceans, workers
  and tests). The limit is inductive with the types, since only `Dial` gives an
  ocean a member and it asks first, under the mutex; that counts are finite needs
  the cardinality of a subset. `KeysAreLeased` is inductive because a Put looks at
  the lease etcd holds and `Expire` removes a lease together with its keys.
* `SavedTypeCorrect`, `TokensAreKept` and `SentFollowsKept` (SavedTestsProofs; any
  names, texts, environments and concurrent requests):
  none is inductive, since a Resume and a favourite write what they read many
  steps before. `KeepInv` adds what is in flight: no request carries a
  substituted configuration (`CallsCarryTokens`), and a request that has begun
  has a name and writes a row only if it is a favourite's (`NamedCalls`).
* `ResumesHaveTests` and `EnvironmentIsFresh`, from `RequestInv`: a Resume under way
  has its test, which the mutex keeps from being stopped (`ResumedRuns`); rows are filed under their names
  (`RowsNamed`); and what a request has read of the environments has been so since
  it began (`ReadsSeen`).

### Only model-checked

* Liveness and everything else that needs fairness: that `allocate` ends
  (`Terminates`), `fleet_live`, `StopEndsLoad` and `LoadFlows`, and in `discovery`
  `EveryWorkerAttaches`, `CountersSettle` and `StoppedTestsVanish`.

Every invariant and every action property that a passing run checks is stated by a
theorem, on the conditions named above, and so are the refinements.

## 6. What is not modelled, and the plan

The table of section 1 lists the parts. What is left, in this order:

1. Proofs: what can be said of a worker's load, as `CapacityIsNeverLost` does of its
   counter, when its streams overlap; and the invariants that the liveness
   properties of `fleet_live` and `discovery` rest on (which steps can never be
   undone), short of fairness.
2. The mean and the error count of Measurements, and an ocean without a
   connection limit in Discovery.
3. The address a worker makes of a URL (`tsunami.go:92-114`), as a function
   against the URL's own host and port.

`etcd/client.go` has two protocols without a caller: `WatchPrefix` (list, then
watch from the next revision) and `WithLock` (a mutex across oceans). They will be
worth modelling when something uses them.

Left out for good: the generated protocol code, installation scripts, the
browser's page, logging, CORS headers, response formatting, the worker's legacy
command line and admin handlers (`worker/services.go`, `shell.go`, `Monitoring`:
nothing in `main` starts them), bcrypt and the randomness of tokens.
