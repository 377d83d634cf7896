# A verification project for golang-interview

The repository is a set of teaching programs for Go interviews: some fifty
independent `main.go` files, a small web platform that serves the topics, and
Markdown documentation. There is no single system, but there is real logic:
goroutines and channels wired into patterns, rate limiters and a circuit
breaker under a mutex, a page that talks to a server, data structures and
algorithms. This directory models that logic in TLA+, checks it with TLC and
proves the central parts with TLAPS.

Line numbers below are lines of the files of this repository at the modelled
commit.

## 1. Inventory

### What the repository consists of

| component | files | state it keeps | operations |
|---|---|---|---|
| circuit breaker | `07-microservice/circuitbreaker/main.go:183-269` | state, failures, successes, openedAt, under `mu` | Allow, RecordSuccess, RecordFailure |
| token bucket | `08-systemdesign/ratelimit/main.go:67-100`, a copy in `circuitbreaker/main.go:41-77` | tokens, lastTime, under `mu` | Allow |
| sliding window | `ratelimit/main.go:120-147`, a copy in `circuitbreaker/main.go:106-142` | slice of request times, under `mu` | Allow |
| fixed window | `ratelimit/main.go:24-47` | count, resetAt, under `mu` | Allow |
| worker pool | `02-concurrency/pattern/main.go:35-72` | two buffered channels, a wait group, loop variables | send, take, put, close, collect |
| fan-out, fan-in | `pattern/main.go:79-139` | unbuffered channels of three stages | generate, process, merge |
| pipeline | `pattern/main.go:146-209` | three unbuffered channels and a context with timeout | gen, square, filter |
| error group | `pattern/main.go:214-272` | err, errOnce, cancel, wait group | Go, Wait, cancelCtx |
| semaphore | `pattern/main.go:277-299` | a channel as semaphore, a wait group | acquire, start, release, Done |
| teardown | `pattern/main.go:304-330` | a context and a ticker | serve, stop |
| topic server | `web/main.go`, `web/topic_*.go` | the fixed list of topics | list, lookup, static generation |
| topic page | `web/static/index.html:516-720` | topics, currentTopic, visitedTopics, the DOM, the hash, fetches under way | init, loadTopic, search, arrow keys, toggleSection |
| channel, goroutine, context, sync demos | `02-concurrency/{channel,goroutine,contextx,syncpkg}`, `04-performance/profiling/main.go:65-79, :122-156` | channels, contexts, locks, counters | one function per demo |
| service registry | `07-microservice/registry/main.go:44-99` | a map of instances under a read-write lock | register, discover |
| middleware | `05-webframework/middleware/main.go` | a slice of handlers, an index, aborted; the keys of a request | Next, Abort, set, get |
| router groups | `05-webframework/router/main.go:149-190` | slices of middlewares, the routes | registerRoute |
| idempotent creation | `05-webframework/restful/main.go:236-271` | results by idempotency key | processOrder |
| slices, defer | `01-basics/slice`, `01-basics/defer` | arrays that slices share; calls and their deferred functions | the functions of the demos |
| searching, sorting, dynamic programming | `09-algorithm/{binary,sorting,dp}` | an array, a table | one function each |
| hash map, contexts' values, trees, heap | `09-algorithm/{hash,tree}`, `contextx/main.go:142-170` | buckets, nodes, a heap | put, get, insert, traverse, push, pop, top k |
| B+ tree index | `06-database/mysql-index/main.go:46-301` | a root over leaves, two indexes | search, covering check, leftmost prefix |
| varint and zigzag | `07-microservice/grpc/main.go:53-75` | a buffer | encode |
| other language basics | `01-basics/{map,pointer,interface,string}` | none that decides anything | they print what one expression gives |
| binding, errors | `05-webframework/{binding,errors}` | none | calls of the standard library |
| texts | most of `06-database`, `08-systemdesign`, `10-network`, `11-os`, part of `07-microservice` | none | they print explanations |
| measurements | `03-memory`, the rest of `04-performance` | none of their own | they read runtime statistics |
| documentation | `docs`, `scripts/gen_md.py` | none | text in, text out |

`PROJECT.json` lists all of them under `components`, with the reason where one
is not modelled.

### How they interact

The demo programs do not call each other. Inside a program the interaction is
what matters: callers of a limiter or breaker share it through a mutex that is
held for a whole method; the goroutines of a pattern talk over channels, and
tell each other that they are finished by closing them and through wait groups
and contexts; the page and the server exchange requests whose answers come
back in any order. `handleTopic` only reads the fixed catalog, so requests do
not interact in the server.

### What is hard here

* **Reports out of order.** A caller of the breaker is outside the lock between
  `Allow` and `RecordSuccess`/`RecordFailure`; reports of requests let in under
  one state arrive under another (`circuitbreaker/main.go:231-253`).
* **Boundaries in time.** `After` against `!Before`, resets, refills computed
  from the previous call: an off-by-one shows only for certain arrivals
  (`ratelimit/main.go:37`, `:90`, `:134`).
* **Who closes a channel, and when.** A send on a closed channel panics, a range
  over a channel nobody closes blocks for ever (`pattern/main.go:63`, `:99`,
  `:122`, `:170`).
* **Everyone waiting on everyone.** `workerPool` sends all jobs before it drains
  one result (`pattern/main.go:56`).
* **Cancellation.** A timeout strikes at any point of the pipeline
  (`pattern/main.go:157`, `:172`, `:190`); the first error of a group is meant
  to stop the other tasks (`:241`).
* **Stale answers.** The page goes on after an `await` without looking whether
  the user has gone elsewhere (`index.html:577-585`).

* **Nobody on the other side.** A goroutine sends to a receiver that has gone
  (`goroutine/main.go:196`), a child's context outlives its parent
  (`contextx/main.go:210`), a counter is incremented outside its lock
  (`channel/main.go:292`).
* **Shared arrays.** An append into room to spare writes over what another slice
  of the array has there (`slice/main.go:195`, `router/main.go:165`); loops of several calls of `next` share one index
  (`middleware/main.go:111`).
* **Retries.** A client that got no answer sends its order again
  (`restful/main.go:250`).
* **Ends of intervals.** Closed and half-open intervals in one file
  (`binary/main.go:119`), a table updated in place (`dp/main.go:156`), groups of
  seven bits (`grpc/main.go:58`), keys equal to those of the root
  (`mysql-index/main.go:92`).

`PROJECT.json` has the complete list under `hazards`, each with its line and the
properties that cover it.

### What makes each component correct

* breaker: only the transitions of its diagram, fresh counters in half-open, a
  bound on late failures, a probe after every opening, recovery;
* limiters: a law about *every* stretch of time, although each limiter keeps far
  less than the history of grants, and no caller refused who is within the law;
* pool and fan-in: every item reaches main once, channels are closed after the
  last send, all goroutines end;
* pipeline: what was printed is a prefix of the result, complete without the
  timeout, and no goroutine is left behind;
* error group: Wait is a barrier and returns the first error;
* semaphore: permits out are held by running tasks, and all are back at the end;
* page: the marked topic, the hash, the content and the open sections fit
  together;
* channel, lock and context demos: no panic, no race, what main prints is what
  the demo promises, and nobody is left behind except where the demo says so;
* algorithms: the result is the one the problem defines, and every loop ends;
* tables: they answer each key with what was put last under that key; an order is
  created once;
* trees, heap, index, encodings: order and shape survive every operation, and
  what is stored or encoded is found again;
* slices and route groups: what is done with a slice shows in the others exactly
  in the places both have, and a route keeps the handlers it was registered with;
* middleware, defer: once each, in the promised order.

## 2. The modules

| module | models | how |
|---|---|---|
| `BreakerStates` | abstract: the three-state diagram of the comment, `circuitbreaker/main.go:174-181` | a state and a flag `quiet` that says that the timeout has passed |
| `CircuitBreaker` | `circuitbreaker/main.go:183-269` | one action per method; `call` remembers a request in flight |
| `RateLimitParameters` | what the limiters are configured with | constants and their assumptions |
| `RateLimiter` | abstract: a limiter that remembers every grant | passes exactly the calls after which its law `Fits` still holds |
| `TokenBucket`, `SlidingWindow`, `FixedWindow` | the three limiters | `Allow` with the clock read inside, and `Tick` |
| `RateLimiters` | the three under the same traffic | composes them over one clock |
| `PatternParameters` | sizes of the patterns | constants and their assumptions |
| `Delivery` | abstract: every item delivered once, in some order | |
| `WorkerPool`, `FanInOut`, `Pipeline`, `ErrGroup`, `Semaphore` | the functions of `pattern/main.go` | one action per channel operation, close, return |
| `Patterns` | `main()` of `pattern/main.go` | a behaviour is a behaviour of one demo |
| `TopicCatalog` | `web/main.go:100-144`, `web/topic_*.go` | sixteen topics, each with its chapter and number of sections |
| `TopicViewer`, `MCTopicViewer` | the script of `index.html`, and its instance for TLC | `loadTopic` in two steps, up to the `await` and after it |
| `StaticSite` | `generateStaticSite`, `web/main.go:57-93` | the page as a sequence of pieces of text, the replacements computed on it |
| `GoInstructions`, `GoRuntime` | what the goroutine demos use of Go: goroutines, channels, select, wait groups, locks, contexts, memory | instructions, and a machine that executes them in any order |
| `DemoPrograms` | the functions of `channel`, `goroutine`, `syncpkg`, `contextx`, `teardown` of `pattern`, `registryPattern`, two of `profiling` | one program of the machine each, with what it promises |
| `ConcurrencyDemos` | their `main()` functions, one table of programs each | a behaviour runs one program |
| `BinarySearch`, `Sorting`, `DynamicProgramming` | `09-algorithm/{binary,sorting,dp}` | one step a round of a loop or a call of the recursion |
| `Algorithms` | the three together | a behaviour is one call |
| `Dictionary` | abstract: what a table promises, and what one promises of which a key is given once | an answer is a key together with a value |
| `Tables` | the hash map, the chain of context values, the keys of a request, the results of orders | one action per operation |
| `Trees`, `BPlusTree`, `Varint` | `tree/main.go`, `mysql-index/main.go`, `grpc/main.go:53-75` | |
| `SliceDemos` | `01-basics/slice`, `registerRoute` of `router` | arrays, and any number of slices into them |
| `Middleware` | `onionModel`, `simulateGinMiddleware` | calls on a stack |
| `DeferDemos` | `01-basics/defer` | calls with deferred functions on a stack |
| `DataStructures` | the last seven together | a behaviour works on one of their structures |
| `Selections` | loops that append to a result what they keep | induction over numbers and sequences, for the proofs; the sliding window, the pipeline, the slices and the sorts are reasoned about with it |
| `*Proofs` | | theorems and proofs, section 5 |

How state and actions correspond to the code, where it is not one to one:

* **Mutexes.** Every method of the breaker and the limiters locks first and
  unlocks in a `defer`, and reads the clock inside. A method is one step.
* **Time.** The breaker only compares `time.Since(openedAt)` with the timeout,
  so the model counts ticks since `openedAt` and stops counting when the
  comparison cannot change any more. The limiters have a clock of ticks up to
  `MaxTime`. Calls and ticks interleave freely, so any number of calls can fall
  into one tick.
* **Tokens.** A `float64` number of tokens is an exact number of fractions,
  `Unit` of which make a token. Rounding of `float64` is not modelled.
* **A refused `Allow` of the breaker** changes nothing in the breaker and lets
  nobody in; it is a step of the model that changes nothing. The demo at
  lines 255-269 also reports failures without asking `Allow` first, while the
  breaker is closed; `Allow` changes no field then, so this is a call that asks
  and reports at once.
* **Channels.** A send on an unbuffered channel and its receive are one step. A
  buffered channel is a sequence; the jobs channel of the pool, which has one
  sender and is FIFO, is two counters. A send on a closed channel would panic,
  so sending actions are disabled there and the properties say that nobody is
  at a send when the channel is closed.
* **select.** If several cases are ready any of them may be taken, as Go does.
* **Wait groups.** `Add` runs before each `go`, so `Wait` returns when all the
  goroutines concerned have left.
* **History variables.** `granted[s]`, the number of grants at time `s` or later,
  and `verdict` in the limiters, `failed` in the error group, `call` in the
  breaker: the code does not have them, nothing in the code's part of an action
  depends on them (except that only a caller that was let in reports).
* **Page.** `currentTopic` stands for the variable and for the entry marked
  active, which are set together. A request under way is a record; `Respond`
  takes any of them, and `Lose` lets a fetch fail. Toggling a section and the
  wrap-around of the arrow keys are modelled; the text of topics, its formatting
  and the copy button are not.
* **The machine of `GoRuntime`.** The standard library and the language are not
  part of the repository; the machine follows the rules the demos state
  (`channel/main.go:80-99, :144-151`, `syncpkg/main.go:92-114`,
  `contextx/main.go:184-189`). A statement that touches something shared is an
  instruction; printing and local computation are left out. A send or receive is
  a select with one case. `x++` is a load and a store. `Lock` takes two steps,
  claim it and wait until the readers have left, and a claim keeps new readers
  out. A context is a channel closed when it is done, with its cause; a child is
  cancelled at a later step than its parent (`Propagate`), and a deadline may
  pass at any time. `time.Sleep` and tickers take any time at all, which includes
  every real one. Where Go would panic the machine cannot move, and `Panics`
  says so; a race is two plain accesses, one of them a write, that are possible
  at once. A counter that a demo does not have, of those at work for instance,
  is added where the demo's claim is about how many there are.
* **Stacks.** Recursion, middlewares and deferred calls are stacks of what is
  still to be done. `Sorting` tags equal keys with their first places, which no
  sort reads, so that stability can be stated.
* **Slices** are an array, an offset, a length and a capacity, as in Go. When
  `append` has to move it doubles the capacity, as Go does for slices this
  short; rounding up to the size classes of the allocator is left out. The functions
  are applied to one slice, `s`; others made of it (`s2 := s1[0:3]` of `sliceTraps`) stay
  in use beside it, and either can become the one worked on. `want` is what each slice should have by the
  meaning of the operations: what a step puts into the array under one slice, another one sees
  in the places it shares with it (`Seen`) and nowhere else. A group of routes begins with one
  middleware and gets more by `append`; `made` is the chain each of its routes was registered with.
* **Tables.** `lastPut` is a history variable: what was last put under each key
  (for orders: the first), independently of buckets and chains. `found` has the key of the
  latest call beside the value it returned, so that `Dictionary` can say of which key the
  value is.
* **The registry.** Three instances under one name are registered and inspected one by one
  under the lock, each counted when it is healthy; addresses are left out.
* **The generated page.** `Template` has the pieces of `index.html` that the generator looks for
  or that decide what a name means; `generateStaticSite` applies the eight replacements
  to them in their order (the last only changes line breaks), and what the browser takes for the
  script is read off the result.
* **Variants.** Definitions commented `variant` are what a plausible slip would
  make of the definition below them. No specification uses them; they show of
  each property that it can fail.

## 3. The runs

| run | module, configuration | what it asks |
|---|---|---|
| `breaker` | `CircuitBreaker` | Do interleaved and late reports keep the breaker on its diagram, and does it recover? |
| `breaker_probes` | `CircuitBreaker`, `CircuitBreakerProbes.cfg` | Are there few probes in half-open? No. |
| `rate_limiters` | `RateLimiters` | Does each limiter keep exactly its law, for every pattern of arrivals? |
| `patterns` | `Patterns` | Is everything delivered once, closed in order, and does every goroutine end? |
| `err_group_cancel` | `Patterns`, `PatternsCancel.cfg` | Does the first error cancel the other tasks? No. |
| `viewer` | `MCTopicViewer`, `Viewer.cfg` | Does the page stay consistent when answers are late or lost? |
| `viewer_stale` | `MCTopicViewer`, `ViewerStale.cfg` | Does the page end up showing the marked topic? No. |
| `static_site` | `StaticSite` | Does the generated page find its data? No. |
| `concurrency` | `ConcurrencyDemos` | Under every schedule of every demo: no panic, no race, the promised output, nobody left behind? |
| `algorithms` | `Algorithms` | Do searches, sorts and tables give what their problems define, and does every loop end? |
| `data_structures` | `DataStructures` | Do tables answer as dictionaries, is what was stored found again, do the other structures stay sound, do slices that share arrays have what the operations mean, do the routes of groups like those of the demo keep their chains, and do chains of handlers run in order, after any sequence of operations? |
| `route_groups` | `DataStructures`, `RouteGroups.cfg` | Does every route of every group keep its handlers? No. |

The run `rate_limiters` has the refinements to `RateLimiter`, `breaker` the one
to `BreakerStates`, `patterns` those of pool and fan to `Delivery`,
`data_structures` those of the hash map, the context chain and the keys of a
request to `Dictionary!Spec`, and of the orders to `Dictionary!OnceSpec`.
`PROJECT.json` gives for every property a mutant: a slip in the code that makes
the run fail.

### Bounds, and why they are enough

* `breaker`: three callers, threshold 2, timeout 2. Two late failures can meet
  an open or half-open breaker while a third caller probes, and a failure in
  half-open is distinguished from one that reaches the threshold.
* `rate_limiters`: a bucket of two and a third tokens and two thirds of a token
  a tick, so that it can be refused at one tick, again at the next, and have
  a token at the one after; windows of three
  ticks and three requests, nine instants: more than two fixed windows (a fixed
  window is a closed interval of `Window + 1` ticks) and almost three sliding
  ones. Refused calls leave the state as it is, so calls are not bounded. The
  limiters share nothing but the clock and each is a function of the arrivals,
  so putting every pattern of arrivals to all three covers it for each.
* `patterns`: five jobs is the largest number that fits into two job slots, one
  result slot and two workers (`Fits`), the boundary of the no-deadlock claim;
  the code itself has ten jobs, three workers and channels of a hundred, which
  fits with room to spare. Four items for three processors, so that a processor gets
  two; three tasks, so that two fail at once and one runs; five values
  (the code has ten and keeps squares above 20), with a floor of 8, so that the
  filter drops two and keeps three; five limited tasks (six in the code) for two
  permits, as in the code, so that the loop waits for a permit more than once.
* `viewer`: all sixteen topics, two loads (enough for one answer to overtake
  another), three hashes (none, known, unknown), searches that match all, some
  from two chapters, and nothing. `viewer_stale` uses three topics on both sides
  of a chapter boundary, and fetches that do not fail.

* `concurrency`: four workers (the code has up to 1000: a lost increment needs two,
  a permit that is waited for more workers than permits), three items, two
  permits, three readers of the map, so that readers are inside together while
  both kinds of waiting for the lock occur.
* `algorithms`: every sorted array of up to five of four values, so that there are
  runs of equal elements, targets that are absent between, below and above them,
  and both parities of the interval; every rotation for `findMin`; every array to be
  sorted of that size; tables up to size four, with items of the same and of different
  weight and worth, and numbers of both signs.
* `data_structures`: keys of one or two characters, some of which meet in one of
  three buckets; tables up to four entries; trees and heaps of up to five nodes with
  equal numbers; up to three leaves of two keys below 8 (the demo has three keys to a
  leaf; two have a first, which the root repeats, and another, which it does not), and searches from below the first to above the last; digits
  to the base 4 and integers from -64 to 63, so that a number takes one to four bytes and
  the last digit is not full (in the code ten bytes of seven bits for 64: the same
  shape); two slices at a time, of up to three elements, over up to two arrays: the one they
  share, and one to move to; up to three routes of one group of up to three middlewares, the third of
  which is the first append that leaves room (length 3, capacity 4); chains of up
  to three handlers that each make up to two calls of `next` and `abort`, in any order, so
  that several loops of `next` are open at once and one may abort under another.

No symmetry is declared: liveness is checked in the same runs.

### Deadlock

Checking for deadlock is on in all runs but one. Programs that end have a
`Terminated` step that is possible only at their regular end, so a goroutine that
is stuck elsewhere is found. In the machine of the concurrency demos, where some
goroutines are meant to be stuck, the step is possible when the demo's function
has returned, and `NothingElseLeaks` says who else must end. In the limiters a refused call
is always possible, in the page and the breaker the users never stop.
`data_structures` and `route_groups` switch the check off: operations are applied there until a bound on
the size is reached, and the structures wait for nobody.

### Fairness

* `CircuitBreaker`: time passes, each caller asks again when it is idle and its
  request ends some time. Nothing is said about how it ends; `RecoversForGood`
  assumes in its premise that failures stop.
* Patterns: a goroutine that can go on does, which is what the Go scheduler
  gives. Fairness is per goroutine (in `fanInOut`, where every step brings the
  program closer to its end, for the program). Tasks of the error group return
  sooner or later. The timeout of the pipeline is *not* fair: it may never come.
* `GoRuntime`: a goroutine that can go on does; a cancellation goes on to the
  children and a deadline passes. A select of which several cases stay ready
  takes each of them some time (strong fairness of receiving from a closed
  channel): Go chooses at random (`channel/main.go:144-151`), and only
  so a ticker beside `ctx.Done()` cannot keep a service alive. Nothing is assumed
  about which of two goroutines is first.
* `Algorithms`: the program goes on.
* The limiters, the structures and the page have no liveness property and no fairness: users
  need not do anything.

## 4. Where the code departs from what it says

* `breaker_probes`: in half-open every caller is let in. `successes < 1` holds
  until the first success, and that success closes the breaker, so the guard
  that is to let "only a few requests" through never refuses anyone
  (`circuitbreaker/main.go:225`).
* `err_group_cancel`: `cancelCtx` gives every task a new context made from
  `context.Background()`, so the group's cancel reaches no task
  (`pattern/main.go:240-243` against `:214`).
* `viewer_stale`: `loadTopic` renders whatever answer comes last
  (`index.html:585`).
* `static_site`: the data is inserted in front of the `<script>` tag and becomes
  text of the page (`web/main.go:66-72`).
* `route_groups`: `registerRoute` merges with `append(middlewares, handler)`. A group with
  a third middleware has length 3 and capacity 4, so all its routes write their handlers into the same place
  and the earlier ones end with the handler of the last (`router/main.go:165` against `:146`,
  which says that a route is registered with all middlewares merged). The demo's own two groups have one and two middlewares
  and no room; for those `SlicesAsSpecified` says, and section 5 proves, that each route keeps its chain.

Seen while modelling, without a run of its own:

* the breaker counts failures and not a failure rate (successes do not lower the
  count in closed, `circuitbreaker/main.go:249` against `:174-175`), and a success of
  a call let in before the breaker opened closes it in half-open (`:235`);
* the arrow keys load the next topic at once where the page says that Enter
  opens it (`index.html:713` against `:489`);
* the window of the fixed limiter includes its end, so it is one instant longer
  than `window`;
* `selectBehavior` leaves a goroutine behind if the timeout wins
  (`channel/main.go:184-187`), and two counters are waited for by sleeping only
  (`channel/main.go:258`, `:313`): what is printed there depends on luck, so the model
  asks for the right count when the goroutine has ended;
* the chain of the Gin simulation is started by calling its first handler, so
  nothing after it runs if that one never calls `next` (`middleware/main.go:151-171`);
  `ChainRunsInOrder` says so in its premise;
* `dedup` returns `s[:j+1]`, one element even of an empty slice, which is a panic or
  an element that was not there (`slice/main.go:257-266`); the model applies it to others only;
* `wrongRecover` shows that `recover` in a function called by the deferred one
  returns nil, but with no panic under way (`defer/main.go:212-222`).

## 5. What is proved

The proofs hold for every value of the constants that satisfies the named
assumptions (the `...Assumption`s of `CircuitBreaker`, `RateLimitParameters`,
`PatternParameters`, `BinarySearch`, `DemoPrograms`, `GoRuntime`, `TopicViewer`, `DataStructures`),
where TLC checks one instance. They say no more than that sets are finite, sizes are
naturals and programs are well formed. One theorem, `OneGroupEach`, has a hypothesis of
its own: the topics of a chapter are neighbours in the list. `CatalogKeepsChapters`
proves it of the list that `getAllTopics` returns.

* `CircuitBreakerProofs`: `TypeCorrect`; `CountersConfined`, a closed breaker has
  failures left and a half-open one has counted nothing, inductive together;
  `LateFailuresAreBounded`, whose invariant adds the calls in flight to the
  counter: each late failure uses up one of them; `ImplementsDiagram`, every
  step is a step of `BreakerStates` or leaves it unchanged.
* `RateLimitersProofs`, one limiter at a time:
  * Token bucket. The burst law is not inductive, since it does not say how many
    tokens there are. `LevelInv` (`LevelCorrect`) says that the level is the *tightest*
    of the bounds the law has set, one for each past moment: below all of them, equal
    to one. Refilling keeps that (`RefilledLevel`: either every bound moves up with the
    level, or the level is at capacity and the bound of the present moment is
    reached), and then a token is there exactly when one more grant is lawful
    (`RefilledDecides`). From this follow `BurstIsBounded` and
    `BucketImplementsBurstLimiter`.
  * Fixed window. That two windows are the most is not inductive either, as a grant now
    counts against spans that began before the window. `WindowInv` (`CounterCorrect`)
    bounds what was granted as far back as one span before the window, and gives
    `FixedTwoWindowsAtMost` and `FixedRefusalsAreEarned`.
  * Sliding window. `RequestsCorrect`: the slice is in order of time, no longer than the
    limit, and holds one request for each grant of the latest window. What is kept when
    it is filtered is what is still in the window (`ValidRequests`), so there is room in it
    exactly when the law allows a grant (`RoomDecides`), and it implements the limiter
    that remembers everything.
  * A behaviour of the suite is one of each limiter alone (`EachAlone`), which
    brings all this to the properties of the run: `TypeCorrect`, `FieldsCorrect`,
    `TwoWindowsAtMost`, `RefusalsAreEarned`, `ImplementsBurstLimiter`,
    `ImplementsWindowLimiter`.
* `PatternsProofs`, about the suite:
  * Pool. `BooksBalance` (every job taken is somewhere), `PoolClosesInOrder`, and from them
    `NeverGetsStuck`: if nobody could move, all channels would be full and all workers at
    their sends, and the jobs would exceed the room there is. `JobsAreUnique` says that a
    job exists in one copy; `PoolDelivers` uses it to show that main collects each result once.
  * Fan. `FanInv` has four parts: types; the cascade by which a stage ends only after
    the one before it; `FanCopies`, the item a goroutine holds is held by no
    other and was not collected; and the count of goroutines that hold one. From it
    `FanDelivers`: the fan implements `Delivery`.
  * Pipeline. `StagesInv` (`StagesCorrect`) says where the numbers between the stages are: until
    a stage gives up, what the printer saw, then what is in the channels and hands, is what
    the selection makes of the numbers sent so far; after that the printer still has a prefix. Hence `PrinterSeesResult`: what
    was printed is a prefix, and all of the result when nobody gave up.
  * Semaphore and group: `PermitsAreAccounted`, `WaitReports`, `ErrorStays`.
  * `PoolNeverStuck`, `ChannelsClosedInOrder`, `NothingIsLost`, `EachDeliveredOnce` join the
    pool's part, instantiated along `SuiteRunsPool`, and the fan's.
* `Selections`: loops that keep some elements of a sequence. The library's induction
  theorems take an operator, so induction is done here through sets: a set of naturals that
  is not empty has a least element (`Least`). `KeptPlaces` says that what
  a filter keeps stands at increasing places and is all that satisfies the test, `KeptTwice`
  that filtering by a stronger test afterwards is filtering by it at once. The sliding window,
  the pipeline, the slices and the sorts use it.
* `TopicViewerProofs`: `PageInv` adds to the page's consistency that the newest request
  is for the current topic, without which an answer could undo it. `TypeCorrect`,
  `PageStaysConsistent`, and the action property `NewestAnswerFits`. Of the list:
  `OneGroupEach`, and `ArrowsUndo` for the arrow keys.
* `DataStructuresProofs`:
  * Tables. `TablesInv` (`TablesHoldWhatWasPut`) relates the buckets, the chain of contexts,
    the request's keys and the orders each to what was put; `TablesAreDictionaries` follows: whatever key
    is looked up, the answer is the one `Dictionary` has for that key. An overwritten key is the difficult case:
    it keeps its place in the bucket and no other entry changes.
  * Slices. `SliceInv` says that the slice and every other one in use lie within their arrays and
    hold what they should. A step writes only within the part of the array that its slice comes to have
    (`StoreSpares`, `StoredWithin`), so a slice elsewhere keeps what it has, and one that
    shares places sees in those what was written (`SeenHolds`), for any number of slices. `RouteInv`
    is about groups of one or two middlewares: the capacity is the length, so every append copies, and no route is in the
    array of its group. `SlicesKeepTheirMeaning` joins the two. For longer groups the claim is false
    (`route_groups`). `FirstsOfSorted`: what `dedup` leaves of a sorted slice has every value once.
  * What is stored comes back (`EverythingComesBack`), in three parts. `NodesInv`: a bucket
    has no key twice and only keys of its hash, and `size` is the number of keys ever put. With
    `TablesInv` a bucket has a node for a key exactly if something was put under it (`NodeIfPut`), so
    a put makes a node, and counts it, just when the key is new, whatever has joined the bucket
    in between. `IndexInv`: the keys ascend across the leaves, and once the root has been searched the
    key is not below the leaf chosen, if a leaf is before it, and below every leaf after it, so that no
    other leaf can have it. `CodeInv`: the bytes written so far, read with what is left of the
    number put on top, give the number. `Reads` is the reader with any number on top, since the claim
    about the finished encoding alone is not inductive; that an appended byte is read as one more
    digit is shown by induction over the bytes.
  * Chains of handlers (`ChainsKeepOrder`). That they begin in order is far from inductive:
    several loops of `next` may be open on the stack, and all of them move the one `index`. `ChainInv` says,
    of the number `b` of handlers that have begun: the stack has handlers up to `b`, those
    further up let in by those below, each with the calls it has still to make (`StackPart`); the trace has what
    began and, of what is no longer on the stack, that it ended (`TracePart`); when a handler that aborts
    has ended, all that began after it have ended before, and nothing begins any more (`NestingPart`);
    `index` is at the handler that runs, or at the next one if the loop around it is to go on (`GinPart`); and in the
    onion only the innermost handler has none to call (`OnionPart`).
* `ConcurrencyDemosProofs`, about two programs of `channel/main.go` with any number of goroutines, of which
  the run has four and the code a thousand and ten. Both start their workers in a loop and wait for them.
  `Joined` says where main and the workers can be: each worker was added before it was started, and the wait group counts
  those added that are not done, so that main is past its `Wait` only when all are.
  * `LockedCounterIsExact`: `CounterInv` adds that a worker inside the lock is the writer and
    holds it, that what it has read is the counter, and that the counter is the number
    of workers past their store. So no two race, nobody panics, and the counter main prints is the number of workers.
  * `SemaphoreLimitsWorkers`: `SemaphoreInv` adds that the channel has one element for each worker
    between its send and its receive, and that those at work, whom `working` counts, are among them. So the
    capacity bounds their number.
* `AlgorithmsProofs`, for arrays of every length:
  * Searches. `SearchInv` says for each loop what is known of the elements *outside* the
    interval (below, at, or above the target, or not the minimum), and where the result
    lies; when the interval is empty that is the claim (`SearchesAreRight`). `SearchesShrink`: every
    round ends the search or leaves a smaller interval, the measure that makes the loops end (`Ends`
    itself is liveness).
  * Sorts. Every sort only shuffles, so that nothing is lost, and each has an invariant of its
    own. Bubble: behind the place reached the largest stand in order, equal ones as they stood. Insertion: what
    is before `outer` is in order and the rest untouched. Quick: elements out of order
    lie within one pending part, and pending parts do not overlap; partitioning splits a part into two. Merge: a
    part lies in a half of each part that waits to be merged, a half holds what was in it at first, and
    finished halves are in order; of the merge loop, `MergeInv` says that what was taken goes before all that
    is left, and each round takes one element that was left (`MergeGoesOn`), so the result has every element
    once (`MergedIs`). Heap: nobody from the last
    call on is smaller than its children, but for the one `heapify` looks at, and behind the heap the largest
    stand in order; the root is the largest by `HeapRoot`.
  * `SearchesAndSortsAreRight` joins them. The loops are recursive functions, and that such a function
    exists is a lemma (`LoopExists`).

Only model-checked:

* liveness (`OpenLeadsToProbe`, `RecoversForGood`, `Completes`, `NothingElseLeaks`,
  `Ends`), which is out of the prover's reach;
* `NoPanicNoRace` and `ResultsAsPromised` of the other demos: their programs are fixed texts, for which a
  proof would repeat what the run does;
* `TablesAreRight`: the tables of dynamic programming are compared with sums over sets of items,
  with subsequences and with paths, which are folds of the library;
* `StructuresAreSound`: search tree, heap and top-k are recursions over nested nodes and over
  sequences, compared with sorted sequences of the library, about which it states
  nothing that holds for every input; the rows and queries of the index rules and the deferred calls are fixed
  texts of the demos, as the programs of the concurrency demos are.

## 6. Not modelled

* Request binding and error wrapping (`05-webframework/{binding,errors}`): calls of
  `encoding/json`, `strings` and `errors`, and the wording of results.
* The HTTP mux and the priority of its routes (`router/main.go`): standard library;
  the radix tree there is text.
* `sync.Pool` and `sync.Map` of `syncpkg`: the first keeps objects only
  until a collection, the second is used from one goroutine. The `SafeMap` of
  `01-basics/map/main.go:195-211` is never called, and the insides of Go's map are text.
* Bisection of floating-point numbers for the square root (`binary/main.go`),
  and the rounding of the `float64` tokens of the bucket (`ratelimit/main.go:88`): TLA+ has
  integers. The hazard is listed without a property.
* The size classes of the allocator, `gostdlib`, escape analysis, alignment,
  garbage collection, benchmarks: the Go runtime and its measurements.
* Maps, pointers, interfaces and strings of `01-basics`: each prints what one
  expression gives.
* Programs that only print explanations: transactions, caches, consensus, message
  queues, high availability, configuration, tracing, most of `10-network` and `11-os`.
* Formatting, escaping and copying in the page, and the documentation generator:
  wording and layout.
* Faults. Nothing in the repository is persistent, so there is no restart to model; what
  fails is modelled where the code meets it: fetches of the page that are lost or
  late, tasks that return errors, timeouts, panics, clients that repeat an order.
