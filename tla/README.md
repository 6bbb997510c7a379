# cofetch, specified

TLA+ specifications of [cofetch](../src/README.md), an HTTP client library that
drives libcurl's multi interface from an ASIO `io_context`. The whole library is
one header, `include/cofetch.h`; line numbers below refer to it unless they name
another file.

| read this | for |
|---|---|
| `AsyncRequest.tla` | what `async_perform` promises, and nothing of how |
| `Client.tla` | the request engine: start, cancel, completion, handle pool, destructor |
| `Kick.tla` | the timer layer: how curl's one timeout becomes work of the event loop |
| `Cofetch.tla` | the request engine on the timer layer, driven by the event loop |
| `Sockets.tla` | the socket layer: how curl's descriptors are watched |
| `HandleOptions.tla` | the options a pooled handle carries from request to request |
| `HeaderFields.tla` | finding the final response's fields in the header text |
| `GlobalInit.tla` | clients constructed and destroyed on several threads |
| `EpollHttp.tla` | the benchmark's baseline client, against the same promise |
| `Bench.tla` | the benchmark drivers, over `GlobalInit` |
| `ClientProofs.tla`, `KickProofs.tla`, `CofetchProofs.tla`, `SocketsProofs.tla`, `HandleOptionsProofs.tla`, `HeaderFieldsProofs.tla`, `EpollHttpProofs.tla`, `BenchProofs.tla` | the theorems, of the module each is named after (`BenchProofs` has `GlobalInit`'s too) |
| `MC*.tla`, `*.cfg` | the instances TLC checks |

Run `tlc -config MCClient_safety.cfg MCClient.tla` and so on, and
`tlapm ClientProofs.tla`.

## The system

A `Client` belongs to one `io_context`, which one thread runs. Nothing in it is
locked except libcurl's process-wide initialisation. What makes it hard is that
control changes hands inside calls: curl calls the client back from inside every
call the client makes to it, and completion handlers call the client from inside
the loop that completes them.

```
 program ──async_perform──▶ start ──add_handle──▶ libcurl multi
    ▲  ╲                                         │ timer_cb   │ socket_cb
    │    emit slot ─▶ cancel ──remove_handle──▶  ▼            ▼ open/close_socket_cb
    │                                         post / timer   async_wait
 handler ◀── check_completions ◀── kick ◀────────┘            │
    ▲                    ▲──────── on_event ◀─────────────────┘
    └── posted completions (fail, cancel)
```

| component | state it keeps | operations | interacts with |
|---|---|---|---|
| request engine (443–645, 913–943) | `transfers_`, `running_`, `next_transfer_id_` | `start`, `fail`, `kick`, `check_completions` | calls libcurl; calls handlers; posts to the `io_context` |
| cancellation (586–595, 619–645) | the id captured in each slot, `alive_` | `cancel` | called from user code at any time, after the client too |
| pool of easy handles (647–694) | `idle_`, `scrub_on_done`, the options on each handle | `retire`, `configure_handle`, the draw in `start` | request engine, `Request::curl` hooks |
| timer and kick layer (872–916) | `kick_pending_`, `timer_armed_`, `timer_` | `timer_cb`, the posted kick, the timer's wait | called by libcurl, calls `kick` |
| socket layer (499–510, 721–870) | `sockets_`, `SocketState` | `open_socket_cb`, `close_socket_cb`, `socket_cb`, `borrow`, `arm`, `on_event` | called by libcurl and by ASIO, calls libcurl |
| lifetime (290–337, 945–948) | `alive_`, `global_mutex` | constructor, destructor | everything that is still queued |
| `Response` (120–215) | the header text | `headers`, `header`, `for_each_field` | the handler's argument |
| `Request`, `RequestBuilder` (218–440) | one request | setters | argument of `start` |
| error category | none | `make_error_code` | |
| baseline client (`bench/baseline/http_epoll.h`) | a pool of handles, one epoll | `request`, `submit`, `poll` | the benchmark |
| benchmark drivers (`bench/bench_*`) | counters of each event loop or thread, atomics they share | `refill`, the chains, the pools of threads | construct a client per loop, call `async_get` from handlers |
| examples, tests, scripts | | | use the above |

What is hard in each, and the property that would notice (the list with its
lines is `hazards` in `PROJECT.json`):

* **Request engine and cancellation.** One completion handler has up to four
  contenders: a DONE message that curl queued, a cancellation, a failure of
  `start` itself, and the destructor. It must be called once or dropped, by
  exactly one of them (`AtMostOnce`, `NeverLost`, `CancelWins`). Handlers run in
  the middle of the drain loop, after their node was retired, so a node may serve
  a new request while messages of other requests wait
  (`MessagesReachTheirRequest`). A slot outlives its transfer, its node's reuse
  and the client (`AbortOnlyWhenAsked`).
* **Pool.** Handles are reused without a reset; what a hook did to one must not
  reach the next request (`PoolClean`).
  Which options are set again, and in which order, decides what a request
  inherits (`SameAsFresh`, `NothingDangles`, `SendsWhatWasAsked`).
* **Timer layer.** Three mechanisms (a posted kick, a pending wait, a wait that
  fired and is queued) and two flags that say which are on their way. If the
  flags promise a wakeup that is not coming, the client hangs or
  `io_context::run` returns with transfers in flight (`NoLostWakeup`,
  `EveryTimeoutIsServed`; for the client as a whole `NeverSleepsPast`,
  `EveryRequestSettles`).
* **Socket layer.** Descriptor numbers are reused as soon as they are closed, by
  curl, by hooks and by other threads, while waits, completions and raw pointers
  of the old descriptor are still around (`PointersDoNotDangle`,
  `EventsAreNotStale`, `OthersAreLeftAlone`); a completed wait must be armed
  again as long as curl is interested, and never twice (`InterestIsWatched`,
  `OneWaitPerFlag`, `EventsReachCurl`).

* **Response.** The header text holds a block per hop; only the last one's fields
  count, however the text breaks off (`FinalResponseOnly`), and two lookups
  written apart must agree (`LookupsAgree`).
* **Lifetime.** libcurl is set up by the first client and torn down with the last,
  of all threads, by a count that is not atomic (`LibraryUp`).
* **Benchmark drivers.** Requests and concurrency are divided between event loops,
  failures added up across threads, and every request after the first is made in a
  handler (`ReportAddsUp`, `ConcurrencyDivided`, `BenchmarkEnds`).
* **Baseline client.** Callbacks build and submit requests while the client
  delivers (`HandlesInOnePlace`), and its caller polls until all is done
  (`ImplementsAsyncRequest`).

## Module by module

### AsyncRequest

Per request: `idle → in_flight → finished`, or `refused`/`aborted` and *later*
`told_...`; `Close` drops what is in flight. The two-step outcome is the
point: a completion that `start` or a cancellation owes must not run inside them
(608–609, 632–635).

### Client

`pc` is where the event loop's thread is: `"loop"` (any user code that is not a
completion of the drain loop), `"curl"` (inside `curl_multi_socket_action`),
`"drain"`, and `"handler"` (user code that `check_completions` invoked). `Start`
and `Cancel` are possible in `"loop"` and `"handler"`.

| code | model |
|---|---|
| `transfers_`, `idle_` | `transfers` (a set), `idle` (a sequence, LIFO) |
| `Transfer` and its easy handle, which travel together | `node[h]`: `handler`, `id`, `scrub` (`scrub_on_done`) |
| `running_`, `next_transfer_id_`, `*alive_` | `running`, `next_id`, `alive` |
| `start` (512–606) | `Start`: `StartWithoutHandle` (no easy handle), `StartTransfer`, `StartRefused` (`curl_multi_add_handle` fails) |
| `cancel` and the slot's lambda (592–594, 623–645) | `Cancel` |
| `retire` (652–670) | `Retire`, part of three actions |
| `fail` and the posted lambdas | `Post`, `RunPosted` |
| `kick`/`on_event` into curl, curl, and out | `EnterCurl`, `CurlDone`, `CurlReturn` |
| a round of `check_completions`; a handler that throws out of it | `DrainOne`, `DrainEnd`; `HandlerThrows` |
| `~Client` | `Destroy` |

libcurl is seen through `multi` (the multi each handle is in), `msgs` (the DONE
queue; curl's order is not assumed) and the number of unfinished handles it
reports. `curl_multi_remove_handle` discards the handle's message, as 626 relies
on. `sticky` records that options a hook set, of those a reset undoes, are on the handle. `delivered`,
`dropped`, `emitted`, `started` and the `of` field of a message are history.

A hook does nothing, sets options, or adds the handle to another multi
(`"none"`, `"options"`, `"steal"`). The model leaves out, and so assumes away: a
hook that replaces `CURLOPT_PRIVATE` or `CURLOPT_WRITEDATA` (264–268 allow "any
`CURLOPT_*`", but the client would take the hook's pointer for its node), a hook
that calls the client or throws, and the destruction of the client inside one
of its handlers.

`HandlerThrows` takes the thread back to the event loop with messages still queued:
the exception leaves `check_completions` and `io_context::run`, which the program
calls again. The safety properties hold with it.

### Kick

`due` is libcurl's earliest timeout. Each call of the client into curl may move
it (`AddHandle`, `RemoveHandle`, `SocketAction`, `RunKick`, `RunFired`) and ends
in `TimerCb`, whose three cases are `timer_cb`'s; `timer_cb` runs in the same
step, since it is called from inside. The contract assumed of curl: the callback
is invoked when the earliest timeout differs from the one last reported, and
after every `CURL_SOCKET_TIMEOUT` action; a version that does not report "none"
there is allowed for (`Untold`). The contract assumed of `steady_timer`:
`expires_at` and `cancel` end the pending wait, and do nothing to a wait that
has fired and whose handler is queued (`fired`): that handler runs without an
error, which is why `timer_armed_` needs an argument at all.

### Cofetch

`Client` EXTENDed and `Kick` INSTANCEd over one `alive`: each action conjoins one of
each. What `Client` leaves open is when curl is entered: here a posted kick, a fired
wait or an event of a socket enters it (`Enter`; `entry` remembers which until
`Return`). What `Kick` leaves open is which times curl asks for: here each transfer
has a `deadline`, set by `start` (534), and libcurl's contract is that it asks for
the earliest or sooner (`AsksInTime`) and ends a transfer whose time is over when
it is called (`TimesOut`; `Return` requires it). Events of sockets may come while a
transfer is unfinished and never have to: nothing is assumed of servers.

| code | model |
|---|---|
| `start`, `cancel`, `~Client` with what curl does to its timeout inside | `StartIn`, `CancelIn`, `DestroyIn` |
| the posted kick, the wait's handler, `on_event`, up to curl | `Enter` |
| `curl_multi_socket_action` | `DoneIn`, `Return` |
| `check_completions` | `DrainIn`, `RunsOut` |
| posted completions | `PostedIn` |
| a kick or wait that finds `*alive` false | `RunsDead` |

`NeverSleepsPast` is the reason `io_context::run` may be used to wait for requests:
between handlers something is queued or pending that enters curl before each
deadline. It needs handlers that return: with `HandlerThrows` TLC finds a DONE
message that nothing is going to fetch, which is why that action is left to `Client`.

### Sockets

`sockets`, `obj` (fields of each `SocketState`) and `held` (the `shared_ptr` in
`on_event`) are the client's; `conn`, `hash`, `socketp` are curl's (the
descriptors it has, those it told `socket_cb` about, and the pointers
`curl_multi_assign` attached); `os`, `ready`, `waits`, `queue` are the operating
system's and ASIO's. A descriptor is opened by the client (`"ours"`), by curl
for itself (`"curls"`, watched through a dup), by a hook that replaced
`open_socket_cb` (`"hooks"`), or by the rest of the program (`"others"`).

| code | model |
|---|---|
| `open_socket_cb` | `OpenSocket` |
| `socket_cb` with an interest, `borrow`, `arm` | `Watch`: `WatchKnown`, `WatchBorrowed`, `WatchFails` |
| `socket_cb` with `CURL_POLL_REMOVE` | `Remove` |
| `close_socket_cb` | `CloseSocket` |
| the lambdas of `arm`, `on_event` up to curl | `RunCompletion` |
| the end of `on_event`; a handler that throws out of it | `FinishEvent`; `EventThrows` |
| `~Client` | `Sever` (the sever loop), then curl's callbacks, then `Die` |

Between `RunCompletion` and `FinishEvent`, `held` is set and every callback may
run: that is `curl_multi_socket_action` and the handlers `check_completions`
calls. `curls` and `hooks` descriptors are those of curl and hooks that obey the
contracts of the callbacks: removed before they are closed.

A handler that throws skips the line that arms (869). `deserted` is history: the states
this happened to, until curl asks for their descriptor again. `InterestIsWatched` and
`EventsReachCurl` except them, and a descriptor whose dup failed (`WatchFails`: it has
no state to wait with), and nothing else. `waits` is a set, so a second `async_wait`
for a flag that has one pending would not be seen in it; `doubled`, history too, records
it, and `OneWaitPerFlag` says there is none.

### HandleOptions

One easy handle, and the requests it serves one after the other. `opts` has each
option a transfer varies and each that decides what curl makes of them;
`Started` is what `start` sets, in its order, the hook last; `Finish` is a
completion that pools the handle (scrubbed after a hook), `Replace` a
cancellation, a refusal or a full pool. A pointer into the transfer turns `"stale"` when
the transfer ends. `Scrubbed` is `curl_easy_reset` with `configure_handle`; the reset
keeps what belongs to the handle and not to the next transfer (its connections,
cookies and share), of which `share` stands for all. What is checked is that a pooled
handle starts a request like a new one does, the length of the body and the share aside,
and that the request goes out with its own method and body.

### HeaderFields

curl delivers a text line by line (`StatusLine`, `FieldLine`, `BlankLine`, external)
and `HeaderCb` appends it; `ForEachField`, `Header` and `Headers` are the
code's. The reference definition is the history variable `final`: the
fields received since the last status line. Folding of case is a constant
function; splitting and trimming within a line are abstracted. A status line with a
colon yields an entry whose name, having a `/`, is no field's (`NamesAssumption`):
`titled`, history too, says whether the last status line has one, and
`FinalResponseOnly` says that `ForEachField` finds that entry, if so, then `final`, and
nothing else.

### EpollHttp

The baseline's `request`, `submit`, `poll`, `multi_info_read` and destructor; what
curl does inside one call is one step (`CurlWorks`), for the client is not entered
from it. It implements `AsyncRequest` too, with nothing ever refused or aborted. `made`
is history, the handles `curl_easy_init` ever returned.

### GlobalInit

`at` is where each thread is in its client's life, `lock` who holds `global_mutex`
(945-948). `Construct` and `Destruct` take the lock; `ReadCount` and
`CountIn`/`CountOut` are libcurl's, whose count of users (`users`) is read into `seen`
and written in a second step, as in the versions before 7.84 the comment at 294 is
about; the scope's end releases the lock in the same step. `curl_multi_init` and the rest of
a client's life are `"inside"`, without the lock.

### Bench

`args` is a scenario with its arguments, chosen in `Init`. `Opens` is the first
`refill()` of a loop (or the first request of a chain), `Handler` a completion handler
with the `refill()` it calls, `Returns` the end of `io.run()` or of the busy loop,
`Adds` the `failed +=` of the thread. `TakesNumber` and `Answered` are the threads of `bench_cpr`
and `bench_httplib`. `Lives` conjoins `GlobalInit`: a loop's client is constructed
before it opens and destroyed before its failures are added. A request is what
`AsyncRequest` promises of it, an answer that comes later.

`Window` is an integer division (`bench_cofetch.cpp:70`). What it leaves of the
concurrency is `ConcurrencyDivided`: the remainder is in flight nowhere, and with more
loops than `concurrency` each has a window of 0 and makes no request (`NoWindow`), so
that with `COFETCH_BENCH_POLL` the benchmark never ends, the one exception of
`BenchmarkEnds`. `ReportAddsUp` covers every run, and says what these make: loops
without a window none, a chain of callbacks of length 0 one unless it is polled
(`bench_cofetch.cpp:100`, 102), and a coroutine no more after a transport error, which
`co_await` throws, `asio::detached` ignores and the report leaves out (112-121).

## Runs

| run | instance | shows |
|---|---|---|
| `client_safety` | 3 requests, 3 handles, pool of 2, all hooks, symmetry; about 119,000 states | every safety property of `Client`, `CancelWins` for each step |
| `cofetch` | 2 requests, 2 handles, pool of 1, timeouts of 1 and 2, 3 instants; about 381,000 states | no sleep past a deadline, every request settles, refinement of `AsyncRequest` with its fairness |
| `client_pending` | 2 requests, 2 handles, without the hook that gives its handle away | **violated**: `pending_requests()` is not the number of transfers in flight |
| `kick` | 8 instants, 2 queued fired waits; about 5,000 states | no lost wakeup, deduplicated kicks, every timeout served |
| `sockets_safety` | 2 numbers, 3 states, both flags, symmetry; about 902,000 states | every safety property of `Sockets`, foreign descriptors left alone |
| `sockets_live` | 2 numbers, 3 states, one flag; about 90,000 states | events reach curl |
| `sockets_shutdown` | as `sockets_safety` | **violated**: curl's shutdown may meet another thread's descriptor |
| `options_reuse` | 300 requests: every method, hook and header choice, 3 sizes, 2 redirect settings | a pooled handle sends what a new one would, `POSTFIELDSIZE` and the share aside, with its own method and body |
| `options_length` | as above | **violated**: the length of a body may be an earlier request's |
| `headers_text` | 2 names, one in two spellings, 2 values, 7 lines | the final response's fields are found, and the lookups agree |
| `epoll` | 3 requests, a pool of 2 and a third handle | handles in one place, none lost, refinement of `AsyncRequest` |
| `bench` | up to 3 threads, 4 requests, a concurrency of 3; about 388,000 states | libcurl up, windows full and divided, reports that add up, benchmarks that end |

### Bounds, and why they are enough

* *Client.* Two requests make every pair of contenders for a handler and one
  reuse of a node. Three make the deepest case of the drain loop: while one
  handler runs, a second request is started on the retired node and the
  message of a third waits or is cancelled. A pool of 2 under 3 handles is reached
  and overflows; a pool of 1 is full after one completion. `StartRefused` and
  `StartWithoutHandle` may happen to any request.
* *Cofetch.* Two requests with different timeouts give a wait that is good enough for
  the second, one that has to be moved, and a deadline that goes with a
  cancellation; three instants let one expire, another start, and that expire too.
  Hooks do not touch the timer and are left out.
* *Kick.* `Horizon` bounds the clock: eight instants are more than the distinct
  times that matter to one step (now, the reported time, the time the timer is
  set to, and their orders), with room for several rounds. `MaxFired` is the number
  of fired waits in the queue: one whose timer was re-armed, and the new one.
* *Sockets.* Two numbers, so one is reused while the other is in use; three
  states, so that one still has completions in the queue while each number has a
  state. The live run has one flag: a second flag adds a second wait that does not
  interact with the first.
* *HandleOptions.* No bound on the number of requests: the reachable options are
  finite. Sizes 0, 1, 2 tell "empty", "own" and "another's" apart.
* *HeaderFields.* Seven lines hold two blocks with fields in each, a blank line
  between them and a trailer.
* *EpollHttp.* Three requests over a pool of two force `curl_easy_init` and a pool
  that grows past `HTTP_POOL`.
* *Bench.* Three threads give every order of two that contend for the mutex while a
  third has its client. Totals of 0, 1, 3 and 4 over 1 to 3 loops and windows of 0 to 3
  are divided with and without remainder, and end with windows that cannot be filled.

Deadlock is checked except where a destroyed client, its queue run, has nothing
left to do (`Client`, `Kick`, `Cofetch`, `EpollHttp`), where the benchmark is over (`Bench`) and where the longest text ends the run
(`HeaderFields`); each such `.cfg` says so.

### Fairness

* `Cofetch`: the event loop runs what is queued (`WF` of `Enter("kick")`,
  `Enter("fired")`, `PostedIn`, `RunsDead`), calls of curl and handlers return
  (`Return`, `DrainIn`, `RunsOut`), curl ends what is over (`TimesOut`), and time passes.
  Weak fairness is enough: a queued handler stays enabled whenever the thread is back
  in the loop, and user code starts and cancels finitely often. No event of a socket
  and no answer is assumed: `EveryRequestSettles` rests on the timeouts alone
  (`Timeouts` does not contain 0; a request with `timeout(0)`, curl's "never", has
  only its server to wait for).
* `Client` states no fairness; its runs check safety.
* `Kick` assumes that time passes, the timer expires and the loop runs its queue.
* `Sockets` assumes that the reactor completes waits and calls return. `RunCompletion`
  is strongly fair, for it is disabled while the thread is in curl and no number of
  other events may keep a queued completion waiting.
* `EpollHttp` assumes that the program polls as long as it waits, as the drivers do,
  and that callbacks return.
* `Bench` assumes that threads run and that requests are answered, which is
  `EveryRequestSettles`. Who waits for the mutex gets it, for the others hold it
  finitely often.

## Theorems

TLAPS checks these for every set of requests, handles, descriptors, threads and
arguments, every pool cap, every set of hooks, every horizon and every text; the bounds
of the runs play no part. Every safety and action property of the passing runs is a
theorem, and so is the safety half of each refinement of `AsyncRequest`. The inductive
invariant of each module is its `IInv`, defined at the module's end; TLC
checked each on the runs' instances before it was proved.

**`ClientProofs`.** `InvHolds` proves the inductive invariant `IInv`, from which
the others follow. None of the safety properties is inductive alone:

* `NodeInv` ties a transfer in flight to its request: its node's id is the one the
  request's slot captured, its handle is in our multi, no two transfers
  have one handler, and a node that is not in flight is blank.
* `SlotInv` says ids are never given twice: no slot exceeds `next_id`, and
  two slots differ unless empty. With `NodeInv` it gives
  `AbortOnlyWhenAsked`: what `cancel(id)` finds is what the emitting slot's
  request is served by.
* `PoolInv` keeps the pool within its cap, without repetition, and disjoint from the
  transfers in flight, so drawing its head never takes a handle in use.
* `MessageInv`: a DONE message is of a transfer in flight, one per handle.
* `PlaceInv`: a completion handler is in one place only: with a transfer, in the
  queue, called, or dropped. With `NeverLost` it is in exactly one once started.

`CalledAtMostOnce`, `HandlerNeverLost`, `MessagesMatch`, `AbortsAreAskedFor`,
`PoolStaysClean` and `TypeCorrect` are the safety properties of `client_safety`,
`CancellationWins` its action property. They hold with handlers that throw.

`PendingIsNoMore` is not part of `IInv` but preserved under it: only `cancel` ends a
transfer that curl still works on, and it ends one and subtracts one from
`running_` (or leaves 0); what `start` and `retire` do to other handles keeps the
unfinished ones (`StartKeepsUnfinished`, `RetireKeepsUnfinished`).

`KeepsThePromise` is the refinement of `AsyncRequest`. `StatesFit` reads off `IInv` which
state each request is in; then each action of `Client` is one of `AsyncRequest`
(`StartRefines`, `CancelRefines`, `DrainRefines`, `RunPostedRefines`,
`DestroyRefines`) or changes no request's state. `DeadInv`, that nothing is in flight
after `~Client`, is needed for what runs after it.

**`KickProofs`.** `InvHolds`, `TypeCorrect`, `WakeupNeverLost`, `OneKickAtMost`. The
strengthening is `ArmedMeansComing`: while `timer_armed_` is set a wait is
pending *or has fired and not run*. That second case is why the "good enough"
test (900) is sound although a queued wait's `expiry` is in the past.

**`CofetchProofs`.** `ImplementsClient`: each step of the whole is a step of `Client` or
none, so `ClientProofs` applies to it (`WholeKeepsThePromise` is its refinement).
The same holds of the timer, but the prover cannot use the theorems of an `INSTANCE`,
so the first section repeats `KickProofs` for the instance. `SleepIsShort`
(`NeverSleepsPast`) joins them with `OnTime`: curl has asked for a time no later
than the deadline of each transfer it works on, and no DONE message waits while the
event loop is idle. The timer's invariant then gives the wakeup. `AllTypesCorrect` is
`AllTypeOK`.

**`SocketsProofs`.** The invariant has two halves, proved apart. `DescriptorInv` says
whose descriptor each state has: a pointer curl holds is to the state of that
number (`PointersFollow`), a number has one state and a state one number (`OneOwner`,
`OwnersFit`), and a state that is open is owned (`OpenIsOwned`). It never looks
at a wait. `WaitInv` says which waits a state has: what is marked armed in an open state is on
its way, as a wait or as a completion that was not aborted (`ArmedIsExact`),
and what curl wants is armed, unless `on_event` holds the state or an exception
deserted it (`WatchedIsArmed`). From these: `PointersAreOwned`,
`EventsAreCurrent`, `InterestStaysWatched`, `OneWaitAtMost`, `TypeCorrect`, and the
action property `OthersKeepTheirs`, that no step closes a descriptor of another part
of the program.

**`HandleOptionsProofs`.** `InvHolds`, `ReuseIsFresh`, `NoDangling`, `SentAsAsked`,
`TypeCorrect`, for every set of requests. `StartedFields` computes what `start` makes of
any handle, option by option; the only ones that depend on what was there are the size,
the share and `extra`, an option `start` never sets. `ExtraIsReset`, that a pooled handle has
it at its default, is the whole strengthening.

**`HeaderFieldsProofs`.** `FinalFieldsFound`, `BothLookupsAgree` and `EveryValueFound` hold of
every text, for any names, values and bound. This is induction over data. The library's
induction theorems take an operator as a parameter, which the prover cannot
instantiate, so it is done with sets: a set of numbers that is not empty has a
least member (`WFMin`), hence one that has 0 and successors has all. From this
follow that the function `FoldLeft` chooses exists (`FoldingExists`), is the only one
(`FoldingUnique`), and takes one step when an element is appended
(`ResultAppend`). Each operator of the module then has a law for one line or entry
more, and `Good(entries, final)` is kept by each of them: the entries that are
fields are `final`, both lookups agree, and the values of a name are those of
its places, in order. `Exact(entries, final, colon)`, which says that there is no entry
besides, is kept too. `BlockInv`, that a text begins with a status line, is
the one strengthening about the state; `OnlyFinal`, the fields among the entries, is
what the lookups read.

**`EpollHttpProofs`.** `EachHandleInOnePlace`, `HandlesAreKept` (every handle made, by the constructor or later),
`TypeCorrect`, and
`KeepsThePromise`, the refinement. `IInv` adds that no handle is done twice, which phase
allows what (`PhaseInv`), and that a request being served has not been called
back, but for the one whose callback runs (`CalledInv`): that one's handle is not
in the pool yet, which is why callbacks may draw from it.

**`BenchProofs`.** `LibraryStaysUp` for every finite set of
threads. The strengthening `LibraryInv` says that who counts holds the lock
(`OwnerCounts`), so that what it read is still the count (`CountIsFresh`), and that the
count is the number of clients (`UsersCounted`). `ImplementsGlobalInit`: every step of
the benchmark is a step of `GlobalInit` or none, whence `LoopsKeepLibraryUp`.
`WindowsStayFull`, the half of `ConcurrencyDivided` about each loop, needs that what a loop launched is in flight or done
(`LaunchedInv`), from a first refill that starts from nothing (`FreshInv`). `ConcurrencyHolds` and
`ReportIsRight` are about sums over threads. `SumFunction` is treated like `FoldLeft`:
it exists (`SummingExists`, by the number of indices), is additive and monotone, and
moves by what one thread changes (`SumChange`); quotient and remainder make the shares
add up (`SharesAddUp`) and the windows to the concurrency less the remainder
(`WindowsAddUp`, `WindowsFit`). `CountsInv` then says that
answers were counted by the thread that met them and that failures are in the atomic or still with
their thread, but for the error that stops a coroutine; `ChainInv`, `FinishedInv` and
`PoolInv` say that a thread which stopped has the answers it was to have (`Goal`).

The assumptions are those named in the modules that declare the constants. Sets of
requests, handles, descriptors, states and threads are finite, caps and bounds are
natural numbers, `HTTP_POOL` has no handle twice, folding case maps spellings to
spellings (`FoldedAssumption`), threads are numbered from 1
(`ArgumentsAssumption`), no timeout is 0 (`TimeoutsAssumption`), and `None` is
none of the things it stands for the absence of (`RequestsAssumption`, `HandlesAssumption`
of `EpollHttp`, `OriginsAssumption`, `ClockAssumption` and their like).

Only model-checked: liveness (`EveryRequestSettles`, `EveryTimeoutIsServed`,
`EventsReachCurl`, `BenchmarkEnds`) and the fairness half of both
`ImplementsAsyncRequest`. Liveness under fairness and `ENABLED` are outside the prover's reach.

## What the code does otherwise than its documentation says

A run finds each of these:

1. `pending_requests()` (449) is the count of the last `socket_action`, not the
   transfers in flight (`docs/api-reference.md:55`). It never counts
   a transfer that is over (`PendingNeverOvercounts`), so waiting for 0 ends, but
   it is 0 right after `async_perform`.
2. A `GET` does not set `CURLOPT_POSTFIELDSIZE` (549–557), though a body varies it
   and everything that varies "must be (re)set" (672–674): with a hook that gives the
   `GET` a body, an earlier request's length is sent.
3. In `~Client` curl's shutdown attempts need not "fail at once" (319–321): in a
   program with other threads the severed numbers may be in use again. That nobody's
   descriptor is *closed* there is `OthersAreLeftAlone`.

These are in the models, whose properties say what holds instead:

4. A status line with a colon in its reason phrase is not "skipped" (192–193) but
   taken for a field (211–212). It hides no field (`FinalResponseOnly`).
5. `bench/README.md:53` has `concurrency` requests "kept in flight"; several loops keep
   it less the remainder of its division (`bench_cofetch.cpp:70`; `ConcurrencyDivided`).
6. The `failed` column (`bench/run_bench.sh:27`) lacks the error that ends a coroutine
   chain (`bench_cofetch.cpp:115`; `ReportAddsUp`).
7. `curl_easy_reset` keeps the handle's share and cookies, so options a hook sets can
   reach later requests (266–268; 661); `SameAsFresh` excepts them.
8. `http_code_` of a failed transfer is the status received before the failure, not
   0 (`docs/api-reference.md:122`; 928–932). `Client` delivers it so.
9. `bench/bench_epoll.cpp:9` says the handle pool "caps usable concurrency at 128";
   `Http::request` makes another handle when the pool is empty
   (`bench/baseline/http_epoll.h:185`), which the instance of `epoll` does; none is
   lost (`NoHandleLost`).
10. `start` may fail for another reason than memory (600), and `retire` pools the handle
    although it is in a multi (647): one that a hook added to its own. A later
    request without a hook draws it and fails. `Client` has this behaviour.

Others were read from the code only: a handler that throws leaves the other DONE messages
queued with nothing to fetch them (920–941), and a `Request::curl` hook that throws leaves
the handler on a node in `transfers_` until `~Client` (583).

## Plan

Modules so far, in the order they were written: `Client` and `ClientProofs`,
`AsyncRequest` and the refinement, `Kick` and `KickProofs`, `Sockets`,
`HandleOptions` and its proofs, `HeaderFields`, `EpollHttp`, `Cofetch`, `GlobalInit`,
`Bench`, and the proofs of the modules that had none. Next:

1. The hazards that no property covers (`hazards` in `PROJECT.json`, with the reason for
   each): first a hook that throws and a handler that destroys its client, both of which need
   states `Client` does not have.
2. The epoll set of the baseline client, whose events may be of descriptors that
   were closed since (`bench/baseline/http_epoll.h:263`).
3. A theorem for each property that comes with them.

## Not modelled

`Request`, `RequestBuilder` and the error category hold no state machine: a setter
assigns one field. What the benchmark drivers measure is left out, and so is the
epoll set of the baseline client: curl's work there is one step. `Sockets` is not composed
with `Cofetch`, where an event may come whenever curl waits: that it does come is
`EventsReachCurl`, and the product of the two is out of TLC's reach. The examples use the client in the
ways `Start` and `Cancel` already allow, and the scripts build. Windows differs in
`borrow` only (778–780), which is `WatchFails` there. libcurl, ASIO and the
operating system are modelled by the contracts stated above. Response bodies,
and request options in `Client`, are data that no property distinguishes there.
