# A TLA+ verification of go-http3-benchmark

The repository measures HTTP/3 servers. A client written in Rust on quiche
opens many connections to a server, runs two benchmarks over them and writes
what it measured to files; a reporter in Go makes tables of the files; shell
scripts start and stop the servers and clients and divide the CPUs between
them. This directory models those parts in TLA+, checks them with TLC on small
instances, and proves the safety of the client's engine and event loop, of
the quiche server, of the sampling and of the scripts for instances of any size
with TLAPS.

`PROJECT.json` says which lines of the source each definition models, which
properties each run checks, and what the hazards of the code are.

## The system and its parts

| Part | Source | State | Modules |
|---|---|---|---|
| Client engine | `benchcli-rust/src/engine.rs`, `main.rs` | per worker: slots with connections, free list, retries, phase; the command channels, the result channel, the shared counter of round trips | `Worker`, `Split`, `Engine`, `Rounds` |
| Client event loop | `engine.rs` | timer heap, dirty list, keepalive | `Timers` |
| Sampling | `benchcli-rust/src/ps.rs`, `benchkit/src/procstat.rs`, `frameworks/quiche/src/control.rs` | samplers, marks, control requests | `Sampling` |
| Statistics | `benchcli-rust/src/stats.rs`, `ps.rs`, `main.rs` | latencies per worker, the report | `Stats` |
| quiche server worker | `frameworks/quiche/src/server.rs` | sockets, slots, map of connection IDs, free and dirty lists, timer heap | `Server` |
| quiche server requests | `server.rs` (`process`, `respond`, `resume`) | requests being read, responses not sent yet | `Respond` |
| Scripts | `script/*.sh` | the driver, the servers' processes, logs and pid files | `Lifecycle` |
| Division of CPUs | `script/env.sh`, `script/docker_benchmark.sh` | the two CPU lists | `CpuSplit` |
| Reporter | `benchreport/report` | the files, the rows of a table | `Report` |
| Go servers, Summary of the reporter, flags, logging, port tables | `frameworks/*.go`, `benchreport/report/summary.go`, `benchkit/src/{flags,logging}.rs`, `config/` | | not modelled |

How they interact: the scripts start a server, wait for a line in its log and
run the client against it. The main thread of the client sends one command to
every worker and waits for an outcome from each; between two benchmarks it
reads the workers' ready counters. A worker talks to the server over quiche.
For CPU and memory the client asks the server's control port or samples the
process itself. The report files are all that the reporter sees of this.

What is hard in it:

* The workers of the client share one counter of round trips, and each worker
  counts what it has outstanding while connections fail, are dialed again, or
  have no room for a request. A miscount ends a benchmark early or never.
* Timers, dirty lists and free lists hold numbers of slots whose connection
  may have been replaced since.
* The poll is edge-triggered and the server reads within a budget.
* Control requests are retried, so one may be handled twice, or after the
  client has given up on it.
* The scripts see a server only through a log that the server itself empties,
  some time after it was started in the background.

## Modules

Every definition that models code carries the name of its method where TLA+
allows it. Just before some definitions stands a "Slip of" operator: the same
definition with a plausible mistake, which the properties are tested against.

**Worker, Engine.** `Worker` has the state of one worker as a record and each
method of `engine.rs` that changes it as an operator from state to state
(`Dial`, `DialFailed`, `EchoDone`, `Response`, `SendRequest`, ...). `Engine`
composes any number of workers with the main thread. One handler is one step,
with all that it calls. Loops whose iterations have outcomes of their own (the
dials of `start_dials`, the rounds of `drive_echo`, the connections of a tick)
take one step per iteration, during which the worker does nothing else. This
is sound since a worker shares only its channel, its ready counter and
the counter of round trips with others, and makes these finer steps visible.
Outcomes of quiche and of sockets are choices: a send is
accepted, has no room or fails; a stream ends well or badly; a connection
closes; a dial fails to bind, to register or to send. `MaxFaults` bounds how
many things fail. A body is not modelled, only whether a response is right.

**Rounds, EngineRounds.** `Rounds` is what `Engine::run` and `Engine::stop`
promise main, without channels, wakers and counts: in each benchmark every
worker is asked once, works, and reports once, main takes the reports, and the
next benchmark begins when the last one is in. `EngineRounds` maps the state of
`Engine` to it: a worker is "asked" while its command is in the channel,
"working" while it has a phase, "reported" while its outcome is in the other
channel, and "rest" or "done" by whether main has come to it. That the engine
implements `Rounds` is the property `RunsInRounds`.

**Split.** `split` and `split_by` of `main.rs` as functions.

**Timers.** One worker and its clock. The timer of a connection inside quiche
moves to any moment, or to none, at each call; poll may return late. A
handler takes no time. A `flush` that the socket refuses leaves packets in quiche
(`left`) without a mark; they go out with the next flush of the connection. Of
`next_wakeup` this module has the timers of connections and the keepalive. The
wakeups for retries, ticks and the limiter are steps that may come at any time in
`Engine`.

**Heap.** The `BinaryHeap` of timers of both programs: how often each entry is in
it. Entries are pushed and popped, never changed in place.

**Server.** One worker thread of the quiche server. What a datagram is for is
chosen when it is read. A random connection ID is one that is not in use.

**Respond.** The requests of one connection. A byte is a pair of its stream
and its place in the body, so that a response with bytes missing, repeated, out
of order or of another stream is told from the right one.

**Sampling.** The sampler threads on both machines, the client's setup with
its fallback, the marks, and control requests that are lost, late or answered with
something else, which is not retried.

**Stats.** Requests are recorded worker by worker in any order, then
merged and summarised. Numbers are integers; a quotient is its integer part.

**Report.** For each kind of table, clients leave any files, older formats included; then
the table is made. Fractions are kept exactly, as multiples of `1/Scale`.

**Lifecycle.** `benchmark.sh` and `benchmarkN.sh` in the roles of
`BENCH_ROLE`. Sleeping loops end at any time, with or without what they wait
for. Servers of an earlier run may be there, and other sockets may hold a port.
A server that had to be sent SIGKILL may still be there when `stop_server` returns;
it does nothing any more.

**CpuSplit.** All topologies within the bounds, and all flags of the docker
script.

**WorkerInvariant, EngineInv, ServerInv** hold the inductive invariants of the
engine and the server, **WorkerPages** and **Ledger** what the counters of the
engine add up to (the books, below); the other modules have theirs with their
properties. **WorkerSteps** says what the steps of a worker promise the rest of
the engine, and **SetFacts** what is used of finite sets.

The proofs about the engine are **HandlerProofs** (the methods the network and
the timers call), **WorkerProofs** (commands and loops), **PageProofs** (what a
worker's steps enter in the books), **MainProofs** (the split, main's steps, the
refinement), **LedgerProofs** (the books as a whole) and **EngineProofs** (the
theorems). **ServerProofs** has those about `Respond` and `Server`, and
**ClientProofs** those about `Timers`, `Sampling` and `Lifecycle`. Modules that are
extended together have names of their own for the initial state, the next-state
relation and the like (`RespondInit`, `SamplingNext`, `LifecycleSpec`). The
`MC*` modules instantiate for TLC; `MCAlgorithms` does so for `Stats`, `Report` and
`CpuSplit` at once, which have inputs and a result and no concurrency: a
behaviour is of one of them.

## Runs

| Run | Properties | What it shows |
|---|---|---|
| `engine` | `EInv`, `EchoExact`, `DialsExact`, `BudgetSpent`, `DrawsPartition`, `DialsOnlyBroken`, `RunsInRounds` | Two workers with one and two connections go through dialing, warmup, BenchEcho, whose round trips they draw from one counter, and BenchMultiplex, with failures of dials, sends, streams and connections: every counter matches what it counts, no round trip is lost or repeated, no live connection is dialed over, and the inductive invariant of the proofs holds. |
| `engine_live` | `RateWindow`, `Completes` | One worker that may panic, with more ticks of BenchMultiplex than batches may be in flight: under fairness of the threads, the network and the timers the client always gets to its end, and a connection never exceeds four unanswered batches. |
| `timers` | `TimersArmed`, `NothingUnflushed`, `QuietIsPinged`, `AttemptsEnd` | The lazy heap of timers never loses a deadline, a dial attempt whose time is up ends whatever quiche's own timer does, nothing marked dirty goes unflushed, and a quiet connection is pinged in time, through replaced connections, moved deadlines and failed sends. |
| `server` | `SInv`, `IdsExact`, `TimersArmed`, `AllRead` | Two sockets, connections accepted, closed by a peer, a timer or a failing send, and their slots taken again: the ID map, the free list, the dirty list and the timer heap stay exact, and what the read budget leaves behind is read in the end. |
| `respond` | `ResponseIsRight`, `OwedExactly`, `Answered` | Two requests on one connection, their bodies in any pieces, windows that open a little at a time, resets, refusals and a failing h3: each response is the right one, sent once and in order, the server holds exactly what it still owes, and a request that arrived whole is answered to its last byte. |
| `sampling` | `OwnUnlessLost`, `IntervalUnlessFailed`, `SamplesKept`, `Finishes` | Two benchmarks with every source of samples, control requests that get lost, are refused or are handled after the client gave up, and reads that fail: sampling starts once, lists only grow, and a report has foreign samples only where the mark was lost or the fallback stood in, a sample is of its own interval unless a read failed before it, and the client always gets to its end. |
| `lifecycle` | `UpIsBound`, `OnlyMeasured`, `NothingLeftRunning`, `ReportIsWhole`, `Ends` | benchmark.sh and benchmarkN.sh on one machine, on a node of servers and on one of clients, with leftovers, logs of an earlier run, ports in use, servers that crash or do not start and clients that fail: a client meets only the server being measured, nothing is left running, only a whole run is reported, and a run ends. |
| `algorithms` | `CountsEveryRequest`, `PercentilesExact`, `FirstSampleLeftOut`, `RowsInOrder`, `ShownAsMeasured`, `OnlyBestIsWhole`, `BothGetCpus`, `CoresWhole`, `Balanced`, `DockerAsAsked` | The computations without concurrency, each behaviour being of one of them: the statistics of a benchmark against their definition, the three tables of benchreport with ties, close results and files of older clients, and the division of the CPUs over every topology of up to five and every combination of docker flags. |

The inductive invariants of the proofs, with the type invariants in them, are
checked too: `EInv` and `SInv` are properties of their own, and `TInv`, `RInv`,
`SampInv` and `LInv` are conjuncts of `TimersArmed` (of `Timers`), `OwedExactly`,
`OwnUnlessLost` and `UpIsBound`.

Four runs in which TLC finds what the code does to differ from what the code's
own text says (details under `findings` in `PROJECT.json`):

| Run | Property | What it shows |
|---|---|---|
| `register_unwrap` | `IdleSlotsOccupied` | A redial whose socket cannot be registered leaves its slot empty but idle; drive_echo then unwraps None. |
| `worker_death` | `DeathNoticed` | With two workers main is not told of one that panicked: the channel of the outcomes is disconnected only when the other has gone too, which waits for its next command. |
| `redial_hang` | `RatePrepEnds` | With -dr 1 a redial that fails before it sends anything is counted off before the counter exists, so BenchMultiplex never starts. |
| `sample_interval` | `SampleIsOfInterval` | After a read that failed the next sample puts the CPU time of two intervals over the length of one. |

### What the text says and the models do not

Some properties are weaker than a comment of the code, because the code is. The
properties above are what holds; the difference is this.

* `engine.rs:211` says a failed connection is dialed again before it is used
  again. `try_send` closes it without marking it Broken, and it is given round
  trips until quiche reports it closed. They are counted right (`EchoExact`).
* `main.rs:51` describes `-dc` as the number of handshakes in progress. Every
  worker with a connection gets at least one of them, so that with more such
  workers than `-dc` there are more. `DialsExact` bounds them per worker.
* `main.rs:42` says a connection quiet for a quarter of the idle timeout is sent
  a PING. The period is at least a second and looked at once a second.
  `QuietIsPinged` has the bound that the code keeps, and the theorem `QuietPinged`
  proves it for every idle timeout, those of less than four seconds included,
  where the minimum applies. It excepts what follows a send the socket refused.
* `ps.rs:13` says each benchmark reads only the samples taken while it ran. When
  the request for a mark fails, the mark is 0 and earlier samples are read.
  `OwnUnlessLost` excepts that case and the fallback.
* `procstat.rs:118` says a sample is the CPU used over the interval, which
  `sample_interval` refutes for the one after a read that failed.
  `IntervalUnlessFailed` is what holds.
* `benchrate_report.go:111` says the EERs of an older file are worked out "from the
  TPS fillTPS left". `fillEER` takes the rate before it is rounded down, as
  the client does (`main.rs:453`), and that TPS only where the file has no
  duration. `ShownAsMeasured` says so.
* `env.sh:119` says `start_server` returns once the server has bound its ports.
  On a server node the logs of an earlier run are kept, and a line in one can pass
  for the new server's. `UpIsBound` excepts that case.
* `clients.sh:7` says only the server being measured is ever running. `killall.sh`
  signals what an earlier run left and does not wait for it. `OnlyMeasured` says
  that whatever else runs has been signalled.

## Bounds

* **Engine.** Two workers with one and two connections contend for the counter
  of round trips; two connections in one worker are the fewest where one is busy
  while the other is idle, broken or dialed again. Two faults allow for a
  connection that breaks and a redial that fails. `-dc` is 1, less than the workers,
  so that a share of 0 is raised to 1. In `engine_live` five ticks of
  two requests pass the limit of four batches, and three faults lead up to a
  panic, or to a client without a connection. The invariants that are proved
  hold for any bounds.
* **Timers.** One slot, dialed several times: entries of different slots
  do not affect each other, entries of successive connections in a slot do. A
  second is two ticks, so that moments between two checks exist.
* **Server.** Two sockets with a budget of two and three datagrams: a
  socket can be left over within a round. Two slots and four IDs suffice for a
  slot to be taken again under other IDs.
* **Respond.** Two streams. `MAX_BODY` is 2, so that bytes have an order within a
  body that is echoed; on one stream bodies go up to one byte more than that.
* **Sampling.** Two benchmarks, as in the client; two attempts per request and
  two faults, so that a request may fail for good. `sample_interval` has one
  benchmark and one read that fails.
* **Lifecycle.** Three frameworks, each driver in each role, with leftovers and
  logs of an earlier run or without; one restart per server.
* **Stats, Report.** Up to three requests per worker and three samples, none and
  one included; values
  next to each other and next to zero, where ranking, rounding and
  division could go wrong.
* **CpuSplit.** Four CPUs in two sockets, nodes and cores; five
  CPUs in three cores for balance.

Deadlock is checked in the runs of Engine, Timers, Server, Sampling and
Lifecycle, except in `redial_hang` and `worker_death`, which are about the client
hanging. It is not
checked where a model just ends: a connection with all its requests answered, a
table that is written.

## Fairness

* **Engine** (`engine_live`, `redial_hang`, `worker_death`): weak fairness of main and of each
  worker's steps, since threads are scheduled; of each connection's network
  step, since a request is answered or quiche's idle timeout closes the
  connection, and an attempt to dial has a timer (see `Timers`).
* **Timers**: time passes and the loop goes on.
* **Server**: the worker's loop goes on; nothing is assumed of arrivals.
* **Respond**: calls go on, and the client opens a stream's window again and
  again (strong fairness; the client of this repository reads all it gets).
* **Sampling**: the threads go on; a request is handled or fails, since it has a
  timeout.
* **Lifecycle**: the driver and the servers' processes go on. Every loop of
  the scripts that waits has a limit.

## Proofs

About `Engine`, for every number of workers, connections, retries, round
trips, ticks and failures. The one condition is `Registers`: registering a
socket with the poll does not fail. Without it the results do not hold, which is
what `register_unwrap` shows. About `Server`, for every number of sockets, slots,
IDs and datagrams, any read budget and any timers; of the constants only
`ServerAssumption` is used, that they are positive and the IDs finite. About
`Timers`, `Respond`, `Sampling` and `Lifecycle` likewise, under the assumption on the
constants in each module: any number of slots, streams, attempts or frameworks,
bodies of any length, any timeouts, and any number of failures.

| Theorem | Statement |
|---|---|
| `Inductive`, `BooksBalance` | `Spec => []IInv`, `Spec => []EInv` |
| `TypeCorrect` | `Spec => []TypeOK`; no counter falls below zero |
| `EchoIsExact` | `Spec => []EchoExact` |
| `ReadyIsExact` | `Spec => []ReadyExact` |
| `FreeIsExact` | `Spec => []FreeExact` |
| `LeavesNothing` | `Spec => []NothingLeftBehind` |
| `QueueIsBounded` | `Spec => []QueueBound` |
| `RunsRounds` | `Spec => RunsInRounds`: the engine implements `Rounds` |
| `DialsAreExact` | `Spec => []DialsExact` |
| `DrawsAreShared`, `BudgetIsSpent` | `Spec => []DrawsPartition`, `[]BudgetSpent` |
| `WindowIsHeld` | `Spec => []RateWindow` |
| `DialsBroken` | `Spec => DialsOnlyBroken`: no step dials over a live connection |
| `ServerSafe` | `Spec => []SInv`, of `Server` |
| `IdsCorrect`, `FreeCorrect`, `DirtyCorrect` | `Spec => []IdsExact`, `[]FreeExact`, `[]DirtyExact` of `Server` |
| `TimersCorrect`, `UnreadCorrect` | `Spec => []TimersArmed`, `[]NothingUnread` of `Server` |
| `NoTimerLost`, `AllFlushed`, `QuietPinged` | `Spec => []TimersArmed`, `[]NothingUnflushed`, `[]QuietIsPinged` of `Timers` |
| `KeepsWhatItOwes`, `RespondsRight` | `RespondSpec => []OwedExactly`, `[]ResponseIsRight` of `Respond` |
| `ReportsOwnSamples`, `SamplesOfIntervals` | `SamplingSpec => []OwnUnlessLost`, `[]IntervalUnlessFailed` of `Sampling` |
| `SamplersStay` | `SamplingSpec => SamplesKept` of `Sampling`: no step changes a sampler that started or takes back a sample |
| `StartedIsBound`, `MeasuredAlone` | `LifecycleSpec => []UpIsBound`, `[]OnlyMeasured` of `Lifecycle` |
| `LeavesNoServer`, `ReportsWholeRuns` | `LifecycleSpec => []NothingLeftRunning`, `[]ReportIsWhole` of `Lifecycle` |
| `SplitEvenParts`, `SplitByCapped` | `split` is even; `split_by` gives no worker more than it holds |

**The invariant.** None of the properties is inductive. That `in_flight` is
the number of busy slots survives a response only if a connection has at
most one round trip, open or queued; that survives a redial only if what
is dialed again was broken and carries nothing; that needs every dial and retry
to be of the purpose of the phase, and every retry to be of a slot of its own. So
`WorkerInv` says of each worker: what a connection carries, by its state
(`SlotInv`); that the free list is exact (`FreeInv`); which dials there are,
by the phase, and that its counter counts them (`DialsInv`); that idle and
busy slots partition the occupied ones (`EchoInv`); and which loop it is in
(`ControlInv`). `HandshakeInv` adds what main and workers agree on: who owes an
outcome, so that a command only meets a worker at rest. `IInv` is their
conjunction with `TypeOK`.

**The books.** `IInv` says what a worker's counters are at a moment, not how they
came about. That all of `-en` was run needs what every worker drew, has in flight
and has counted, and what it put in its outcome; that `-c` connections were tried
needs the same of dials. `Page(s, a)` says it of one worker in state `s` with the
account `a` main has of it: dials to come, under way, made and given up add up to
its share (`DialPage`); what it drew is in flight or counted, and it stops only
when all is drawn (`EchoPage`); what it sent in BenchMultiplex is open or answered
at most once, within the window of each connection. `Books` has all pages and
what joins them: the numbers drawn are the ones handed out (`DrawBooks`), an
outcome counts as many as its worker drew (`ReportBooks`), and some worker has a
part in BenchEcho, which no such worker leaves before all is drawn (`StaffBooks`).
`EInv` is `IInv`, `StopInv` (below) and `Books`; TLC checks it in `engine`.

**The argument.** Handlers call each other with a slot or a dial in hand that
is in no list at that moment. `Inv(s, H, n)` is the invariant of a worker whose
handler holds the round trips of the slots `H` and `n` dials. Each operator of
`Worker` has a lemma that takes `Inv` with something held to `Inv` with less
or more held (`HandlerProofs`), and so has each command and each step of a loop
(`WorkerProofs`). What comes out of it is `WorkerKeeps`, a conjunction of
formulas of `WorkerSteps` about the states of one worker; `PageKeeps` of
`WorkerPages` is the same for the pages (`PageProofs`). `MainProofs` and
`LedgerProofs` have the steps of the engine, for `IInv` and for `Books`, from
these two as hypotheses, so that the two sides do not see each other's lemmas.
`SetFacts` is a hypothesis of all of them in the same way. `EngineProofs` proves
`SetFacts` from the library's theorems and discharges all three: no theorem
listed above assumes them.
`ReadyExact`, `FreeExact`, `NothingLeftBehind` and `QueueBound`, and of the server
`FreeExact`, `DirtyExact` and `NothingUnread`, have no place of their own in a run: TLC
checks `EInv` and `SInv`, and these follow by the theorems.

**The refinement.** Main counts outcomes, so most of the mapping is about who
owes one. A step of a worker that takes no command and sends no outcome leaves
`HandshakeInv` true before and after it with main and the other workers as they
were: then what the worker owes cannot have changed either (`OwesKept`, which is
where main's count is used), and its stage is the same. This spares
the proof a look into the handlers. The steps that remain, of main and of
`Recv` and `FinishPhase`, are one lemma each in `MainProofs`. `StopInv`,
proved along with them, says what is special in the last round: workers are told
to stop then and only then, and none has a phase.

**The server.** `TimersArmed` and `NothingUnread` speak of the moment of the poll
and say nothing in the middle of a round. `SInv` says what holds there too: a
socket with datagrams is on the list of this round, on the one of the next or
will be reported (`UnreadInv`); a connection that is not on the dirty list is
alive and has its timer in the heap (`ClientInv`); one that is on it will be
flushed before the next poll. `scheduled` is in the heap because `fire_timers`
drops only entries that are not the connection's `scheduled`, or clears it. `ServerProofs`
has one lemma per action, over lemmas on lists and on the heap.

**The client's event loop.** `TimersArmed` is about the poll, too, and the heap
holds entries of connections that are gone. `TInv` says of every moment: a marked
connection is on the list; one that is not marked has nothing to send and waits
for an entry no later than its deadline; and that entry is in the heap, because
what `fire_timers` takes out is either stale or clears `scheduled`. For
`QuietIsPinged` it adds that a quiet connection was active lately or is about to
be flushed with a PING in it, which is where keepalive and flush meet. `Drained` is
proved on top of it for `NothingUnflushed`: packets stay in quiche without a mark
only after the socket refused one.

**Requests.** `RInv` says of each stream what the server holds, from how much
of it was read: the request with the bytes so far, until there are too
many; then the rest of the one right response, once, from where the stream
stopped. That a response is right needs all of it: what was gathered is the body
only because pieces were appended in order, and `resume` sends the right rest only
because `off` is the number of bytes the stream carries.

**Sampling.** A mark leaves earlier samples out because the list it counts only
grows (`SamplesKept`) and belongs to the sampler that will be asked again; a late
`/init` must not have replaced it. `SampInv` keeps that a mark is not less than
what was there when its benchmark began, from the answer to the request on, and
for each sampler when the CPU time it compares with was read.

**Scripts.** `start_server` only sees a log. `LogsTell` says whose line a log can
hold at each point of a run, through restarts, and `OneAtATime` whose
server can be running, by the place of the driver; `RanSoFar` says which client runs a
status of 0 stands for. The four properties are about different places of the
driver, and each needs what was true at the earlier ones.

**Only model-checked.** Liveness (`Completes`, `AttemptsEnd`, `AllRead`,
`Answered`, `Finishes`, `Ends`), which needs `ENABLED`. `Stats` and
`Report`: they sort and add up lists, which needs induction over data. `CpuSplit`:
it sorts CPUs with `SetToSortSeq`, of which the provers know nothing. `RatePrepEnds`,
`DeathNoticed`, `SampleIsOfInterval` and, without `Registers`, `IdleSlotsOccupied`
do not hold.

## Not modelled

* The Go servers: adapters of libraries that are not in the repository.
  When the pool of `frameworks/handlers.go` may reuse a buffer depends on what
  these libraries do with it after `Write` returns.
* The Summary table of the reporter: a listing of what the result files hold.
* Parsing of flags and durations, logging, the text of reports and tables, HTTP
  text on the control port: conversions without state.
* The tables of ports and frameworks, which a test compares.
* quiche itself, sockets and processes: they appear as choices.
* The cap of two million on the warmup's round trips (`main.rs:363`): the model
  warms up with `WarmupPerConn` for each ready connection, whatever number that is.
* Profiling (`pprof_later`): its profiles only go to files of their own.

## Plan

What is left, in the order of its worth:

1. The division of the CPUs with the sorting stated as a choice, and its balance
   proved.
2. How the quiche server divides its ports among threads; flags and durations as
   functions over bounded inputs.
