------------------------------- MODULE Engine -------------------------------
(***************************************************************************)
(* The load generator: the main thread of benchcli-rust/src/main.rs, which *)
(* runs the benchmarks one after the other through Engine::run, and the    *)
(* worker threads of engine.rs, which carry them out.                      *)
(*                                                                         *)
(* The threads share a command channel and a waker per worker, the channel *)
(* of outcomes, the workers' ready counters and the counter of round trips *)
(* of the current EchoJob.  A handler of a worker is one step; the loops   *)
(* that make calls whose outcomes differ (dials, rounds of drive_echo, the *)
(* connections of a tick) take a step an iteration, during which the       *)
(* worker handles nothing else.                                            *)
(***************************************************************************)
EXTENDS Worker, Split

CONSTANTS
  NumWorkers,     \* -t
  NumConns,       \* -c
  DialConc,       \* -dc
  EchoConc,       \* -ec
  WarmupPerConn,  \* warmup round trips per ready connection (5 in main.rs)
  EchoTimes,      \* -en
  EchoLimited,    \* whether -el is set
  RunRate,        \* -rate
  Batch,          \* requests per connection and tick
  RateTicks,      \* a bound on the ticks BenchMultiplex gets to take
  DialErrors,     \* which errors of try_dial the environment may produce
  MaxFaults       \* a bound on what the environment may make fail

MAX_BATCHES_IN_FLIGHT == 4
Workers == 1..NumWorkers

ASSUME EngineAssumption ==
  /\ NumWorkers \in Nat \ {0} /\ NumConns \in Nat \ {0}
  /\ DialConc \in Nat \ {0} /\ EchoConc \in Nat \ {0}
  /\ WarmupPerConn \in Nat /\ EchoTimes \in Nat /\ EchoLimited \in BOOLEAN
  /\ RunRate \in BOOLEAN /\ Batch \in Nat \ {0} /\ RateTicks \in Nat
  /\ DialErrors \subseteq {"bind", "register", "send"} /\ MaxFaults \in Nat

VARIABLES
  worker,   \* the state of each worker
  rx,       \* the commands sent to each worker and not yet received
  woken,    \* whether each worker's waker has fired since its last poll
  results,  \* the outcomes sent to the main thread and not yet received
  job,      \* the EchoJob of the current run: times and issued
  main,     \* the main thread
  faults,   \* how many faults the environment has used up
  drawn     \* history: the numbers below times each worker drew from issued

vars == <<worker, rx, woken, results, job, main, faults, drawn>>

DialOutcomes == {"ok"} \cup DialErrors
SendOutcomes == {"ok", "blocked", "failed"}

(* A fault the environment chooses; what a closing or a GOAWAY connection
   refuses is the consequence of an earlier one. *)
Spend(n) == faults + n <= MaxFaults /\ faults' = faults + n
DialCost(r) == IF r = "ok" THEN 0 ELSE 1
SendCost(c, r) == IF r = "failed" /\ ~c.closing /\ ~c.goaway THEN 1 ELSE 0

Init ==
  /\ worker = [w \in Workers |-> NewWorker]
  /\ rx = [w \in Workers |-> <<>>]
  /\ woken = [w \in Workers |-> FALSE]
  /\ results = <<>>
  /\ job = [times |-> 0, issued |-> 0]
  /\ main = [bench |-> "Dial", pc |-> "send", k |-> 1, pending |-> 0,
             concs |-> [w \in Workers |-> 0], outcomes |-> [w \in Workers |-> Idle]]
  /\ faults = 0
  /\ drawn = [w \in Workers |-> {}]

-----------------------------------------------------------------------------
(* The main thread. *)

(* The command of the current benchmark for worker w. *)
CommandFor(w) ==
  LET count == SplitEven(NumConns, NumWorkers)[w]
      conc == SplitEven(IF DialConc < NumConns THEN DialConc ELSE NumConns, NumWorkers)[w]
  IN  CASE main.bench = "Dial" ->
             [kind |-> "Dial", count |-> count,
              concurrency |-> IF count = 0 THEN 0 ELSE IF conc > 1 THEN conc ELSE 1]
        [] main.bench \in {"Warmup", "Echo"} ->
             [kind |-> main.bench, count |-> 0, concurrency |-> main.concs[w]]
        [] OTHER ->
             [kind |-> IF main.bench = "Rate" THEN "Rate" ELSE "Stop",
              count |-> 0, concurrency |-> 0]

(* Engine::run and Engine::stop send each worker its command and then wake
   it; run goes on to wait for the outcomes, stop to join the threads. *)
MainSend ==
  /\ main.pc = "send"
  /\ rx' = [rx EXCEPT ![main.k] = Append(@, CommandFor(main.k))]
  /\ main' = [main EXCEPT !.pc = "wake"]
  /\ UNCHANGED <<worker, woken, results, job, faults, drawn>>

(* Slip of run: it waits for one outcome too few. *)
MainWakeShort ==
  /\ main.pc = "wake"
  /\ woken' = [woken EXCEPT ![main.k] = TRUE]
  /\ main' =
       IF main.k < NumWorkers THEN [main EXCEPT !.pc = "send", !.k = @ + 1]
       ELSE IF main.bench \in {"Stop", "Abort"} THEN [main EXCEPT !.pc = "join"]
       ELSE [main EXCEPT !.pc = "wait", !.pending = NumWorkers - 1]
  /\ UNCHANGED <<worker, rx, results, job, faults, drawn>>

MainWake ==
  /\ main.pc = "wake"
  /\ woken' = [woken EXCEPT ![main.k] = TRUE]
  /\ main' =
       IF main.k < NumWorkers THEN [main EXCEPT !.pc = "send", !.k = @ + 1]
       ELSE IF main.bench \in {"Stop", "Abort"} THEN [main EXCEPT !.pc = "join"]
       ELSE [main EXCEPT !.pc = "wait", !.pending = NumWorkers]
  /\ UNCHANGED <<worker, rx, results, job, faults, drawn>>

MainRecv ==
  /\ main.pc = "wait" /\ main.pending > 0 /\ results # <<>>
  /\ main' = [main EXCEPT !.pending = @ - 1,
                          !.outcomes[Head(results).id] = Head(results).outcome]
  /\ results' = Tail(results)
  /\ UNCHANGED <<worker, rx, woken, job, faults, drawn>>

(* recv_timeout sees a disconnected channel once every sender is gone. *)
Gone(w) == worker[w].at \in {"panicked", "exited"}

MainDisconnected ==
  /\ main.pc = "wait" /\ main.pending > 0 /\ results = <<>>
  /\ \A w \in Workers : Gone(w)
  /\ main' = [main EXCEPT !.pc = "fatal"]
  /\ UNCHANGED <<worker, rx, woken, results, job, faults, drawn>>

(* Every outcome is in: what main does up to the next call of run or stop.
   The concurrency of BenchEcho is worked out once, before its warmup.  With
   no connection to run on the client aborts: it stops the workers and then
   ends with an error. *)
ReadyCounts == [w \in Workers |-> worker[w].ready]

NextBench ==
  CASE main.bench = "Dial" ->
         IF Total(ReadyCounts, NumWorkers) = 0 THEN "Abort" ELSE "Warmup"
    [] main.bench = "Warmup" -> "Echo"
    [] main.bench = "Echo" /\ RunRate -> "Rate"
    [] OTHER -> "Stop"

NewJob(times) == [times |-> times, issued |-> 0]

MainNext ==
  /\ main.pc = "wait" /\ main.pending = 0
  /\ main' = [main EXCEPT !.pc = "send", !.k = 1, !.bench = NextBench,
                !.concs = IF main.bench = "Dial"
                          THEN SplitBy(EchoConc, ReadyCounts, NumWorkers) ELSE @,
                !.outcomes = [w \in Workers |-> Idle]]
  /\ job' = CASE NextBench = "Warmup" ->
                   NewJob(WarmupPerConn * Total(ReadyCounts, NumWorkers))
              [] NextBench = "Echo" -> NewJob(EchoTimes)
              [] OTHER -> NewJob(0)
  /\ drawn' = [w \in Workers |-> {}]
  /\ UNCHANGED <<worker, rx, woken, results, faults>>

MainJoin ==
  /\ main.pc = "join" /\ \A w \in Workers : Gone(w)
  /\ main' = [main EXCEPT !.pc = IF main.bench = "Abort" THEN "fatal" ELSE "done"]
  /\ UNCHANGED <<worker, rx, woken, results, job, faults, drawn>>

(* The process has ended. *)
Ended == main.pc \in {"done", "fatal"} /\ UNCHANGED vars

-----------------------------------------------------------------------------
(* A step of worker w that leaves the other threads' state alone. *)
Step(w, s) ==
  /\ worker' = [worker EXCEPT ![w] = s]
  /\ UNCHANGED <<rx, woken, results, job, main, drawn>>

Polling(w) == worker[w].at = "poll"

(* Worker::run on a WAKER event: start for a command, and for Stop close_all
   and the end of the thread. *)
Recv(w) ==
  /\ Polling(w) /\ woken[w] /\ rx[w] # <<>>
  /\ LET cmd == Head(rx[w])
         s == worker[w]
     IN  \/ /\ cmd.kind = "Dial"
            /\ worker' = [worker EXCEPT ![w] = StartDial(s, cmd.count, cmd.concurrency)]
         \/ /\ cmd.kind \in {"Warmup", "Echo"}
            /\ \E idle \in [1..Cardinality(Occupied(s)) -> Occupied(s)] :
                 /\ Lists(idle, Occupied(s))
                 /\ worker' = [worker EXCEPT ![w] =
                                 StartEcho(s, idle, cmd.concurrency, cmd.kind = "Echo")]
         \/ /\ cmd.kind = "Rate"
            /\ worker' = [worker EXCEPT ![w] = StartRate(s)]
         \/ /\ cmd.kind = "Stop"
            /\ worker' = [worker EXCEPT ![w] = CloseAll(s)]
  /\ rx' = [rx EXCEPT ![w] = Tail(@)]
  /\ woken' = [woken EXCEPT ![w] = (Tail(rx[w]) # <<>>)]
  /\ UNCHANGED <<results, job, main, faults, drawn>>

(* finish: the outcome goes to the main thread. *)
FinishPhase(w) ==
  /\ worker' = [worker EXCEPT ![w] = Finish(@)]
  /\ results' = Append(results, [id |-> w, outcome |-> worker[w].phase])
  /\ UNCHANGED <<rx, woken, job, main, faults, drawn>>

-----------------------------------------------------------------------------
(* What the network and the timers make of connection i of worker w. *)

OnEstablished(w, i) ==
  LET s == worker[w] IN
  /\ Polling(w) /\ s.slots[i].state = "connecting" /\ ~s.slots[i].h3
  /\ \E r, rq \in SendOutcomes :
       /\ rq # "blocked" => r = "blocked"
       /\ Spend(SendCost(s.slots[i], r) + SendCost(s.slots[i], rq))
       /\ Step(w, Established(s, i, r, rq))

(* Only an answer to the first request of a redial sends another request. *)
OnStreamDone(w, i) ==
  LET s == worker[w] IN
  /\ Polling(w)
  /\ \E kind \in Kinds, res \in {"ok", "bad", "err"}, r, rq \in SendOutcomes :
       /\ s.slots[i].streams[kind] > 0
       /\ r # "ok" => kind = "Dial" /\ res = "ok" /\ s.slots[i].dial.purpose = "RedialEcho"
       /\ rq # "blocked" => r = "blocked"
       /\ Spend((IF res = "ok" THEN 0 ELSE 1)
                + SendCost(s.slots[i], r) + SendCost(s.slots[i], rq))
       /\ Step(w, StreamDone(s, i, kind, res, r, rq))

(* Room opens up on a connection with a queued request. *)
OnRoom(w, i) ==
  LET s == worker[w] IN
  /\ Polling(w) /\ s.slots[i].queued # <<>>
  /\ \E rq \in {"ok", "failed"} :
       /\ Spend(SendCost(s.slots[i], rq))
       /\ Step(w, SendQueued(s, i, rq))

OnClosed(w, i) ==
  LET s == worker[w] IN
  /\ Polling(w) /\ s.slots[i].state \in {"connecting", "ready"}
  /\ Spend(IF s.slots[i].closing THEN 0 ELSE 1)
  /\ Step(w, Closed(s, i))

(* GOAWAY; or a protocol error, on which process_conn closes the connection. *)
OnGoAway(w, i) ==
  LET s == worker[w] IN
  /\ Polling(w) /\ s.slots[i].h3 /\ ~s.slots[i].goaway
  /\ Spend(1)
  /\ Step(w, [s EXCEPT !.slots[i].goaway = TRUE])

OnProtocolError(w, i) ==
  LET s == worker[w] IN
  /\ Polling(w) /\ s.slots[i].h3 /\ ~s.slots[i].closing
  /\ Spend(1)
  /\ Step(w, [s EXCEPT !.slots[i].closing = TRUE])

(* fire_timers on a dial attempt that ran out of time. *)
DialTimeout(w, i) ==
  LET s == worker[w] IN
  /\ Polling(w) /\ s.slots[i].state = "connecting"
  /\ Spend(1)
  /\ Step(w, DialFailed(s, i))

RetryDue(w) ==
  /\ Polling(w) /\ worker[w].retries # <<>>
  /\ Head(worker[w].retries).slot = 0 => AllocIdx(worker[w]) <= MaxSlots
  /\ \E r \in DialOutcomes : Spend(DialCost(r)) /\ Step(w, FireRetry(worker[w], r))

-----------------------------------------------------------------------------
(* drive. *)

FinishDial(w) ==
  /\ Polling(w) /\ worker[w].phase.kind = "Dial"
  /\ worker[w].phase.remaining = 0 /\ worker[w].phase.active = 0
  /\ FinishPhase(w)

StartDials(w) ==
  /\ Polling(w) /\ worker[w].phase.kind = "Dial" /\ Starts(worker[w]) > 0
  /\ Step(w, DriveDial(worker[w])) /\ UNCHANGED faults

NextDial(w) ==
  /\ worker[w].at = "dialing"
  /\ AllocIdx(worker[w]) <= MaxSlots
  /\ \E r \in DialOutcomes : Spend(DialCost(r)) /\ Step(w, DialNext(worker[w], r))

Driving(w) == worker[w].phase.kind = "Echo" /\ worker[w].at \in {"poll", "echoing"}

FinishEcho(w) ==
  /\ Driving(w) /\ worker[w].phase.exhausted /\ worker[w].phase.in_flight = 0
  /\ FinishPhase(w)

(* A round of drive_echo that draws from issued. *)
MayDraw(w) ==
  LET p == worker[w].phase IN
  Driving(w) /\ ~p.exhausted /\ p.in_flight < p.slots /\ p.idle # <<>>

(* drive_echo returns: nothing left to issue, every slot of the worker's
   concurrency taken, no connection idle, or the limiter has no token. *)
EchoReturn(w) ==
  /\ worker[w].at = "echoing"
  /\ ~(worker[w].phase.exhausted /\ worker[w].phase.in_flight = 0)
  /\ ~MayDraw(w) \/ EchoLimited
  /\ Step(w, [worker[w] EXCEPT !.at = "poll"]) /\ UNCHANGED faults

EchoExhaust(w) ==
  /\ MayDraw(w) /\ job.issued >= job.times
  /\ worker' = [worker EXCEPT ![w].phase.exhausted = TRUE, ![w].at = "echoing"]
  /\ job' = [job EXCEPT !.issued = @ + 1]
  /\ UNCHANGED <<rx, woken, results, main, faults, drawn>>

(* Slips of drive_echo: one number too many is below times; the shared counter
   is read and not moved on. *)
EchoDrawBeyond(w) ==
  LET s == worker[w]
      c == s.slots[Head(s.phase.idle)] IN
  /\ MayDraw(w) /\ job.issued <= job.times
  /\ \E rd \in DialOutcomes, rs \in SendOutcomes :
       /\ rd # "ok" => c.state = "broken"
       /\ rs # "ok" => c.state = "ready"
       /\ Spend(DialCost(rd) + SendCost(c, rs))
       /\ worker' = [worker EXCEPT ![w] = EchoIssue(s, rd, rs)]
  /\ job' = [job EXCEPT !.issued = @ + 1]
  /\ drawn' = [drawn EXCEPT ![w] = @ \cup {job.issued}]
  /\ UNCHANGED <<rx, woken, results, main>>

EchoDrawReads(w) ==
  LET s == worker[w]
      c == s.slots[Head(s.phase.idle)] IN
  /\ MayDraw(w) /\ job.issued < job.times
  /\ \E rd \in DialOutcomes, rs \in SendOutcomes :
       /\ rd # "ok" => c.state = "broken"
       /\ rs # "ok" => c.state = "ready"
       /\ Spend(DialCost(rd) + SendCost(c, rs))
       /\ worker' = [worker EXCEPT ![w] = EchoIssue(s, rd, rs)]
  /\ drawn' = [drawn EXCEPT ![w] = @ \cup {job.issued}]
  /\ UNCHANGED <<rx, woken, results, main, job>>

EchoDraw(w) ==
  LET s == worker[w]
      c == s.slots[Head(s.phase.idle)] IN
  /\ MayDraw(w) /\ job.issued < job.times
  /\ \E rd \in DialOutcomes, rs \in SendOutcomes :
       /\ rd # "ok" => c.state = "broken"
       /\ rs # "ok" => c.state = "ready"
       /\ Spend(DialCost(rd) + SendCost(c, rs))
       /\ worker' = [worker EXCEPT ![w] = EchoIssue(s, rd, rs)]
  /\ job' = [job EXCEPT !.issued = @ + 1]
  /\ drawn' = [drawn EXCEPT ![w] = @ \cup {job.issued}]
  /\ UNCHANGED <<rx, woken, results, main>>

(* start, Rate: the redials, in the order of the slots. *)
First(S) == CHOOSE i \in S : \A j \in S : i <= j

Redial(w) ==
  LET s == worker[w]
      i == First(s.todo) IN
  /\ s.at = "redialing" /\ s.todo # {}
  /\ \E r \in DialOutcomes :
       /\ Spend(DialCost(r))
       /\ Step(w, Dial([s EXCEPT !.todo = @ \ {i}], FirstDial("RedialRate", i), r))

RedialsDialed(w) ==
  /\ worker[w].at = "redialing" /\ worker[w].todo = {}
  /\ Step(w, EndRedials(worker[w])) /\ UNCHANGED faults

RateBegin(w) ==
  /\ Polling(w) /\ worker[w].phase.kind = "RatePrep" /\ worker[w].phase.redials = 0
  /\ Step(w, StartRateRun(worker[w])) /\ UNCHANGED faults

(* drive_rate: a tick, the deadline, or the end of the grace period, which
   comes when its time is up and may come once everything is answered. *)
RateTick(w) ==
  LET s == worker[w] IN
  /\ Polling(w) /\ s.phase.kind = "Rate" /\ ~s.phase.grace /\ s.phase.ticks < RateTicks
  /\ Step(w, [s EXCEPT !.at = "ticking", !.todo = s.phase.conns, !.phase.ticks = @ + 1])
  /\ UNCHANGED faults

RateDeadline(w) ==
  /\ Polling(w) /\ worker[w].phase.kind = "Rate" /\ ~worker[w].phase.grace
  /\ Step(w, [worker[w] EXCEPT !.phase.grace = TRUE]) /\ UNCHANGED faults

FinishRate(w) ==
  /\ Polling(w) /\ worker[w].phase.kind = "Rate" /\ worker[w].phase.grace
  /\ FinishPhase(w)

(* One connection of rate_tick: skipped, or sent a batch. *)
TickNext(w) ==
  LET s == worker[w]
      i == First(s.todo)
      t == [s EXCEPT !.todo = @ \ {i}] IN
  /\ s.at = "ticking" /\ s.todo # {}
  /\ \/ Step(w, t) /\ UNCHANGED faults
     \/ /\ MayTick(s, i, Batch, Batch * MAX_BATCHES_IN_FLIGHT)
        /\ \E n \in 0..Batch, r \in SendOutcomes :
             /\ r = "ok" <=> n = Batch
             /\ Spend(SendCost(s.slots[i], r))
             /\ Step(w, TickConn(t, i, n, r))

TickEnd(w) ==
  /\ worker[w].at = "ticking" /\ worker[w].todo = {}
  /\ Step(w, [worker[w] EXCEPT !.at = "poll"]) /\ UNCHANGED faults

-----------------------------------------------------------------------------
MainStep ==
  \/ MainSend \/ MainWake \/ MainRecv \/ MainDisconnected \/ MainNext \/ MainJoin

NetworkStep(w, i) ==
  \/ OnEstablished(w, i) \/ OnStreamDone(w, i) \/ OnRoom(w, i) \/ OnClosed(w, i)
  \/ OnGoAway(w, i) \/ OnProtocolError(w, i) \/ DialTimeout(w, i)

DriveStep(w) ==
  \/ FinishDial(w) \/ StartDials(w) \/ NextDial(w)
  \/ FinishEcho(w) \/ EchoReturn(w) \/ EchoExhaust(w) \/ EchoDraw(w)
  \/ Redial(w) \/ RedialsDialed(w) \/ RateBegin(w)
  \/ RateTick(w) \/ RateDeadline(w) \/ FinishRate(w) \/ TickNext(w) \/ TickEnd(w)

Next ==
  \/ MainStep
  \/ Ended
  \/ \E w \in Workers : Recv(w) \/ RetryDue(w) \/ DriveStep(w)
  \/ \E w \in Workers, i \in Slots : NetworkStep(w, i)

Spec == Init /\ [][Next]_vars

(* A thread that can go on does; a request on a live connection is answered
   or the connection closes; an attempt to dial ends, by its timer if not
   sooner; a retry comes due. *)
Fairness ==
  /\ WF_vars(MainStep)
  /\ \A w \in Workers : WF_vars(Recv(w)) /\ WF_vars(RetryDue(w)) /\ WF_vars(DriveStep(w))
  /\ \A w \in Workers, i \in Slots : WF_vars(NetworkStep(w, i))

FairSpec == Spec /\ Fairness

-----------------------------------------------------------------------------
(* Properties. *)

Command ==
  [kind : {"Dial", "Warmup", "Echo", "Rate", "Stop"}, count : Nat, concurrency : Nat]

Outcome == [id : Workers, outcome : Phase]
EchoJob == [times : Nat, issued : Nat]

MainState ==
  [bench : {"Dial", "Warmup", "Echo", "Rate", "Stop", "Abort"},
   pc : {"send", "wake", "wait", "join", "done", "fatal"},
   k : Workers, pending : Nat, concs : [Workers -> Nat],
   outcomes : [Workers -> Phase]]

(* Every counter stays a natural number: none of the usize counters of
   engine.rs (active, in_flight, redials, ready) is decremented below zero. *)
TypeOK ==
  /\ worker \in [Workers -> WorkerState]
  /\ rx \in [Workers -> Seq(Command)]
  /\ woken \in [Workers -> BOOLEAN]
  /\ results \in Seq(Outcome)
  /\ job \in EchoJob
  /\ main \in MainState
  /\ faults \in 0..MaxFaults
  /\ drawn \in [Workers -> SUBSET Nat]

(* While BenchEcho runs, each connection of a worker is in exactly one place:
   idle, or busy with one round trip.  in_flight is how many are busy, at most
   the worker's concurrency: so drive_echo neither overtakes it nor ends the
   run with a round trip outstanding, whatever fails, is queued or is being
   dialed again. *)
EchoExact ==
  \A w \in Workers :
    LET s == worker[w] IN
    s.phase.kind = "Echo" =>
      /\ \A i \in Occupied(s) : \E p \in Places(s, i) : Places(s, i) = {p}
      /\ \A i \in Slots \ Occupied(s) : Places(s, i) = {}
      /\ s.phase.in_flight = Cardinality({i \in Slots : RoundTrips(s, i) # {}})
      /\ s.phase.in_flight <= s.phase.slots

(* Once the measured run is over, the successes and failures of all workers
   add up to -en: the draws of the workers from the shared counter lose and
   repeat none, though every worker draws beyond it once. *)
BudgetSpent ==
  main.bench = "Echo" /\ main.pc = "wait" /\ main.pending = 0 =>
    Total([w \in Workers |-> main.outcomes[w].ok + main.outcomes[w].failed], NumWorkers)
    = EchoTimes

(* The numbers drawn so far are shared out among the workers, and each worker
   has one result or one round trip in flight for every number it drew. *)
DrawsPartition ==
  /\ \A v, w \in Workers : v # w => drawn[v] \cap drawn[w] = {}
  /\ UNION {drawn[w] : w \in Workers}
       = 0..((IF job.issued < job.times THEN job.issued ELSE job.times) - 1)
  /\ \A w \in Workers :
       LET p == worker[w].phase IN
       p.kind = "Echo" /\ p.measure => Cardinality(drawn[w]) = p.in_flight + p.ok + p.failed

(* A worker between two benchmarks has nothing of the last one left: no dial,
   no retry, no first request or round trip open or queued.  The next
   benchmark therefore never meets an answer meant for an earlier one. *)
NothingLeftBehind ==
  \A w \in Workers :
    LET s == worker[w] IN
    s.phase.kind = "Idle" /\ s.at = "poll" =>
      /\ s.retries = <<>>
      /\ \A i \in Slots : /\ s.slots[i].dial = NoJob
                           /\ s.slots[i].queued = <<>>
                           /\ s.slots[i].streams["Dial"] = 0
                           /\ s.slots[i].streams["Echo"] = 0

(* The ready counter main reads is the number of connections that are up. *)
ReadyExact ==
  \A w \in Workers : worker[w].ready = Cardinality(InState(worker[w], "ready"))

(* The free list holds each vacant slot below the end of the vector once, and
   nothing else: no two connections are ever dialed into one slot, and no slot
   is lost. *)
FreeExact ==
  \A w \in Workers :
    LET s == worker[w] IN
    /\ IsInjective(s.free)
    /\ Range(s.free) = {i \in 1..s.len : s.slots[i].state = "vacant"}

(* Connections: active counts the dials under way and those waiting to be
   retried, and every connection asked for is still to come, active, or
   counted once as a success or a failure.  A worker with a share of -c has the
   concurrency to dial, though -dc may be smaller than the number of workers
   (main.rs, line 279).  However many dials fail, the vector of slots does not grow
   past the worker's share of -c. *)
DialsExact ==
  \A w \in Workers :
    LET s == worker[w]
        share == SplitEven(NumConns, NumWorkers)[w] IN
    /\ s.len <= share
    /\ s.phase.kind = "Dial" =>
         /\ s.phase.active = s.starts + Len(s.retries) + Cardinality(InState(s, "connecting"))
         /\ s.phase.active <= s.phase.concurrency /\ (share > 0 => s.phase.concurrency > 0)
         /\ s.phase.remaining + s.phase.active + s.phase.ok + s.phase.failed = share

(* The queue of a connection without room never holds more than one request:
   send_request queues it, and its slot is not taken again until it is sent. *)
QueueBound ==
  \A w \in Workers, i \in Slots : Len(worker[w].slots[i].queued) <= 1

(* BenchMultiplex: a connection's in_flight is the number of its requests that
   are open, never more than four batches, and nothing is counted as answered
   that was not counted as sent. *)
RateWindow ==
  \A w \in Workers :
    LET s == worker[w] IN
    /\ \A i \in Slots : /\ s.slots[i].in_flight = s.slots[i].streams["Rate"]
                         /\ s.slots[i].in_flight <= MAX_BATCHES_IN_FLIGHT * Batch
    /\ s.phase.recv_times <= s.phase.answered
    /\ s.phase.answered + Total([i \in Slots |-> s.slots[i].in_flight], MaxSlots)
         <= s.phase.send_times \/ s.phase.kind # "Rate"

(* drive_echo unwraps the slot it took from the idle ones (engine.rs:670): it
   always holds a connection. *)
IdleSlotsOccupied == \A w \in Workers : worker[w].at # "panicked"

(* Only a vacant slot or a broken connection is dialed: try_dial never takes
   down a connection that is up or that is being dialed. *)
DialsOnlyBroken ==
  [][\A w \in Workers, i \in Slots :
       worker'[w].slots[i].state = "connecting" =>
         \/ worker[w].slots[i].state # "ready"
            /\ worker[w].slots[i].state # "connecting"
         \/ UNCHANGED worker[w].slots[i].dial /\ worker[w].slots[i].state = "connecting"]_vars

(* Every benchmark ends, and with it the client. *)
Completes == <>(main.pc \in {"done", "fatal"})

(* "a worker exited" (engine.rs, line 184): a worker that dies is noticed, and
   the client ends.  It holds for one worker only: recv_timeout reports a
   disconnected channel once every worker's sender is gone, and those that live
   keep theirs. *)
DeathNoticed ==
  (\E w \in Workers : worker[w].at = "panicked") ~> (main.pc = "fatal")

(* The redials before BenchMultiplex end, with or without a connection. *)
RatePrepEnds ==
  \A w \in Workers : (worker[w].phase.kind = "RatePrep") ~> (worker[w].phase.kind # "RatePrep")
=============================================================================
