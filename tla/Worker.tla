------------------------------- MODULE Worker -------------------------------
(***************************************************************************)
(* One worker thread of the load generator (benchcli-rust/src/engine.rs).  *)
(*                                                                         *)
(* A worker is single threaded, so each of its methods is an operator from *)
(* the worker's state s, and the outcomes its calls into the system meet,  *)
(* to the state it leaves.  The module Engine takes these operators as the *)
(* steps of its processes.                                                 *)
(*                                                                         *)
(* Outcomes are chosen by the environment:                                 *)
(*   r, of try_dial:  "bind", "register", "send" name the call that fails, *)
(*                    "ok" is a connection that is now handshaking;        *)
(*   r, of try_send:  "ok", "blocked" (no room yet) or "failed".           *)
(* Time is abstract: an armed timer may fire at any moment.  Payloads,     *)
(* latencies and error texts are left out.                                 *)
(***************************************************************************)
EXTENDS Integers, Sequences, FiniteSets, Functions

CONSTANTS
  MaxSlots,     \* how far the vector of slots may grow (a bound of the model)
  DialRetries   \* cfg.dial_retries, at least 1

ASSUME WorkerAssumption ==
  /\ MaxSlots \in Nat \ {0}
  /\ DialRetries \in Nat \ {0}

Slots == 1..MaxSlots
Kinds == {"Dial", "Echo", "Rate"}
Purposes == {"New", "RedialEcho", "RedialRate"}

(* DialJob; slot 0 is None, and NoJob is a connection's dial: None. *)
Job == [purpose : Purposes, attempt : 1..DialRetries, slot : 0..MaxSlots]
NoJob == [purpose |-> "none", attempt |-> 0, slot |-> 0]

NoStreams == [k \in Kinds |-> 0]

(* A slot that holds None.  The fields are those of Conn: closing says that
   q.close was called here and quiche has not yet reported is_closed;
   streams counts the open requests of each kind. *)
NoConn ==
  [state |-> "vacant", dial |-> NoJob, h3 |-> FALSE, closing |-> FALSE,
   streams |-> NoStreams, queued |-> <<>>, in_flight |-> 0, goaway |-> FALSE]

NewConn(job) == [NoConn EXCEPT !.state = "connecting", !.dial = job]

(* A broken connection is only ever dialed again, into a Conn of its own, so
   nothing reads what its QUIC state was. *)
BrokenConn == [NoConn EXCEPT !.state = "broken"]

Conn ==
  [state : {"vacant", "connecting", "ready", "broken"},
   dial : Job \cup {NoJob}, h3 : BOOLEAN, closing : BOOLEAN,
   streams : [Kinds -> Nat], queued : Seq(Kinds), in_flight : Nat,
   goaway : BOOLEAN]

(* Phase.  The counters of every benchmark are kept side by side and are
   zero outside their phase; ok and failed are the Latencies. *)
Idle ==
  [kind |-> "Idle", remaining |-> 0, active |-> 0, concurrency |-> 0,
   slots |-> 0, in_flight |-> 0, idle |-> <<>>, exhausted |-> FALSE,
   measure |-> FALSE, redials |-> 0, conns |-> {}, ticks |-> 0,
   grace |-> FALSE, send_times |-> 0, answered |-> 0, recv_times |-> 0,
   ok |-> 0, failed |-> 0]

(* Where the event loop is: "poll" between handlers; "dialing", "redialing",
   "echoing" and "ticking" inside the loops of drive, start, drive_echo and
   rate_tick, whose remaining iterations are in todo. *)
NewWorker ==
  [slots |-> [i \in Slots |-> NoConn], len |-> 0, free |-> <<>>,
   retries |-> <<>>, ready |-> 0, phase |-> Idle, at |-> "poll",
   starts |-> 0, todo |-> {}, broken |-> 0]

InState(s, st) == {i \in Slots : s.slots[i].state = st}
Occupied(s) == Slots \ InState(s, "vacant")

-----------------------------------------------------------------------------
(* The ends of a round trip and of a dial attempt. *)

(* Slip of echo_done: a failure is not counted. *)
EchoDoneDropsFailures(s, idx, ok) ==
  IF s.phase.kind # "Echo" THEN s
  ELSE [s EXCEPT !.phase.in_flight = @ - 1,
                 !.phase.idle = Append(@, idx),
                 !.phase.ok = IF s.phase.measure /\ ok THEN @ + 1 ELSE @]

(* echo_done: the slot goes back to the idle ones. *)
EchoDone(s, idx, ok) ==
  IF s.phase.kind # "Echo" THEN s
  ELSE [s EXCEPT !.phase.in_flight = @ - 1,
                 !.phase.idle = Append(@, idx),
                 !.phase.ok = IF s.phase.measure /\ ok THEN @ + 1 ELSE @,
                 !.phase.failed = IF s.phase.measure /\ ~ok THEN @ + 1 ELSE @]

(* Slip of dial_failed_job: a dial that will be retried already leaves active. *)
DialFailedJobLeaves(s, job) ==
  IF job.attempt < DialRetries
  THEN [s EXCEPT !.retries = Append(@, [job EXCEPT !.attempt = @ + 1]),
                 !.phase.active = IF s.phase.kind = "Dial" THEN @ - 1 ELSE @]
  ELSE CASE job.purpose = "New" /\ s.phase.kind = "Dial" ->
              [s EXCEPT !.phase.active = @ - 1, !.phase.failed = @ + 1]
         [] job.purpose = "RedialEcho" /\ job.slot # 0 ->
              EchoDone(s, job.slot, FALSE)
         [] job.purpose = "RedialRate" /\ s.phase.kind = "RatePrep" ->
              [s EXCEPT !.phase.redials = @ - 1]
         [] OTHER -> s

(* dial_failed_job: a retry later, or the end of what the dial was for. *)
DialFailedJob(s, job) ==
  IF job.attempt < DialRetries
  THEN [s EXCEPT !.retries = Append(@, [job EXCEPT !.attempt = @ + 1])]
  ELSE CASE job.purpose = "New" /\ s.phase.kind = "Dial" ->
              [s EXCEPT !.phase.active = @ - 1, !.phase.failed = @ + 1]
         [] job.purpose = "RedialEcho" /\ job.slot # 0 ->
              EchoDone(s, job.slot, FALSE)
         [] job.purpose = "RedialRate" /\ s.phase.kind = "RatePrep" ->
              [s EXCEPT !.phase.redials = @ - 1]
         [] OTHER -> s

(* dial_failed: a new connection leaves its slot, a redialed one is broken. *)
DialFailed(s, idx) ==
  LET job == s.slots[idx].dial
  IN  CASE job = NoJob -> s
        [] job.purpose = "New" ->
             DialFailedJob([s EXCEPT !.slots[idx] = NoConn,
                                     !.free = Append(@, idx)],
                           [job EXCEPT !.slot = 0])
        [] OTHER ->
             DialFailedJob([s EXCEPT !.slots[idx] = BrokenConn], job)

-----------------------------------------------------------------------------
(* Requests. *)

(* try_send: a failure closes the connection but leaves its state alone. *)
TrySend(s, idx, kind, r) ==
  CASE r = "ok" -> [s EXCEPT !.slots[idx].streams[kind] = @ + 1]
    [] r = "failed" /\ s.slots[idx].h3 -> [s EXCEPT !.slots[idx].closing = TRUE]
    [] OTHER -> s

(* send_request queues behind what is queued, and queues what is blocked
   unless it is BenchMultiplex's. *)
MustQueue(s, idx, kind, r) ==
  kind # "Rate" /\ (s.slots[idx].queued # <<>> \/ r = "blocked")

SendRequest(s, idx, kind, r) ==
  IF MustQueue(s, idx, kind, r)
  THEN [s EXCEPT !.slots[idx].queued = Append(@, kind)]
  ELSE TrySend(s, idx, kind, r)

SendRequestErr(s, idx, kind, r) == ~MustQueue(s, idx, kind, r) /\ r # "ok"

(* A round trip sent on a connection that is up, as drive_echo and dial_ok
   send it: what cannot be sent is done, as a failure. *)
SendEcho(s, idx, r) ==
  LET t == SendRequest(s, idx, "Echo", r)
  IN  IF SendRequestErr(s, idx, "Echo", r) THEN EchoDone(t, idx, FALSE) ELSE t

(* dial_ok: the first request was answered. *)
DialOk(s, idx, r) ==
  LET job == s.slots[idx].dial
      t == [s EXCEPT !.slots[idx].state = "ready",
                     !.slots[idx].dial = NoJob,
                     !.ready = @ + 1]
  IN  CASE job = NoJob -> s
        [] job.purpose = "New" /\ s.phase.kind = "Dial" ->
             [t EXCEPT !.phase.active = @ - 1, !.phase.ok = @ + 1]
        [] job.purpose = "RedialEcho" /\ s.phase.kind = "Echo" ->
             SendEcho(t, idx, r)
        [] job.purpose = "RedialRate" /\ s.phase.kind = "RatePrep" ->
             [t EXCEPT !.phase.redials = @ - 1]
        [] OTHER -> t

(* response; res is "ok", "bad" (a status or a body that is not the one
   asked for) or "err" (the stream was reset or the connection closed). *)
Response(s, idx, kind, res, r) ==
  CASE kind = "Dial" -> IF res = "ok" THEN DialOk(s, idx, r) ELSE DialFailed(s, idx)
    [] kind = "Echo" -> EchoDone(s, idx, res = "ok")
    [] kind = "Rate" ->
         LET t == [s EXCEPT !.slots[idx].in_flight = IF @ > 0 THEN @ - 1 ELSE 0]
         IN  IF s.phase.kind # "Rate" THEN t
             ELSE [t EXCEPT !.phase.answered = IF res = "err" THEN @ ELSE @ + 1,
                            !.phase.recv_times = IF res = "ok" THEN @ + 1 ELSE @]

(* send_queued, for the one request that a queue ever holds (QueueBound). *)
SendQueued(s, idx, r) ==
  LET c == s.slots[idx]
      t == [s EXCEPT !.slots[idx].queued = Tail(@)]
  IN  IF c.queued = <<>> \/ r = "blocked" THEN s
      ELSE LET u == TrySend(t, idx, Head(c.queued), r)
           IN  IF r = "ok" THEN u
               ELSE Response(u, idx, Head(c.queued), "err", r)

-----------------------------------------------------------------------------
(* Dialing. *)

(* alloc_slot: the last freed slot, or a new one at the end. *)
AllocIdx(s) == IF s.free # <<>> THEN s.free[Len(s.free)] ELSE s.len + 1

AllocSlot(s) ==
  IF s.free # <<>> THEN [s EXCEPT !.free = SubSeq(@, 1, Len(@) - 1)]
  ELSE [s EXCEPT !.len = @ + 1]

(* What try_dial does to the slots before it registers the socket. *)
TakeSlot(s, job) ==
  IF job.slot = 0 THEN AllocSlot(s)
  ELSE [s EXCEPT !.slots[job.slot] = NoConn,
                 !.ready = IF s.slots[job.slot].state = "ready" THEN @ - 1 ELSE @]

(* dial, with try_dial: an error before the slot is taken, one after, one of
   the first flush (which runs process on the new connection), or none. *)
Dial(s, job, r) ==
  LET idx == IF job.slot = 0 THEN AllocIdx(s) ELSE job.slot
      t == TakeSlot(s, job)
      u == [t EXCEPT !.slots[idx] = NewConn([job EXCEPT !.slot = idx])]
  IN  CASE r = "bind" -> DialFailedJob(s, job)
        [] r = "register" -> DialFailedJob(t, job)
        [] r = "send" -> DialFailed(u, idx)
        [] r = "ok" -> u

FirstDial(purpose, slot) == [purpose |-> purpose, attempt |-> 1, slot |-> slot]

(* fire_retries, for the retry that is due first. *)
FireRetry(s, r) == Dial([s EXCEPT !.retries = Tail(@)], Head(s.retries), r)

-----------------------------------------------------------------------------
(* What process makes of the events of one connection, each with the
   send_queued that ends it; rq is that call's outcome. *)

(* The handshake completed: the first request goes out. *)
Established(s, idx, r, rq) ==
  LET t == [s EXCEPT !.slots[idx].h3 = TRUE]
      u == SendRequest(t, idx, "Dial", r)
  IN  SendQueued(IF SendRequestErr(t, idx, "Dial", r) THEN DialFailed(u, idx) ELSE u,
                 idx, rq)

(* A stream finished or was reset. *)
StreamDone(s, idx, kind, res, r, rq) ==
  SendQueued(Response([s EXCEPT !.slots[idx].streams[kind] = @ - 1], idx, kind, res, r),
             idx, rq)

(* Slips of the Closed event: it is answered as a failed round trip though none
   was open; the connection stays in the ready counter. *)
ClosedAlwaysDone(s, idx) ==
  LET c == s.slots[idx]
      t == EchoDone(s, idx, FALSE)
      left == c.in_flight - c.streams["Rate"]
  IN  CASE c.state = "connecting" -> DialFailed(s, idx)
        [] c.state = "ready" ->
             [t EXCEPT !.slots[idx] =
                         [BrokenConn EXCEPT !.in_flight = IF left > 0 THEN left ELSE 0],
                       !.ready = @ - 1]
        [] OTHER -> s

ClosedStaysReady(s, idx) ==
  LET c == s.slots[idx]
      t == IF c.streams["Echo"] + Len(c.queued) > 0 THEN EchoDone(s, idx, FALSE) ELSE s
  IN  CASE c.state = "connecting" -> DialFailed(s, idx)
        [] c.state = "ready" -> [t EXCEPT !.slots[idx] = BrokenConn]
        [] OTHER -> s

(* The connection closed: fail_streams answers what is queued or open with an
   error, then the Closed event breaks the connection. *)
Closed(s, idx) ==
  LET c == s.slots[idx]
      t == IF c.streams["Echo"] + Len(c.queued) > 0 THEN EchoDone(s, idx, FALSE) ELSE s
      left == c.in_flight - c.streams["Rate"]
  IN  CASE c.state = "connecting" -> DialFailed(s, idx)
        [] c.state = "ready" ->
             [t EXCEPT !.slots[idx] =
                         [BrokenConn EXCEPT !.in_flight = IF left > 0 THEN left ELSE 0],
                       !.ready = @ - 1]
        [] OTHER -> s

-----------------------------------------------------------------------------
(* Commands and the benchmarks' own steps. *)

StartDial(s, count, concurrency) ==
  [s EXCEPT !.phase = [Idle EXCEPT !.kind = "Dial", !.remaining = count,
                                   !.concurrency = concurrency]]

(* idle lists the slots of S in order, as start collects the occupied ones. *)
Lists(idle, S) ==
  /\ Range(idle) = S
  /\ \A m, n \in DOMAIN idle : m < n => idle[m] < idle[n]

StartEcho(s, idle, concurrency, measure) ==
  LET slots == IF concurrency < Len(idle) THEN concurrency ELSE Len(idle)
  IN  [s EXCEPT !.phase = [Idle EXCEPT !.kind = "Echo", !.slots = slots,
                                       !.idle = idle, !.exhausted = (slots = 0),
                                       !.measure = measure]]

(* Rate: the broken connections are dialed first, and only then is the phase
   RatePrep; the dials are the loop "redialing". *)
StartRate(s) ==
  LET broken == InState(s, "broken")
  IN  [s EXCEPT !.at = "redialing", !.todo = broken, !.broken = Cardinality(broken)]

EndRedials(s) ==
  [s EXCEPT !.at = "poll", !.broken = 0,
            !.phase = [Idle EXCEPT !.kind = "RatePrep", !.redials = s.broken]]

(* drive, Dial: count the dials this pass starts, then make them. *)
Starts(s) ==
  LET room == s.phase.concurrency - s.phase.active
  IN  IF s.phase.remaining < room THEN s.phase.remaining ELSE room

DriveDial(s) ==
  [s EXCEPT !.at = "dialing", !.starts = Starts(s),
            !.phase.remaining = @ - Starts(s), !.phase.active = @ + Starts(s)]

DialNext(s, r) ==
  Dial([s EXCEPT !.starts = @ - 1, !.at = IF s.starts = 1 THEN "poll" ELSE @],
       FirstDial("New", 0), r)

(* drive_echo once a number below times was drawn: the first idle connection
   is dialed again if it is broken, and sent a request otherwise. *)
EchoTake(s) ==
  [s EXCEPT !.at = "echoing", !.phase.idle = Tail(@), !.phase.in_flight = @ + 1]

(* Slip of drive_echo: a connection that said GOAWAY is dialed like a broken
   one, while it is up. *)
EchoIssueRedials(s, rd, rs) ==
  LET idx == Head(s.phase.idle)
  IN  CASE s.slots[idx].state = "vacant" -> [EchoTake(s) EXCEPT !.at = "panicked"]
        [] s.slots[idx].state = "broken" \/ s.slots[idx].goaway ->
             Dial(EchoTake(s), FirstDial("RedialEcho", idx), rd)
        [] OTHER -> SendEcho(EchoTake(s), idx, rs)

EchoIssue(s, rd, rs) ==
  LET idx == Head(s.phase.idle)
  IN  CASE s.slots[idx].state = "vacant" -> [EchoTake(s) EXCEPT !.at = "panicked"]
        [] s.slots[idx].state = "broken" ->
             Dial(EchoTake(s), FirstDial("RedialEcho", idx), rd)
        [] OTHER -> SendEcho(EchoTake(s), idx, rs)

(* drive, RatePrep: every redial ended. *)
StartRateRun(s) ==
  LET conns == InState(s, "ready")
  IN  [s EXCEPT !.phase = [Idle EXCEPT !.kind = "Rate", !.conns = conns],
                !.slots = [i \in Slots |-> IF i \in conns
                                           THEN [s.slots[i] EXCEPT !.in_flight = 0]
                                           ELSE s.slots[i]]]

(* Slip of rate_tick: the batch to be sent is not counted against the limit. *)
MayTickLate(s, idx, batch, limit) ==
  /\ s.slots[idx].state = "ready"
  /\ ~s.slots[idx].goaway
  /\ s.slots[idx].in_flight <= limit

(* rate_tick for one connection: n of the batch go out; fewer than batch when
   a send is refused (r), which ends the connection's batch. *)
MayTick(s, idx, batch, limit) ==
  /\ s.slots[idx].state = "ready"
  /\ ~s.slots[idx].goaway
  /\ s.slots[idx].in_flight + batch <= limit

TickConn(s, idx, n, r) ==
  LET t == [s EXCEPT !.slots[idx].streams["Rate"] = @ + n,
                     !.slots[idx].in_flight = @ + n,
                     !.phase.send_times = @ + n]
  IN  IF r = "ok" THEN t ELSE TrySend(t, idx, "Rate", r)

(* finish, whose outcome Engine sends. *)
Finish(s) == [s EXCEPT !.phase = Idle, !.at = "poll"]

(* close_all, and the end of the thread. *)
CloseAll(s) ==
  [s EXCEPT !.at = "exited",
            !.slots = [i \in Slots |-> IF s.slots[i].state = "vacant" THEN NoConn
                                       ELSE [s.slots[i] EXCEPT !.closing = TRUE]]]

-----------------------------------------------------------------------------
(* The types of a worker's state. *)

Phase ==
  [kind : {"Idle", "Dial", "Echo", "RatePrep", "Rate"},
   remaining : Nat, active : Nat, concurrency : Nat,
   slots : Nat, in_flight : Nat, idle : Seq(Slots), exhausted : BOOLEAN,
   measure : BOOLEAN, redials : Nat, conns : SUBSET Slots, ticks : Nat,
   grace : BOOLEAN, send_times : Nat, answered : Nat, recv_times : Nat,
   ok : Nat, failed : Nat]

WorkerState ==
  [slots : [Slots -> Conn], len : 0..MaxSlots, free : Seq(Slots), retries : Seq(Job),
   ready : Nat, phase : Phase, starts : Nat, todo : SUBSET Slots, broken : Nat,
   at : {"poll", "dialing", "redialing", "echoing", "ticking", "panicked", "exited"}]

-----------------------------------------------------------------------------
(* The round trips that slot i of worker state s is busy with, each named by
   where it is: an open request, a queued one, or a dial or a retry that it
   waits for. *)
RoundTrips(s, i) ==
  {<<"stream", n>> : n \in 1..s.slots[i].streams["Echo"]}
  \cup {<<"queued", n>> : n \in {m \in DOMAIN s.slots[i].queued :
                                    s.slots[i].queued[m] = "Echo"}}
  \cup {<<"dial", n>> : n \in {m \in {0} : s.slots[i].dial.purpose = "RedialEcho"}}
  \cup {<<"retry", n>> : n \in {m \in DOMAIN s.retries :
                                   /\ s.retries[m].purpose = "RedialEcho"
                                   /\ s.retries[m].slot = i}}

Places(s, i) ==
  RoundTrips(s, i) \cup {<<"idle", n>> : n \in {m \in DOMAIN s.phase.idle :
                                                   s.phase.idle[m] = i}}
=============================================================================
