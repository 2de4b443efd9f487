---------------------------- MODULE WorkerSteps -----------------------------
(***************************************************************************)
(* The steps of one worker, whatever thread it runs in: what its handlers  *)
(* make of its state, and what they promise the threads around it.  The    *)
(* actions of Engine are these steps with the channels, the shared counter *)
(* and the environment's faults.                                           *)
(***************************************************************************)
EXTENDS WorkerInvariant

SentAs == {"ok", "blocked", "failed"}
DialedAs == {"ok", "bind", "send"}

(* A worker without a benchmark, waiting for a command. *)
Rests(s) == s.phase.kind = "Idle" /\ s.at = "poll"

(* process_conn and fire_timers: what the network and the timers make of
   connection i. *)
NetStep(s, t, i) ==
  \/ /\ s.slots[i].state = "connecting" /\ ~s.slots[i].h3
     /\ \E r, rq \in SentAs : t = Established(s, i, r, rq)
  \/ \E k \in Kinds, res \in {"ok", "bad", "err"}, r, rq \in SentAs :
       s.slots[i].streams[k] > 0 /\ t = StreamDone(s, i, k, res, r, rq)
  \/ s.slots[i].queued # <<>> /\ \E rq \in {"ok", "failed"} : t = SendQueued(s, i, rq)
  \/ s.slots[i].state \in {"connecting", "ready"} /\ t = Closed(s, i)
  \/ s.slots[i].h3 /\ t = [s EXCEPT !.slots[i].goaway = TRUE]
  \/ s.slots[i].h3 /\ t = [s EXCEPT !.slots[i].closing = TRUE]
  \/ s.slots[i].state = "connecting" /\ t = DialFailed(s, i)

(* A dial: one that is retried, one of drive_dial, one of start. *)
DialStep(s, t) ==
  \E r \in DialedAs :
    \/ /\ s.at = "poll" /\ s.retries # <<>>
       /\ Head(s.retries).slot = 0 => AllocIdx(s) <= MaxSlots
       /\ t = FireRetry(s, r)
    \/ s.at = "dialing" /\ AllocIdx(s) <= MaxSlots /\ t = DialNext(s, r)
    \/ /\ s.at = "redialing"
       /\ \E i \in s.todo : t = Dial([s EXCEPT !.todo = @ \ {i}], FirstDial("RedialRate", i), r)

(* drive: the next part of a benchmark, or the end of a loop. *)
TurnStep(s, t) ==
  \/ s.at = "poll" /\ s.phase.kind = "Dial" /\ Starts(s) > 0 /\ t = DriveDial(s)
  \/ s.at = "redialing" /\ s.todo = {} /\ t = EndRedials(s)
  \/ s.at = "poll" /\ s.phase.kind = "RatePrep" /\ s.phase.redials = 0 /\ t = StartRateRun(s)
  \/ s.at \in {"echoing", "ticking"} /\ t = [s EXCEPT !.at = "poll"]
  \/ /\ s.at = "poll" /\ s.phase.kind = "Rate"
     /\ t = [s EXCEPT !.at = "ticking", !.todo = s.phase.conns, !.phase.ticks = @ + 1]
  \/ s.at = "poll" /\ s.phase.kind = "Rate" /\ t = [s EXCEPT !.phase.grace = TRUE]

(* rate_tick: a connection is skipped, or sent a batch that leaves it with at
   most most requests. *)
TickStep(s, t, most) ==
  /\ s.at = "ticking"
  /\ \E i \in s.todo :
       LET u == [s EXCEPT !.todo = @ \ {i}] IN
       \/ t = u
       \/ \E n \in Nat, r \in SentAs :
            /\ s.slots[i].state = "ready" /\ s.slots[i].in_flight + n <= most
            /\ t = TickConn(u, i, n, r)

Handles(s, t, most) ==
  \/ \E i \in Slots : NetStep(s, t, i)
  \/ DialStep(s, t) \/ TurnStep(s, t) \/ TickStep(s, t, most)

(* drive_echo, with a number of the shared counter: a round trip is issued, or
   there are no more. *)
Ready(s) ==
  /\ s.phase.kind = "Echo" /\ s.at \in {"poll", "echoing"} /\ s.phase.idle # <<>>
  /\ ~s.phase.exhausted /\ s.phase.in_flight < s.phase.slots
Issues(s, t) == Ready(s) /\ \E rd \in DialedAs, rs \in SentAs : t = EchoIssue(s, rd, rs)
Exhausts(s, t) == Ready(s) /\ t = [s EXCEPT !.phase.exhausted = TRUE, !.at = "echoing"]

(* finish is called. *)
Finishes(s) ==
  /\ s.at \in {"poll", "echoing"}
  /\ \/ s.phase.kind = "Dial" /\ s.phase.remaining = 0 /\ s.phase.active = 0
     \/ s.phase.kind = "Echo" /\ s.phase.exhausted /\ s.phase.in_flight = 0
     \/ s.phase.kind = "Rate" /\ s.phase.grace

(* start, and Stop, for the command cmd. *)
Begins(s, t, cmd) ==
  /\ Rests(s)
  /\ \/ cmd.kind = "Dial" /\ t = StartDial(s, cmd.count, cmd.concurrency)
     \/ /\ cmd.kind \in {"Warmup", "Echo"}
        /\ \E idle \in [1..Cardinality(Occupied(s)) -> Occupied(s)] :
             Lists(idle, Occupied(s)) /\ t = StartEcho(s, idle, cmd.concurrency, cmd.kind = "Echo")
     \/ cmd.kind = "Rate" /\ t = StartRate(s)
     \/ cmd.kind = "Stop" /\ t = CloseAll(s)

-----------------------------------------------------------------------------
(* What a worker promises: every step keeps its invariant; a command ends its
   rest, finish begins it, and no other step does either. *)
HandlesKeeps ==
  \A s, t, most : WorkerInv(s) /\ Handles(s, t, most) => WorkerInv(t) /\ (Rests(t) <=> Rests(s))
IssuesKeeps ==
  \A s, t : WorkerInv(s) /\ (Issues(s, t) \/ Exhausts(s, t)) => WorkerInv(t) /\ ~Rests(t)
FinishesKeeps ==
  \A s : WorkerInv(s) /\ Finishes(s) => WorkerInv(Finish(s)) /\ Rests(Finish(s))
BeginsKeeps ==
  \A s, t, cmd : cmd.count \in Nat /\ cmd.concurrency \in Nat /\ WorkerInv(s) /\ Begins(s, t, cmd)
                   => WorkerInv(t) /\ ~Rests(t)
NewKeeps == WorkerInv(NewWorker) /\ Rests(NewWorker)

(* During BenchEcho a connection is in one place: it carries one round trip, or
   it is in the list of idle ones, once. *)
OneInPlace ==
  \A s : WorkerInv(s) /\ s.phase.kind = "Echo" => \A i \in Slots :
    /\ RoundTrips(s, i) # {} <=> Busy(s, i)
    /\ s.slots[i].state = "vacant" => Places(s, i) = {}
    /\ s.slots[i].state # "vacant" => \E p \in Places(s, i) : Places(s, i) = {p}

WorkerKeeps ==
  HandlesKeeps /\ IssuesKeeps /\ FinishesKeeps /\ BeginsKeeps /\ NewKeeps /\ OneInPlace
=============================================================================
