---------------------------- MODULE WorkerPages -----------------------------
(***************************************************************************)
(* The page of one worker in the books of the load generator: what the     *)
(* counters of its benchmark and the slots of its connections add up to    *)
(* between any two of its steps, and what the steps promise of it.         *)
(***************************************************************************)
EXTENDS WorkerSteps, Split

(* The connections that were up once: alloc_slot took their slot for good. *)
Made(s) == InState(s, "ready") \cup InState(s, "broken")

(* The requests of BenchMultiplex that are open, over all connections. *)
InFlight(s) == Total([i \in Slots |-> s.slots[i].in_flight], MaxSlots)

(* A worker in state s, which main gave the concurrency c, has a part in
   BenchEcho: it has connections, and some of the concurrency. *)
Staffed(s, c) == c > 0 /\ Occupied(s) # {}

-----------------------------------------------------------------------------
(* The page of a worker in state s, in main's benchmark b. *)

(* It carries out main's benchmark. *)
BenchPage(s, b) ==
  /\ s.phase.kind = "Dial" => b = "Dial"
  /\ s.phase.kind = "Echo" => b = IF s.phase.measure THEN "Echo" ELSE "Warmup"
  /\ s.phase.kind = "Rate" \/ Redialing(s) => b = "Rate"

(* The dials to come, under way and done make up its share of -c, and a
   connection that was up was counted. *)
DialPage(s, share) ==
  /\ s.len <= share
  /\ s.phase.kind = "Dial" =>
       /\ s.phase.active <= s.phase.concurrency /\ (share > 0 => s.phase.concurrency > 0)
       /\ s.phase.remaining + s.phase.active + s.phase.ok + s.phase.failed = share
       /\ Cardinality(Made(s)) <= s.phase.ok

(* What it drew is what it has in flight or has counted; with a part in the job
   it has a slot for a round trip, and stops only when all is drawn. *)
EchoPage(s, a) ==
  s.phase.kind = "Echo" =>
    /\ s.phase.measure => Cardinality(a.drawn) = s.phase.in_flight + s.phase.ok + s.phase.failed
    /\ Staffed(s, a.conc) =>
         s.phase.slots > 0 /\ (s.phase.exhausted => a.job.issued >= a.job.times)

(* No request of BenchMultiplex is open. *)
NoneOpen(s) == \A i \in Slots : s.slots[i].in_flight = 0

(* The requests of BenchMultiplex: none before it, at most so many on a
   connection, and what is answered was sent. *)
RatePage(s, a) ==
  /\ \A i \in Slots : /\ s.slots[i].in_flight = s.slots[i].streams["Rate"]
                       /\ s.slots[i].in_flight <= a.most
  /\ a.bench \in {"Dial", "Warmup", "Echo"} \/ Redialing(s) => NoneOpen(s)
  /\ s.phase.recv_times <= s.phase.answered
  /\ s.phase.kind = "Rate" => s.phase.answered + InFlight(s) <= s.phase.send_times

(* The page agrees with the account a that main has of the worker: the
   benchmark (bench), the worker's share of -c (share) and of the concurrency
   (conc), the numbers it drew (drawn) from the job of all workers (job), and the
   requests a connection may carry (most). *)
Page(s, a) ==
  BenchPage(s, a.bench) /\ DialPage(s, a.share) /\ EchoPage(s, a) /\ RatePage(s, a)

(* Before it begins. *)
Fresh(s, b) == (b = "Dial" => s.len = 0) /\ (b = "Rate" => NoneOpen(s))

-----------------------------------------------------------------------------
(* What a worker promises of its page. *)

(* A connection that is being dialed after the step was being dialed before it,
   by the same attempt. *)
NoNewDial(b, c) == c.state = "connecting" => b.state = "connecting" /\ c.dial = b.dial

(* A step from s to t dials only into a vacant slot or a broken connection. *)
DialsVacant(s, t) ==
  \A i \in Slots : NoNewDial(s.slots[i], t.slots[i]) \/ s.slots[i].state \in {"vacant", "broken"}

(* It keeps its connections in BenchEcho, and takes down none that is up to
   dial it. *)
Orderly(s, t, b) ==
  /\ b \in {"Warmup", "Echo"} => Occupied(t) = Occupied(s)
  /\ DialsVacant(s, t)

(* A worker in state s with the account a. *)
Held(s, a) == WorkerInv(s) /\ a.share \in Nat /\ a.most \in Nat /\ Page(s, a)

Kept(s, t, a) ==
  /\ Page(t, a) /\ Orderly(s, t, a.bench)
  /\ Rests(s) /\ Fresh(s, a.bench) => Fresh(t, a.bench)

PageHandles == \A s, t, a : Held(s, a) /\ Handles(s, t, a.most) => Kept(s, t, a)

(* The account afterwards differs in what was drawn. *)
SameTerms(a, e) ==
  e.bench = a.bench /\ e.share = a.share /\ e.conc = a.conc /\ e.most = a.most

PageIssues ==
  \A s, t, a, e :
    /\ Held(s, a) /\ Issues(s, t) /\ SameTerms(a, e)
    /\ Cardinality(a.drawn) \in Nat /\ Cardinality(e.drawn) = Cardinality(a.drawn) + 1
    /\ a.job.issued >= a.job.times => e.job.issued >= e.job.times
    => Page(t, e) /\ Orderly(s, t, a.bench) /\ t.phase.kind = "Echo"

PageExhausts ==
  \A s, t, a, e :
    /\ Held(s, a) /\ Exhausts(s, t) /\ SameTerms(a, e)
    /\ e.drawn = a.drawn /\ e.job.issued >= e.job.times
    => Page(t, e) /\ Orderly(s, t, a.bench) /\ t.phase.kind = "Echo"

PageFinishes ==
  \A s, a : Held(s, a) => Page(Finish(s), a) /\ Finish(s).slots = s.slots

(* The command is that of main's benchmark. *)
Asks(cmd, a) ==
  /\ cmd.kind = IF a.bench \in {"Stop", "Abort"} THEN "Stop" ELSE a.bench
  /\ a.bench = "Dial" => cmd.count = a.share /\ (a.share > 0 => cmd.concurrency > 0)
  /\ a.bench \in {"Warmup", "Echo"} => cmd.concurrency = a.conc

PageBegins ==
  \A s, t, a, cmd :
    /\ Held(s, a) /\ Fresh(s, a.bench) /\ Begins(s, t, cmd)
    /\ Asks(cmd, a) /\ cmd.concurrency \in Nat /\ a.drawn = {}
    => Page(t, a) /\ Orderly(s, t, a.bench)

PageNew ==
  \A a : a.share \in Nat /\ a.most \in Nat /\ a.bench = "Dial" =>
    Page(NewWorker, a) /\ Fresh(NewWorker, a.bench)

PageKeeps ==
  PageHandles /\ PageIssues /\ PageExhausts /\ PageFinishes /\ PageBegins /\ PageNew
=============================================================================
