------------------------------- MODULE Ledger -------------------------------
(***************************************************************************)
(* The books of the load generator: what the counters of a worker's        *)
(* benchmark, the slots of its connections, the shared counter of round    *)
(* trips and the outcomes on their way to main add up to, between any two  *)
(* steps of the threads.                                                   *)
(***************************************************************************)
EXTENDS EngineRounds, WorkerPages

(* A worker's share of the connections of -c. *)
Share(w) == SplitEven(NumConns, NumWorkers)[w]

(* Worker w has not begun on the current benchmark. *)
NotBegun(w) == ToAsk(w) \/ rx[w] # <<>>

(* Worker w is through with the current benchmark. *)
Through(w) == Resting(w) /\ ~NotBegun(w)

(* What main's benchmark is for worker w. *)
Account(w) ==
  [bench |-> main.bench, share |-> Share(w), conc |-> main.concs[w], drawn |-> drawn[w],
   job |-> job, most |-> MAX_BATCHES_IN_FLIGHT * Batch]

-----------------------------------------------------------------------------
(* The page of every worker. *)
Pages ==
  \A w \in Workers :
    Page(worker[w], Account(w)) /\ (NotBegun(w) => Fresh(worker[w], main.bench))

(* What is asked of a worker is main's current benchmark. *)
AskedInv == \A w \in Workers : rx[w] # <<>> => Asks(Head(rx[w]), Account(w))

(* The numbers drawn are told apart by worker. *)
DrawBooks ==
  /\ \A v, w \in Workers : v # w => drawn[v] \cap drawn[w] = {}
  /\ UNION {drawn[w] : w \in Workers}
       = 0..((IF job.issued < job.times THEN job.issued ELSE job.times) - 1)
  /\ \A w \in Workers : NotBegun(w) => drawn[w] = {}

(* What a worker drew is what it reports, and what main adds up. *)
ReportBooks ==
  main.bench = "Echo" =>
    /\ \A n \in 1..Len(results) :
         results[n].outcome.ok + results[n].outcome.failed = Cardinality(drawn[results[n].id])
    /\ \A w \in Workers : Through(w) /\ ~Reported(w) =>
         main.outcomes[w].ok + main.outcomes[w].failed = Cardinality(drawn[w])

(* Some worker has a part in BenchEcho, and one that has is through with it only
   once the numbers below times are all drawn. *)
StaffBooks ==
  /\ main.bench \in {"Warmup", "Echo"} => \E w \in Workers : Staffed(worker[w], main.concs[w])
  /\ main.bench = "Echo" =>
       /\ job.times = EchoTimes
       /\ \A w \in Workers :
            Staffed(worker[w], main.concs[w]) /\ Through(w) => job.issued >= job.times

(* The counters of a worker, what it drew, what it reports and what main adds
   up agree. *)
Books == Pages /\ AskedInv /\ DrawBooks /\ ReportBooks /\ StaffBooks

(* The invariant of the load generator: engine.rs keeps each job, slot and
   outcome in one place (IInv), main keeps the workers in step to the end of
   Engine::stop (StopInv), and their counters add up (Books). *)
EInv == IInv /\ StopInv /\ Books
=============================================================================
