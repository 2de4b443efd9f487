----------------------------- MODULE EngineInv ------------------------------
(***************************************************************************)
(* The inductive invariant of the module Engine: the invariant of every    *)
(* worker, and what the main thread and the workers agree on.              *)
(***************************************************************************)
EXTENDS Engine, WorkerInvariant

(* Engine::run: worker w still owes the main thread the outcome of the
   current command.  A worker owes one from the moment the command is sent
   until the outcome is received; main waits for as many as are owed. *)
Resting(w) == worker[w].phase.kind = "Idle" /\ worker[w].at = "poll"
Reported(w) == \E n \in 1..Len(results) : results[n].id = w
Owes(w) == rx[w] # <<>> \/ ~Resting(w) \/ Reported(w)

(* Engine::run and command: a worker has at most one command and one outcome
   under way, works only while it owes an outcome, and main waits for exactly
   the outcomes that are owed. *)
HandshakeInv ==
  /\ main.pc = "send" => \A w \in Workers : Owes(w) <=> w < main.k
  /\ main.pc = "wake" => \A w \in Workers : Owes(w) <=> w <= main.k
  /\ main.pc = "wait" => main.pending = Cardinality({w \in Workers : Owes(w)})
  /\ main.pc \in {"join", "done", "fatal"} => \A w \in Workers : Owes(w)
  /\ \A w \in Workers : rx[w] # <<>> =>
       Len(rx[w]) = 1 /\ Resting(w) /\ ~Reported(w)
  /\ \A w \in Workers : Reported(w) => Resting(w)
  /\ \A m, n \in 1..Len(results) : results[m].id = results[n].id => m = n

(* Every worker's own state: its slots, lists, timers and phase agree. *)
WorkersInv == \A w \in Workers : WorkerInv(worker[w])

(* The state of the engine between any two steps of its threads: the types,
   the agreement of slots, lists, counters and phase inside each worker, and
   the exchange of commands and outcomes with main.  It is inductive, and each
   safety property of the module Engine follows from it. *)
IInv == TypeOK /\ WorkersInv /\ HandshakeInv
=============================================================================
