---------------------------- MODULE EngineRounds ----------------------------
(***************************************************************************)
(* The engine implements Rounds: the channels of commands and outcomes,    *)
(* the wakers and the count of pending outcomes keep the workers in step.  *)
(***************************************************************************)
EXTENDS EngineInv

Round == IF main.pc \in {"done", "fatal"} THEN "over" ELSE main.bench
Stopping == main.bench \in {"Stop", "Abort"}

(* Whether the loop of run or stop has not come to worker w yet. *)
ToAsk(w) ==
  \/ main.pc = "send" /\ w >= main.k
  \/ main.pc = "wake" /\ w > main.k

StageOf(w) ==
  IF rx[w] # <<>> THEN "asked"
  ELSE IF ~Resting(w) THEN IF Stopping THEN "gone" ELSE "working"
  ELSE IF Reported(w) THEN "reported"
  ELSE IF ToAsk(w) THEN "rest" ELSE "done"

Stage == [w \in Workers |-> StageOf(w)]

R == INSTANCE Rounds WITH round <- Round, stage <- Stage

(* Engine::run, of any sequence of benchmarks: "Sends one command to each worker
   and waits for every outcome" (engine.rs, line 161).  No worker starts on a
   benchmark before all have reported the last one, none reports twice or for a
   benchmark it was not asked for, so that run's final unwrap finds an outcome
   of every worker, and the client ends when every worker is gone. *)
RunsInRounds == R!Spec

(* What the refinement needs beyond IInv: the workers are told to stop in the
   last round and in no other, and then none of them works; main is past its
   last round only when every worker is gone. *)
StopInv ==
  /\ Stopping => main.pc # "wait"
  /\ main.pc = "join" => Stopping
  /\ main.pc \in {"done", "fatal"} => \A w \in Workers : Gone(w)
  /\ \A w \in Workers :
       /\ rx[w] # <<>> => (Head(rx[w]).kind = "Stop" <=> Stopping)
       /\ Stopping => Resting(w) \/ worker[w].at = "exited"
=============================================================================
