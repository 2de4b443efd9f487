------------------------------- MODULE Rounds -------------------------------
(***************************************************************************)
(* What Engine::run and Engine::stop promise main, without how: "Sends one *)
(* command to each worker and waits for every outcome" (engine.rs, line    *)
(* 161).  The benchmarks are rounds.  In each round every worker is asked  *)
(* once, works, and reports once; the next round begins only when every    *)
(* report of this one is in, so that no two workers are ever in different  *)
(* rounds.  In the last round the workers exit.                            *)
(***************************************************************************)
CONSTANT Workers

VARIABLES
  round,   \* the benchmark that is run, or "over"
  stage    \* how far each worker is in it

vars == <<round, stage>>

Last == {"Stop", "Abort"}

(* The rounds main goes on to: it aborts when no connection came up, and
   BenchMultiplex is left out unless it was asked for. *)
After(r) ==
  CASE r = "Dial" -> {"Warmup", "Abort"}
    [] r = "Warmup" -> {"Echo"}
    [] r = "Echo" -> {"Rate", "Stop"}
    [] OTHER -> {"Stop"}

Init == round = "Dial" /\ stage = [w \in Workers |-> "rest"]

Move(w, from, to) ==
  /\ round # "over" /\ stage[w] = from
  /\ stage' = [stage EXCEPT ![w] = to]
  /\ UNCHANGED round

Ask(w) == Move(w, "rest", "asked")

(* A worker that is told to stop reports nothing. *)
Begin(w) == Move(w, "asked", IF round \in Last THEN "gone" ELSE "working")

Report(w) == Move(w, "working", "reported")

(* Reports are taken, in any order, once every worker has been asked. *)
Collect(w) == Move(w, "reported", "done") /\ \A v \in Workers : stage[v] # "rest"

NextRound ==
  /\ round \notin Last \cup {"over"} /\ \A w \in Workers : stage[w] = "done"
  /\ round' \in After(round)
  /\ stage' = [w \in Workers |-> "rest"]

(* stop has joined every thread. *)
End ==
  /\ round \in Last /\ \A w \in Workers : stage[w] = "gone"
  /\ round' = "over" /\ UNCHANGED stage

(* "a worker exited": nobody is left to report. *)
GiveUp ==
  /\ round \notin Last \cup {"over"} /\ \A w \in Workers : stage[w] = "working"
  /\ round' = "over" /\ UNCHANGED stage

Next ==
  \/ NextRound \/ End \/ GiveUp
  \/ \E w \in Workers : Ask(w) \/ Begin(w) \/ Report(w) \/ Collect(w)

Spec == Init /\ [][Next]_vars
=============================================================================
