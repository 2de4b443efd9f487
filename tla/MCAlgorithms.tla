---------------------------- MODULE MCAlgorithms ----------------------------
(* The computations that have their inputs and no other state: a behaviour is one
   of the statistics, of a table or of a division of the CPUs. *)
EXTENDS Stats, Report, CpuSplit

VARIABLE part

vars == <<part, statsVars, reportVars, cpuVars>>

(* The initial state without a topology and flags. *)
OneCpu ==
  /\ phase = "split" /\ online = {0} /\ topology = <<>> /\ groups = <<>>
  /\ server = {} /\ client = {}
  /\ daemon = 0 /\ total = 0 /\ asked_server = 0 /\ asked_client = 0

(* What a behaviour is not of stays at one of its initial states. *)
Init ==
  /\ part \in {"stats", "report", "cpus"}
  /\ StatsInit
  /\ ReportInit /\ (part # "report" => kind = "Connections" /\ order = "result")
  /\ IF part = "cpus" THEN CpuSplitInit ELSE OneCpu

Next ==
  \/ part = "stats" /\ StatsNext /\ UNCHANGED <<part, reportVars, cpuVars>>
  \/ part = "report" /\ ReportNext /\ UNCHANGED <<part, statsVars, cpuVars>>
  \/ part = "cpus" /\ CpuSplitNext /\ UNCHANGED <<part, statsVars, reportVars>>

Spec == Init /\ [][Next]_vars

(* Connections close enough to be shown as the same share; rates that tie, that
   do not divide evenly, and that are measured without samples. *)
MCMeasured ==
  [Connections |-> [recv : {0, 1, 2, 199, 200}, duration : {1}, cpu : {0}, mem : {0}],
   BenchEcho |-> [recv : {0, 200, 201}, duration : {1}, cpu : {0, 1, 3}, mem : {0, 3}],
   BenchMultiplex |-> [recv : {0, 399, 400}, duration : {2, 3}, cpu : {0, 4}, mem : {4}]]

(* Two sockets and two nodes with cores of one and two threads, and one socket
   with more cores than sides. *)
MCMachines ==
  {[cpus |-> 4, cores |-> {0, 1}, sockets |-> {-1, 0, 1}, nodes |-> {-1, 0, 1}],
   [cpus |-> 5, cores |-> {0, 1, 2}, sockets |-> {0}, nodes |-> {0}]}
=============================================================================
