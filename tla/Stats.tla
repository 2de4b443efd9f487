------------------------------- MODULE Stats --------------------------------
(***************************************************************************)
(* What a benchmark of the client reports about its requests and about the *)
(* server: benchcli-rust/src/stats.rs, the statistics of ps.rs, and the    *)
(* part of main.rs that puts them into a report.                           *)
(*                                                                         *)
(* Each worker keeps the latencies of its own requests.  When all outcomes *)
(* are there, main merges them and works the report out of them and of the *)
(* samples of the server's CPU and memory.  Numbers are integers: latency  *)
(* and time in units, and a quotient is what its integer part is.          *)
(***************************************************************************)
EXTENDS Integers, SequencesExt, FiniteSetsExt

CONSTANTS
  Workers,      \* 1..n, in the order of their ids
  Costs,        \* latencies of a request
  Errors,       \* what a request fails with
  MaxOps,       \* a bound on the requests of a worker
  Used,         \* how long a benchmark takes, 0 included
  Sample,       \* samples of the CPU and of the memory
  MaxSamples    \* a bound on their number

ASSUME StatsAssumption ==
  /\ IsFiniteSet(Workers) /\ Workers \subseteq Nat /\ Workers # {}
  /\ Costs \subseteq Nat /\ Used \subseteq Nat /\ Sample \subseteq Nat
  /\ MaxOps \in Nat /\ MaxSamples \in Nat

VARIABLES
  lat,     \* the Latencies of each worker
  report   \* the report main writes, once there is one

statsVars == <<lat, report>>

-----------------------------------------------------------------------------
(* stats.rs: Latencies. *)

Latencies == [costs |-> <<>>, success |-> 0, failed |-> 0, errors |-> [e \in Errors |-> 0]]

ok(l, cost) == [l EXCEPT !.costs = Append(@, cost), !.success = @ + 1]

fail(l, err) == [l EXCEPT !.failed = @ + 1, !.errors[err] = @ + 1]

(* Slip of merge: the errors of the later one replace the earlier ones'. *)
mergeReplaces(l, other) ==
  [costs   |-> l.costs \o other.costs,
   success |-> l.success + other.success,
   failed  |-> l.failed + other.failed,
   errors  |-> [e \in Errors |-> IF other.errors[e] > 0 THEN other.errors[e] ELSE l.errors[e]]]

merge(l, other) ==
  [costs   |-> l.costs \o other.costs,
   success |-> l.success + other.success,
   failed  |-> l.failed + other.failed,
   errors  |-> [e \in Errors |-> l.errors[e] + other.errors[e]]]

Sum(s) == FoldLeft(LAMBDA a, b : a + b, 0, s)
Sorted(s) == SortSeq(s, <)

(* Slip of summarize: the costs are taken as they were merged. *)
tpnUnsorted(costs, p) == IF costs = <<>> THEN 0 ELSE costs[(p * Len(costs)) \div 100 + 1]

(* tpn, with the index that is never past the end. *)
tpn(costs, p) ==
  IF costs = <<>> THEN 0
  ELSE LET idx == (p * Len(costs)) \div 100
       IN  Sorted(costs)[Min({idx, Len(costs) - 1}) + 1]

Percentiles == {50, 75, 90, 95, 99}

summarize(l, used) ==
  LET costs == Sorted(l.costs)
  IN  [tps |-> IF used > 0 THEN l.success \div used ELSE 0,
       min |-> IF costs = <<>> THEN 0 ELSE Head(costs),
       avg |-> IF costs = <<>> THEN 0 ELSE Sum(costs) \div Len(costs),
       max |-> IF costs = <<>> THEN 0 ELSE Last(costs),
       tp  |-> [p \in Percentiles |-> tpn(l.costs, p)]]

-----------------------------------------------------------------------------
(* ps.rs: the first sample counts for the maximum only, and the least memory is
   the second smallest. *)

Tails(s) == {s[i] : i \in 2..Len(s)}
Mean(s) == Sum(Tail(s)) \div (Len(s) - 1)

(* Slip of stats: the mean of the CPU is taken over every sample. *)
statsWhole(cpu, rss) ==
  [cpu_min |-> IF cpu = <<>> THEN 0 ELSE IF Len(cpu) = 1 THEN cpu[1] ELSE Min(Tails(cpu)),
   cpu_avg |-> IF cpu = <<>> THEN 0 ELSE Sum(cpu) \div Len(cpu),
   cpu_max |-> IF cpu = <<>> THEN 0 ELSE Max(ToSet(cpu)),
   mem_min |-> IF rss = <<>> THEN 0 ELSE IF Len(rss) = 1 THEN rss[1] ELSE Sorted(rss)[2],
   mem_avg |-> IF rss = <<>> THEN 0 ELSE IF Len(rss) = 1 THEN rss[1] ELSE Mean(rss),
   mem_max |-> IF rss = <<>> THEN 0 ELSE Max(ToSet(rss))]

stats(cpu, rss) ==
  [cpu_min |-> IF cpu = <<>> THEN 0 ELSE IF Len(cpu) = 1 THEN cpu[1] ELSE Min(Tails(cpu)),
   cpu_avg |-> IF cpu = <<>> THEN 0 ELSE IF Len(cpu) = 1 THEN cpu[1] ELSE Mean(cpu),
   cpu_max |-> IF cpu = <<>> THEN 0 ELSE Max(ToSet(cpu)),
   mem_min |-> IF rss = <<>> THEN 0 ELSE IF Len(rss) = 1 THEN rss[1] ELSE Sorted(rss)[2],
   mem_avg |-> IF rss = <<>> THEN 0 ELSE IF Len(rss) = 1 THEN rss[1] ELSE Mean(rss),
   mem_max |-> IF rss = <<>> THEN 0 ELSE Max(ToSet(rss))]

(* report.rs: 0 when there is nothing to divide by. *)
eer(throughput, cost) == IF cost = 0 THEN 0 ELSE throughput \div cost

-----------------------------------------------------------------------------
(* A benchmark. *)

NoReport == [tps |-> -1]

StatsInit == lat = [w \in Workers |-> Latencies] /\ report = NoReport

Ops(w) == lat[w].success + lat[w].failed
Busy(w) == report = NoReport /\ Ops(w) < MaxOps

Answered(w) ==
  /\ Busy(w)
  /\ \E c \in Costs : lat' = [lat EXCEPT ![w] = ok(@, c)]
  /\ UNCHANGED report

Failed(w) ==
  /\ Busy(w)
  /\ \E e \in Errors : lat' = [lat EXCEPT ![w] = fail(@, e)]
  /\ UNCHANGED report

(* Engine::run returns the outcomes in the order of the workers. *)
Merged ==
  LET outcomes == SetToSortSeq(Workers, <)
  IN  FoldLeft(LAMBDA l, w : merge(l, lat[w]), Latencies, outcomes)

(* main: the report of a benchmark, with the samples taken while it ran. *)
WriteReport ==
  /\ report = NoReport
  /\ \E used \in Used, samples \in BoundedSeq(Sample, MaxSamples) :
       LET l  == Merged
           s  == summarize(l, used)
           ps == stats(samples, samples)
       IN  report' = [tps |-> s.tps, summary |-> s, ps |-> ps,
                      success |-> l.success, failed |-> l.failed, errors |-> l.errors,
                      cpu_eer |-> eer(s.tps, ps.cpu_avg), mem_eer |-> eer(s.tps, ps.mem_avg),
                      samples |-> samples]
  /\ UNCHANGED lat

StatsNext == WriteReport \/ \E w \in Workers : Answered(w) \/ Failed(w)

StatsSpec == StatsInit /\ [][StatsNext]_statsVars

-----------------------------------------------------------------------------
(* Properties. *)

Reported == report # NoReport

(* All the answered requests, as pairs of a worker and a place. *)
All == UNION {{w} \X DOMAIN lat[w].costs : w \in Workers}
CostOf(a) == lat[a[1]].costs[a[2]]

(* Latencies::merge: the report accounts for every request of every worker, and
   for what each of the failed ones failed with. *)
CountsEveryRequest ==
  Reported =>
    /\ report.success + report.failed = MapThenSumSet(Ops, Workers)
    /\ \A e \in Errors :
         report.errors[e] = MapThenSumSet(LAMBDA w : lat[w].errors[e], Workers)

(* "TPn is the latency at index floor(n/100 * successes) of the sorted successes"
   (stats.rs, line 4), told without sorting or merging: at most that many
   requests are faster, and more than that many are at least as fast.  A run
   without a success shows 0. *)
PercentilesExact ==
  Reported => \A p \in Percentiles :
    LET idx == (p * Cardinality(All)) \div 100
        tp  == report.summary.tp[p]
    IN  IF All = {} THEN tp = 0
        ELSE /\ Quantify(All, LAMBDA a : CostOf(a) < tp) <= idx
             /\ Quantify(All, LAMBDA a : CostOf(a) <= tp) > idx

(* ps.rs, stats: "The first sample is left out of the minimum and the average"
   (line 54): whenever there are others, the minimum and the mean of the CPU do
   not depend on it; a sample that is alone is both of them. *)
FirstSampleLeftOut ==
  Reported =>
    LET cpu == report.samples
    IN  /\ Len(cpu) = 1 => report.ps.cpu_min = cpu[1] /\ report.ps.cpu_avg = cpu[1]
        /\ Len(cpu) > 1 =>
             \A x \in Sample :
               LET other == stats(<<x>> \o Tail(cpu), cpu)
               IN  report.ps.cpu_min = other.cpu_min /\ report.ps.cpu_avg = other.cpu_avg
=============================================================================
