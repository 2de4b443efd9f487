------------------------------ MODULE Sampling ------------------------------
(***************************************************************************)
(* Where a report's CPU and memory come from: the sampler threads          *)
(* (benchkit/src/procstat.rs), the client's choice of a source, its        *)
(* control requests and the samples it takes for each benchmark            *)
(* (benchcli-rust/src/ps.rs, main.rs), and the control routes of the       *)
(* quiche server (frameworks/quiche/src/control.rs).                       *)
(*                                                                         *)
(* A sample is known by its number in the sampler's list; of the last one  *)
(* the module also has the moments its wall time and its CPU time start    *)
(* from.  A control request may get lost or be answered too late, and an   *)
(* /init that the client gave up on may still be handled at any time.      *)
(***************************************************************************)
EXTENDS Integers, FiniteSets

CONSTANTS
  ATTEMPTS,     \* of a control request
  Failures,     \* reads of the process that fail before sampling ends
  Interval,     \* between two samples
  Benchmarks,   \* how many follow the setup
  MaxClock, MaxMishaps  \* bounds on the clock and on what fails

ASSUME SamplingAssumption ==
  /\ {ATTEMPTS, Failures, Interval, Benchmarks, MaxClock} \subseteq Nat \ {0}
  /\ MaxMishaps \in Nat

VARIABLES
  clock, mishaps,
  sampler,     \* of each machine
  want_local, source,
  pc, bench,   \* where main is, and in which benchmark
  request,     \* the attempt main waits for
  stray,       \* /init requests that main gave up on and the server has yet to handle
  mark, lost,  \* the mark of each benchmark, and whether it is a default
  before,      \* how many samples there were when its mark was asked for
  report       \* the samples its report is made from

main == <<want_local, source, pc, bench, mark, lost, before, report>>
samplingVars == <<clock, mishaps, sampler, main, request, stray>>

Machines == {"client", "server"}

(* start: when the sampler was started; last: when the interval began; base: when
   the CPU time it is compared with was read; skipped and lag: of the last sample,
   the reads that failed before it and how much its CPU time is older than its
   interval. *)
NoSampler ==
  [state |-> "none", stop |-> FALSE, start |-> 0, last |-> 0, base |-> 0, failures |-> 0,
   n |-> 0, skipped |-> 0, lag |-> 0]
NoRequest == [path |-> "none", attempt |-> 0, state |-> "idle", n |-> 0]
NoReport == [done |-> FALSE, who |-> "client", lo |-> 0, hi |-> 0, err |-> FALSE]

SamplingInit ==
  /\ clock = 1 /\ mishaps = 0
  /\ sampler = [m \in Machines |-> NoSampler]
  /\ want_local \in BOOLEAN /\ source = "none"
  /\ pc = "setup" /\ bench = 1
  /\ request = NoRequest /\ stray = 0
  /\ mark = [b \in 1..Benchmarks |-> 0] /\ lost = [b \in 1..Benchmarks |-> FALSE]
  /\ before = [b \in 1..Benchmarks |-> [m \in Machines |-> 0]]
  /\ report = [b \in 1..Benchmarks |-> NoReport]

Fault == mishaps < MaxMishaps /\ mishaps' = mishaps + 1

ClockTicks ==
  /\ clock < MaxClock
  /\ clock' = clock + 1
  /\ UNCHANGED <<mishaps, sampler, main, request, stray>>

-----------------------------------------------------------------------------
(* Sampler. *)

(* start, once the first read has succeeded. *)
Started(s) == [NoSampler EXCEPT !.state = "spawned", !.start = clock, !.base = clock]

ThreadBegins(m) ==
  /\ sampler[m].state = "spawned"
  /\ sampler' = [sampler EXCEPT ![m].state = "running", ![m].last = clock]
  /\ UNCHANGED <<clock, mishaps, main, request, stray>>

Late(m) == clock >= sampler[m].last + Interval

(* Slip of the thread: the CPU time of the first read stays the base. *)
SampleSinceStart(m) ==
  /\ sampler[m].state = "running" /\ Late(m)
  /\ sampler' = [sampler EXCEPT ![m] =
       [@ EXCEPT !.failures = 0, !.n = @ + 1, !.last = clock,
                 !.skipped = sampler[m].failures, !.lag = sampler[m].last - sampler[m].base]]
  /\ UNCHANGED <<clock, mishaps, main, request, stray>>

Sample(m) ==
  /\ sampler[m].state = "running" /\ Late(m)
  /\ sampler' = [sampler EXCEPT ![m] =
       [sampler[m] EXCEPT !.failures = 0, !.n = @ + 1, !.base = clock,
                           !.last = clock, !.skipped = sampler[m].failures,
                           !.lag = sampler[m].last - sampler[m].base]]
  /\ UNCHANGED <<clock, mishaps, main, request, stray>>

(* A read that fails keeps the CPU time of the one before it. *)
SampleFails(m) ==
  /\ sampler[m].state = "running" /\ Late(m) /\ Fault
  /\ sampler' = [sampler EXCEPT ![m] =
       IF sampler[m].failures + 1 >= Failures THEN [sampler[m] EXCEPT !.state = "ended"]
       ELSE [sampler[m] EXCEPT !.failures = @ + 1, !.last = clock]]
  /\ UNCHANGED <<clock, main, request, stray>>

(* The thread sees the flag while it waits. *)
SamplerStops(m) ==
  /\ sampler[m].state = "running" /\ sampler[m].stop /\ ~Late(m)
  /\ sampler' = [sampler EXCEPT ![m].state = "ended"]
  /\ UNCHANGED <<clock, mishaps, main, request, stray>>

-----------------------------------------------------------------------------
(* The server's control routes. *)

(* Slip of init: a second /init starts sampling again. *)
InitAgain(s) == {Started(s), s}

(* init: sampling starts once, or not at all when the first read fails. *)
InitOutcomes(s) == IF s.state = "none" THEN {Started(s), s} ELSE {s}

HandleInit ==
  /\ request.path = "/init" /\ request.state = "sent"
  /\ \E s \in InitOutcomes(sampler["server"]) : sampler' = [sampler EXCEPT !["server"] = s]
  /\ request' = [request EXCEPT !.state = "answered"]
  /\ UNCHANGED <<clock, mishaps, main, stray>>

HandleStray ==
  /\ stray > 0 /\ stray' = stray - 1
  /\ \E s \in InitOutcomes(sampler["server"]) : sampler' = [sampler EXCEPT !["server"] = s]
  /\ UNCHANGED <<clock, mishaps, main, request>>

HandlePs ==
  /\ request.path = "/ps" /\ request.state = "sent"
  /\ request' = [request EXCEPT !.state = "answered", !.n = sampler["server"].n]
  /\ UNCHANGED <<clock, mishaps, sampler, main, stray>>

-----------------------------------------------------------------------------
(* control_request: an attempt is answered, or it fails, and the next one
   follows until they are used up. *)

Ask(path) == request' = [NoRequest EXCEPT !.path = path, !.attempt = 1, !.state = "sent"]

Answered == request.state = "answered"
GivenUp == request.state = "failed"

NextAttempt ==
  request' = IF request.attempt < ATTEMPTS
             THEN [NoRequest EXCEPT !.path = request.path, !.attempt = request.attempt + 1,
                                    !.state = "sent"]
             ELSE [request EXCEPT !.state = "failed"]

(* The request may not have reached the server, and then it never will. *)
AttemptFails ==
  /\ request.state \in {"sent", "answered"} /\ Fault
  /\ NextAttempt
  /\ \/ UNCHANGED stray
     \/ request.path = "/init" /\ request.state = "sent" /\ stray' = stray + 1
  /\ UNCHANGED <<clock, sampler, main>>

(* A reply that is not a 200, or not what was asked for, is not asked for again. *)
ReplyRejected ==
  /\ request.state \in {"sent", "answered"} /\ Fault
  /\ request' = [request EXCEPT !.state = "failed"]
  /\ UNCHANGED <<clock, sampler, main, stray>>

-----------------------------------------------------------------------------
(* ps::setup. *)

(* The process is found and sampled from here, unless that fails. *)
SetupLocal ==
  /\ pc = "setup" /\ want_local
  /\ sampler' = [sampler EXCEPT !["client"] = Started(@)]
  /\ source' = "local" /\ pc' = "mark"
  /\ UNCHANGED <<clock, mishaps, want_local, bench, mark, lost, before, report, request, stray>>

SetupRemote ==
  /\ pc = "setup" /\ request.state = "idle"
  /\ Ask("/init")
  /\ pc' = "init"
  /\ UNCHANGED <<clock, mishaps, sampler, want_local, source, bench,
                 mark, lost, before, report, stray>>

InitDone ==
  /\ pc = "init" /\ (Answered \/ GivenUp)
  /\ \/ source' = "remote" /\ UNCHANGED sampler
     \/ /\ Answered /\ want_local /\ source' = "fallback"
        /\ sampler' = [sampler EXCEPT !["client"] = Started(@)]
  /\ request' = NoRequest /\ pc' = "mark"
  /\ UNCHANGED <<clock, mishaps, want_local, bench, mark, lost, before, report, stray>>

-----------------------------------------------------------------------------
(* A benchmark: mark, run, stats_since. *)

Local == source \in {"local", "fallback"}

Counts == [m \in Machines |-> sampler[m].n]

MarkLocal ==
  /\ pc = "mark" /\ Local
  /\ before' = [before EXCEPT ![bench] = Counts]
  /\ mark' = [mark EXCEPT ![bench] = sampler["client"].n]
  /\ pc' = "run"
  /\ UNCHANGED <<clock, mishaps, sampler, want_local, source, bench, lost, report, request, stray>>

MarkAsk ==
  /\ pc = "mark" /\ ~Local
  /\ before' = [before EXCEPT ![bench] = Counts]
  /\ Ask("/ps") /\ pc' = "marking"
  /\ UNCHANGED <<clock, mishaps, sampler, want_local, source, bench, mark, lost, report, stray>>

MarkDone ==
  /\ pc = "marking" /\ (Answered \/ GivenUp)
  /\ mark' = [mark EXCEPT ![bench] = IF Answered THEN request.n ELSE 0]
  /\ lost' = [lost EXCEPT ![bench] = GivenUp]
  /\ request' = NoRequest /\ pc' = "run"
  /\ UNCHANGED <<clock, mishaps, sampler, want_local, source, bench, before, report, stray>>

Run ==
  /\ pc = "run" /\ pc' = "stats"
  /\ UNCHANGED <<clock, mishaps, sampler, want_local, source, bench, mark, lost, before, report,
                 request, stray>>

(* A report of the samples of machine m after the first lo. *)
Report(m, lo, n, err) ==
  LET from == IF lo < n THEN lo ELSE n IN
  [done |-> TRUE, who |-> m, lo |-> from, hi |-> n, err |-> err \/ from = n]

NextBenchmark ==
  /\ bench' = IF bench < Benchmarks THEN bench + 1 ELSE bench
  /\ pc' = IF bench < Benchmarks THEN "mark" ELSE "drop"

(* Slip of stats_since: the samples are taken from the start. *)
StatsFromStart(b) == 0

(* The mark that stats_since reads from. *)
StatsMark(b) == IF source = "fallback" THEN 0 ELSE mark[b]

(* The samples of this machine, if the benchmark took any or nothing else has. *)
StatsLocal ==
  /\ pc = "stats" /\ Local
  /\ mark[bench] < sampler["client"].n \/ source = "local"
  /\ report' = [report EXCEPT ![bench] = Report("client", mark[bench], sampler["client"].n, FALSE)]
  /\ NextBenchmark
  /\ UNCHANGED <<clock, mishaps, sampler, want_local, source, mark, lost, before, request, stray>>

StatsAsk ==
  /\ pc = "stats" /\ source # "local"
  /\ source = "fallback" => sampler["client"].n <= mark[bench]
  /\ Ask("/ps") /\ pc' = "asking"
  /\ UNCHANGED <<clock, mishaps, sampler, want_local, source, bench,
                 mark, lost, before, report, stray>>

(* remote_stats: the samples after the mark, or after none for the fallback. *)
StatsDone ==
  /\ pc = "asking" /\ (Answered \/ GivenUp)
  /\ report' = [report EXCEPT ![bench] =
       IF Answered THEN Report("server", StatsMark(bench), request.n, FALSE)
       ELSE Report("server", 0, 0, TRUE)]
  /\ request' = NoRequest
  /\ NextBenchmark
  /\ UNCHANGED <<clock, mishaps, sampler, want_local, source, mark, lost, before, stray>>

(* Slip of drop: the flag is not set. *)
DropUnflagged ==
  /\ pc = "drop" /\ pc' = "join"
  /\ UNCHANGED <<clock, mishaps, sampler, want_local, source, bench, mark, lost, before, report,
                 request, stray>>

(* drop(source) stops the sampler of this machine and joins its thread. *)
Drop ==
  /\ pc = "drop" /\ pc' = "join"
  /\ sampler' = [sampler EXCEPT !["client"].stop = TRUE]
  /\ UNCHANGED <<clock, mishaps, want_local, source, bench,
                 mark, lost, before, report, request, stray>>

Join ==
  /\ pc = "join" /\ sampler["client"].state \in {"none", "ended"}
  /\ pc' = "done"
  /\ UNCHANGED <<clock, mishaps, sampler, want_local, source, bench, mark, lost, before, report,
                 request, stray>>

Main ==
  \/ SetupLocal \/ SetupRemote \/ InitDone
  \/ MarkLocal \/ MarkAsk \/ MarkDone \/ Run \/ StatsLocal \/ StatsAsk \/ StatsDone
  \/ Drop \/ Join

Thread(m) == ThreadBegins(m) \/ Sample(m) \/ SamplerStops(m)
Handle == HandleInit \/ HandleStray \/ HandlePs

(* The bound on the clock is where a behaviour may stay. *)
EndOfClock == clock = MaxClock /\ UNCHANGED samplingVars

SamplingNext ==
  \/ Main \/ Handle \/ AttemptFails \/ ReplyRejected \/ ClockTicks \/ EndOfClock
  \/ \E m \in Machines : Thread(m) \/ SampleFails(m)

SamplingSpec == SamplingInit /\ [][SamplingNext]_samplingVars

(* Every thread runs; an attempt is answered or, after its timeout, fails. *)
SamplingFairSpec ==
  /\ SamplingSpec /\ WF_samplingVars(Main) /\ WF_samplingVars(Handle \/ AttemptFails)
  /\ \A m \in Machines : WF_samplingVars(Thread(m))

-----------------------------------------------------------------------------
(* Properties. *)

Sampler ==
  [state : {"none", "spawned", "running", "ended"}, stop : BOOLEAN, start : Nat, last : Nat,
   base : Nat, failures : 0..(Failures - 1), n : Nat, skipped : Nat, lag : Int]
Request ==
  [path : {"none", "/init", "/ps"}, attempt : 0..ATTEMPTS,
   state : {"idle", "sent", "answered", "failed"}, n : Nat]
Summary == [done : BOOLEAN, who : Machines, lo : Nat, hi : Nat, err : BOOLEAN]

(* The state of the samplers, of main and of its request, which is never tried
   more than ATTEMPTS times. *)
SamplingTypeOK ==
  /\ clock \in 1..MaxClock /\ mishaps \in 0..MaxMishaps
  /\ sampler \in [Machines -> Sampler]
  /\ want_local \in BOOLEAN /\ source \in {"none", "local", "fallback", "remote"}
  /\ pc \in {"setup", "init", "mark", "marking", "run", "stats", "asking", "drop", "join", "done"}
  /\ bench \in 1..Benchmarks
  /\ request \in Request /\ stray \in 0..ATTEMPTS
  /\ mark \in [1..Benchmarks -> Nat] /\ lost \in [1..Benchmarks -> BOOLEAN]
  /\ before \in [1..Benchmarks -> [Machines -> Nat]]
  /\ report \in [1..Benchmarks -> Summary]

(* The CPU time that a sampler compares with is as old as its interval, unless
   reads have failed since. *)
Sound(s) ==
  /\ s.start <= clock /\ s.last <= clock /\ s.base <= clock
  /\ s.state \in {"none", "spawned"} => s.n = 0
  /\ s.n > 0 /\ s.failures = 0 => s.base = s.last
  /\ s.n > 1 /\ s.skipped = 0 => s.lag = 0

(* There is no sampler on this machine before ps::setup has chosen it. *)
Intervals ==
  /\ \A m \in Machines : Sound(sampler[m])
  /\ pc \in {"setup", "init"} => sampler["client"].state = "none"

(* Whose request is under way, and that each attempt of /init strays once at most. *)
Requests ==
  /\ pc = "init" => request.path = "/init" /\ request.attempt > 0
  /\ pc \in {"marking", "asking"} => request.path = "/ps"
  /\ pc \notin {"init", "marking", "asking"} => request.path = "none" /\ request.state = "idle"
  /\ pc = "setup" => stray = 0
  /\ pc = "init" /\ request.state \in {"sent", "answered"} => stray < request.attempt

(* The mark of the benchmark under way leaves out what was there before it. *)
Marks ==
  /\ pc \notin {"setup", "init"} => source # "none"
  /\ pc \notin {"drop", "join", "done"} => \A b \in bench..Benchmarks : ~report[b].done
  /\ pc \in {"setup", "init"} => bench = 1
  /\ pc \in {"marking", "asking"} => source # "local"
  /\ pc = "marking" =>
       /\ source = "remote"
       /\ sampler["server"].n >= before[bench]["server"]
       /\ request.state = "answered" => request.n >= before[bench]["server"]
  /\ pc \in {"run", "stats", "asking"} =>
       IF source = "remote" THEN lost[bench] \/ mark[bench] >= before[bench]["server"]
                            ELSE mark[bench] = before[bench]["client"]

SampInv == SamplingTypeOK /\ Intervals /\ Requests /\ Marks

(* A sampler that started is the same one to the end, however often /init is
   delivered and however late, and its list of samples only grows: the marks
   main took stay good. *)
SamplesKept ==
  [][\A m \in Machines :
       sampler[m].state # "none" =>
         /\ sampler'[m].start = sampler[m].start
         /\ sampler'[m].n >= sampler[m].n]_samplingVars

(* Whether the report of a benchmark has a sample from before its mark. *)
HasEarlier(b) == report[b].done /\ report[b].lo < report[b].hi
                   /\ report[b].lo < before[b][report[b].who]

OwnReports ==
  \A b \in 1..Benchmarks :
    /\ HasEarlier(b) => lost[b] \/ (source = "fallback" /\ report[b].who = "server")
    /\ report[b].done /\ report[b].lo = report[b].hi => report[b].err

(* A report has samples from before its benchmark only if the request for the
   mark failed in every attempt, or the server's own samples stand in for those
   of this machine; and one without samples comes with an error.
   And the invariant holds that this rests on. *)
OwnUnlessLost == SampInv /\ OwnReports

(* The CPU time of a sample, but for the first, starts when its interval does,
   as long as no read failed since the sample before: the thread compares each
   read with the last one. *)
IntervalUnlessFailed ==
  \A m \in Machines : sampler[m].n > 1 /\ sampler[m].skipped = 0 => sampler[m].lag = 0

(* "Samples a process every interval, in a thread of its own, until dropped: the
   CPU it used over the interval" (procstat.rs, line 118): the CPU time of every
   sample but the first starts when its interval does.  It does not after a read
   that failed: last has moved on, last_cpu has not, and the CPU time of two
   intervals is put over the length of one. *)
SampleIsOfInterval == \A m \in Machines : sampler[m].n > 1 => sampler[m].lag = 0

(* main gets to its end: no lost request holds it for ever, and neither does the
   sampler's thread that drop joins. *)
Finishes == <>(pc = "done")
=============================================================================
