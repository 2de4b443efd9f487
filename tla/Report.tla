------------------------------- MODULE Report -------------------------------
(***************************************************************************)
(* The tables benchreport writes from the files of a run                   *)
(* (benchreport/report): which rows they have, in which order, and what    *)
(* the ranked columns show.                                                *)
(*                                                                         *)
(* A run leaves at most one file for each framework; a client that failed  *)
(* or could not write it leaves none.  A file may be of an older client,   *)
(* which recorded fewer numbers.  A quotient with a fraction is kept       *)
(* exactly, as a multiple of 1/Scale.                                      *)
(***************************************************************************)
EXTENDS Integers, SequencesExt, FiniteSetsExt

CONSTANTS
  N,         \* config.FrameworkList is 1..N
  Measured,  \* what a run may measure, for each kind of table
  Scale      \* of the numbers with a fraction

Kinds == {"Connections", "BenchEcho", "BenchMultiplex"}

ASSUME ReportAssumption ==
  /\ N \in Nat \ {0} /\ DOMAIN Measured = Kinds
  /\ \A k \in Kinds : \A r \in Measured[k] :
       /\ r.recv \in Nat
       /\ r.duration \in Nat \ {0} /\ (k # "BenchMultiplex" => r.duration = 1)
       /\ {r.cpu, r.mem} \subseteq Nat   \* averages of the samples; 0 without samples
       /\ \A c \in {r.cpu, r.mem} \ {0} : Scale % (r.duration * c) = 0

VARIABLES
  kind,     \* which table it is
  stage,       \* "client" or "report"
  f,        \* the framework whose client runs
  order,    \* -sort
  truth,    \* what each client measured, or NoFile
  files,    \* what its file holds
  table

reportVars == <<kind, stage, f, order, truth, files, table>>

Frameworks == 1..N
NoFile == [recv |-> -1]

-----------------------------------------------------------------------------
(* The numbers.  The client and benchreport work them out in the same way. *)

(* RateTPS, and how a rate is kept: responses over seconds.  0 stands for no
   duration. *)
RateTPS(recv, duration) == IF duration <= 0 THEN <<0, 1>> ELSE <<recv, duration>>

(* CPUEER and MEMEER: 0 when there is nothing to divide by. *)
EER(rate, cost) == IF cost = 0 THEN 0 ELSE (rate[1] * Scale) \div (rate[2] * cost)

(* A row as the client of today writes it: BenchEcho's EERs are of the TPS in the
   report, an integer, BenchMultiplex's of the rate it was rounded down from. *)
Written(r) ==
  LET tps == r.recv \div r.duration
      rate == IF kind = "BenchMultiplex" THEN RateTPS(r.recv, r.duration) ELSE <<tps, 1>>
  IN  [recv |-> r.recv, duration |-> r.duration, cpu |-> r.cpu, mem |-> r.mem,
       TPS |-> tps, CPUEER |-> EER(rate, r.cpu), MEMEER |-> EER(rate, r.mem)]

(* One from before the EERs, and in BenchMultiplex the TPS, were recorded; and one
   of BenchMultiplex with its TPS and without the duration. *)
Older(w) ==
  [w EXCEPT !.CPUEER = 0, !.MEMEER = 0,
            !.TPS = IF kind = "BenchMultiplex" THEN 0 ELSE @]
Undated(w) == [w EXCEPT !.CPUEER = 0, !.MEMEER = 0, !.duration = 0]

(* fillTPS *)
fillTPS(w) ==
  IF kind = "BenchMultiplex" /\ w.TPS = 0 /\ w.recv > 0
  THEN LET rate == RateTPS(w.recv, w.duration) IN [w EXCEPT !.TPS = rate[1] \div rate[2]]
  ELSE w

(* Slip of fillEER: there is no rate without a duration. *)
fillEERDated(w) ==
  LET rate == IF kind = "BenchMultiplex" THEN RateTPS(w.recv, w.duration) ELSE <<w.TPS, 1>>
  IN  [w EXCEPT !.CPUEER = IF @ = 0 THEN EER(rate, w.cpu) ELSE @,
                !.MEMEER = IF @ = 0 THEN EER(rate, w.mem) ELSE @]

(* fillEER: BenchMultiplex's are of the responses and the duration, if they make a
   rate, and of the TPS otherwise. *)
fillEER(w) ==
  LET measured == RateTPS(w.recv, w.duration)
      rate == IF kind = "BenchMultiplex" /\ measured[1] > 0 THEN measured ELSE <<w.TPS, 1>>
  IN  [w EXCEPT !.CPUEER = IF @ = 0 THEN EER(rate, w.cpu) ELSE @,
                !.MEMEER = IF @ = 0 THEN EER(rate, w.mem) ELSE @]

(* ReadReports and its callers: a row for each file there is. *)
ReadReports(fs) ==
  LET present == SelectSeq([g \in Frameworks |-> g], LAMBDA g : fs[g] # NoFile)
      Row(g) == [framework |-> g, w |-> IF kind = "Connections" THEN fs[g]
                                        ELSE fillEER(fillTPS(fs[g]))]
  IN  [i \in DOMAIN present |-> Row(present[i])]

-----------------------------------------------------------------------------
(* The order of the rows. *)

RankKeys(row) ==
  IF kind = "Connections" THEN <<row.w.TPS>> ELSE <<row.w.TPS, row.w.CPUEER, row.w.MEMEER>>

(* Slip of rankedBefore: a tie counts as before. *)
rankedBeforeOrTied(a, b) ==
  a = b \/ \E i \in DOMAIN a : a[i] > b[i] /\ \A j \in 1..(i - 1) : a[j] = b[j]

(* rankedBefore: bigger on the first key they differ on. *)
rankedBefore(a, b) ==
  \E i \in DOMAIN a : a[i] > b[i] /\ \A j \in 1..(i - 1) : a[j] = b[j]

(* sort.SliceStable with the order of sortReports, by insertion: a row goes before
   the first one it is ranked before. *)
SliceStable(rows) ==
  LET Less(r, q) == rankedBefore(RankKeys(r), RankKeys(q))
      Insert(sorted, row) ==
        LET at == Min({i \in 1..Len(sorted) : Less(row, sorted[i])} \cup {Len(sorted) + 1})
        IN  InsertAt(sorted, at, row)
  IN  FoldLeft(Insert, <<>>, rows)

SortReports(rows, o) == IF o = "result" THEN SliceStable(rows) ELSE rows

-----------------------------------------------------------------------------
(* The cells of a ranked column. *)

(* Slip of Percent: the share is rounded rather than floored. *)
PercentRounded(value, best) ==
  IF best <= 0 \/ value <= 0 THEN 0
  ELSE IF value >= best THEN 100
  ELSE (value * 100 + best \div 2) \div best

(* Percent, which shows a share in whole percents. *)
Percent(value, best) ==
  IF best <= 0 \/ value <= 0 THEN 0
  ELSE IF value >= best THEN 100
  ELSE Min({(value * 100) \div best, 99})

(* Markdown, with withPercent in each ranked column. *)
Markdown(rows, o) ==
  LET sorted == SortReports(rows, o)
      Column(k) == {RankKeys(sorted[i])[k] : i \in DOMAIN sorted}
      Best(k) == Max(Column(k) \cup {0})
      Keys(i) == RankKeys(sorted[i])
  IN  [i \in DOMAIN sorted |->
        [framework |-> sorted[i].framework,
         cells |-> [k \in DOMAIN Keys(i) |-> <<Keys(i)[k], Percent(Keys(i)[k], Best(k))>>]]]

-----------------------------------------------------------------------------
ReportInit ==
  /\ kind \in Kinds /\ stage = "client" /\ f = 1 /\ order \in {"result", "framework"}
  /\ truth = [g \in Frameworks |-> NoFile] /\ files = truth
  /\ table = <<>>

Advance == IF f < N THEN f' = f + 1 /\ UNCHANGED stage ELSE stage' = "report" /\ UNCHANGED f

(* save, of the client of the next framework. *)
Save ==
  /\ stage = "client"
  /\ \E r \in Measured[kind] :
       /\ truth' = [truth EXCEPT ![f] = Written(r)]
       /\ \/ files' = [files EXCEPT ![f] = Written(r)]
          \/ kind # "Connections" /\ files' = [files EXCEPT ![f] = Older(Written(r))]
          \/ kind = "BenchMultiplex" /\ files' = [files EXCEPT ![f] = Undated(Written(r))]
  /\ Advance
  /\ UNCHANGED <<kind, order, table>>

(* A client that ends before this benchmark does, or whose save fails. *)
NotSaved == stage = "client" /\ Advance /\ UNCHANGED <<kind, order, truth, files, table>>

(* main of benchreport. *)
Generate ==
  /\ stage = "report" /\ stage' = "done"
  /\ table' = Markdown(ReadReports(files), order)
  /\ UNCHANGED <<kind, f, order, truth, files>>

ReportNext == Save \/ NotSaved \/ Generate

ReportSpec == ReportInit /\ [][ReportNext]_reportVars

-----------------------------------------------------------------------------
(* Properties. *)

Value(i, k) == table[i].cells[k][1]
Share(i, k) == table[i].cells[k][2]

(* ReadReports and SortReports: a table has one row for each file.  Rows are in
   the order of their results, those with the same results in the order of
   config.FrameworkList: "Rows that tie on all of them keep the framework order
   between them" (reporter.go, line 31).  With -sort=framework all of them are in
   that order. *)
RowsInOrder ==
  stage = "done" =>
    /\ {table[i].framework : i \in DOMAIN table} = {g \in Frameworks : files[g] # NoFile}
    /\ \A i, j \in DOMAIN table : i < j =>
         \/ order = "result"
            /\ \E k \in DOMAIN table[i].cells :
                 Value(i, k) > Value(j, k) /\ \A h \in 1..(k - 1) : Value(i, h) = Value(j, h)
         \/ table[i].framework < table[j].framework
            /\ (order = "result" => \A k \in DOMAIN table[i].cells : Value(i, k) = Value(j, k))

(* fillTPS and fillEER: a file without TPS or EERs is shown, and so ranked, with
   the numbers the client writes today for what was measured, and one that has them
   is shown as it is.  The client divides the rate before it is rounded down
   (main.rs, lines 454 to 461), and so must the EERs worked out of a file, or the
   same result would rank apart.  Where the file has no duration they are of the
   TPS in it. *)
ShownAsMeasured ==
  \A i \in DOMAIN table :
    LET g == table[i].framework
        w == truth[g]
        Shown(cost, eer) == IF files[g].duration = 0 THEN EER(<<w.TPS, 1>>, cost) ELSE eer
    IN  \A k \in DOMAIN table[i].cells :
          Value(i, k) = <<w.TPS, Shown(w.cpu, w.CPUEER), Shown(w.mem, w.MEMEER)>>[k]

(* Percent: "only the best shows 100%" (reporter.go, line 116), in every ranked
   column and whatever the order, unless nothing scored; and of two rows the one
   that scored more does not show less. *)
OnlyBestIsWhole ==
  \A i, j \in DOMAIN table : \A k \in DOMAIN table[i].cells :
    /\ Share(i, k) = 100 => Value(i, k) > 0 /\ Value(j, k) <= Value(i, k)
    /\ Value(i, k) > 0 => \E h \in DOMAIN table : Share(h, k) = 100
    /\ Value(i, k) >= Value(j, k) => Share(i, k) >= Share(j, k)
=============================================================================
