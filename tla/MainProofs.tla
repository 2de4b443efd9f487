----------------------------- MODULE MainProofs -----------------------------
(***************************************************************************)
(* How the main thread divides the work, and what its steps preserve: IInv *)
(* of EngineInv, through the exchange of commands and outcomes with the    *)
(* workers.  And what follows from the invariant: where the round trips of *)
(* BenchEcho are, and that every step of the engine is one of Rounds.      *)
(***************************************************************************)
EXTENDS EngineRounds, WorkerSteps, SetFacts, TLAPS

-----------------------------------------------------------------------------
(* What split and split_by return, for every total and number of workers. *)

(* A list of length 0. *)
LEMMA ListEmpty ==
  ASSUME NEW S, NEW q \in Seq(S), Len(q) = 0
  PROVE  q = <<>>
OBVIOUS

(* The quotient and the remainder of a division of natural numbers. *)
LEMMA Division ==
  ASSUME NEW a \in Nat, NEW n \in Nat \ {0}
  PROVE  /\ a \div n \in Nat /\ a % n \in 0..(n - 1)
         /\ a = n * (a \div n) + (a % n)
<1>1. a \div n \in Nat
  OBVIOUS
<1>2. a % n \in 0..(n - 1)
  OBVIOUS
<1>3. a = n * (a \div n) + (a % n)
  OBVIOUS
<1> QED  BY <1>1, <1>2, <1>3

(* Between two multiples of n. *)
LEMMA Quotients ==
  ASSUME NEW n \in Nat \ {0}, NEW p \in Nat, NEW q \in Nat, NEW r \in 0..(n - 1),
         NEW s \in 0..(n - 1), NEW d \in Nat, n * p + r + d = n * q + s
  PROVE  /\ p <= q
         /\ \A m \in Nat : n * m <= d /\ d < n * m + n => q - p \in {m, m + 1}
<1>1. n * (q - p) = d + r - s
  OBVIOUS
<1>2. p <= q
  <2> SUFFICES ASSUME q + 1 <= p  PROVE  FALSE
    OBVIOUS
  <2>1. n * (p - q) >= n
    <3>1. PICK k \in Nat : p - q = 1 + k
      OBVIOUS
    <3>2. n * (1 + k) = n + n * k /\ n * k \in Nat
      OBVIOUS
    <3> QED  BY <3>1, <3>2
  <2>2. n * (p - q) = s - r - d
    BY <1>1
  <2> QED  BY <2>1, <2>2
<1>3. ASSUME NEW m \in Nat, n * m <= d, d < n * m + n  PROVE  q - p \in {m, m + 1}
  <2>1. PICK k \in Nat : k = q - p
    BY <1>2
  <2>2. n * k = d + r - s
    BY <1>1, <2>1
  <2>3. CASE k < m
    <3>1. PICK j \in Nat : m = k + 1 + j
      BY <2>3
    <3>2. n * (k + 1 + j) = n * k + n + n * j /\ n * j \in Nat
      OBVIOUS
    <3> QED  BY <1>3, <2>2, <3>1, <3>2
  <2>4. CASE k > m + 1
    <3>1. PICK j \in Nat : k = m + 2 + j
      BY <2>4
    <3>2. n * (m + 2 + j) = n * m + 2 * n + n * j /\ n * j \in Nat
      OBVIOUS
    <3> QED  BY <1>3, <2>2, <3>1, <3>2
  <2> QED  BY <2>1, <2>3, <2>4
<1> QED  BY <1>2, <1>3

(* split: every part is the quotient of total and n, or one more.  So no part
   is negative and two parts differ by at most one. *)
THEOREM SplitEvenParts ==
  ASSUME NEW total \in Nat, NEW n \in Nat \ {0}, NEW i \in 1..n
  PROVE  SplitEven(total, n)[i] \in {total \div n, total \div n + 1}
<1>1. total * i \in Nat /\ total * (i - 1) \in Nat /\ total * i = total * (i - 1) + total
  <2>1. i \in Nat /\ i - 1 \in Nat
    OBVIOUS
  <2>2. total * i \in Nat /\ total * (i - 1) \in Nat
    BY <2>1
  <2> QED  BY <2>1, <2>2
<1>2. PICK a \in Nat, b \in Nat : a = total * i /\ b = total * (i - 1)
  BY <1>1
<1>3. a = b + total
  BY <1>1, <1>2
<1>4. PICK q \in Nat, s \in 0..(n - 1) : q = a \div n /\ a = n * q + s
  BY Division
<1>5. PICK p \in Nat, r \in 0..(n - 1) : p = b \div n /\ b = n * p + r
  BY Division
<1>6. PICK m \in Nat, t \in 0..(n - 1) : m = total \div n /\ total = n * m + t
  BY Division
<1>7. n * p + r + total = n * q + s
  BY <1>3, <1>4, <1>5
<1>8. n * m <= total /\ total < n * m + n
  <2>1. n * m \in Nat
    OBVIOUS
  <2> QED  BY <1>6, <2>1
<1>9. q - p \in {m, m + 1}
  BY <1>7, <1>8, Quotients
<1>10. SplitEven(total, n)[i] = q - p
  BY <1>2, <1>4, <1>5 DEF SplitEven
<1> QED  BY <1>6, <1>9, <1>10

(* A total of naturals is a natural, the size of a finite set. *)
LEMMA TotalNat ==
  ASSUME SetFacts, NEW n \in Nat, NEW f \in [1..n -> Nat]
  PROVE  Total(f, n) \in Nat /\ IsFiniteSet(UNION {{i} \X (1..f[i]) : i \in 1..n})
<1> DEFINE P(i) == {i} \X (1..f[i])
           S == {P(i) : i \in 1..n}
<1>1. \A i \in 1..n : IsFiniteSet(P(i))
  <2> SUFFICES ASSUME NEW i \in 1..n  PROVE  IsFiniteSet(P(i))
    OBVIOUS
  <2>1. IsFiniteSet({i})
    BY Zenon DEF SetFacts, CountSingle
  <2>2. f[i] \in Nat
    OBVIOUS
  <2>3. IsFiniteSet(1..f[i])
    BY <2>2 DEF SetFacts, CountInterval
  <2> QED  BY <2>1, <2>3 DEF SetFacts, CountProduct
<1>2. IsFiniteSet(S)
  <2>1. IsFiniteSet(1..n)
    BY DEF SetFacts, CountInterval
  <2> HIDE DEF P
  <2>2. S = {P(i) : i \in 1..n}
    OBVIOUS
  <2> DEFINE g == [i \in 1..n |-> P(i)]
  <2>3. g \in Surjection(1..n, S)
    BY DEF Surjection
  <2> QED  BY <2>1, <2>3 DEF SetFacts, CountSurjection
<1>3. \A x \in S : IsFiniteSet(x)
  BY Zenon, <1>1
<1>4. IsFiniteSet(UNION S)
  BY Zenon, <1>2, <1>3 DEF SetFacts, CountUNION
<1>5. Total(f, n) = Cardinality(UNION S)
  BY DEF Total
<1> QED  BY <1>4, <1>5 DEF SetFacts, CountIsNat

(* split_by gives no worker more than it holds, and none a negative share:
   the doc comment of split_by ("no more than it holds"). *)
LEMMA SplitByCap ==
  ASSUME SetFacts, NEW total \in Nat, NEW n \in Nat, NEW holds \in [1..n -> Nat], NEW i \in 1..n
  PROVE  SplitBy(total, holds, n)[i] \in 0..holds[i]
<1> DEFINE sum == Total(holds, n)
           capped == IF total < sum THEN total ELSE sum
           part == (capped * holds[i]) \div sum
<1>1. sum \in Nat /\ holds[i] \in Nat
  BY TotalNat
<1>2. CASE sum = 0
  <2>1. SplitBy(total, holds, n)[i] = 0
    BY <1>2 DEF SplitBy
  <2> QED  BY <1>1, <2>1
<1>3. CASE sum # 0
  <2>1. \/ SplitBy(total, holds, n)[i] = part
        \/ SplitBy(total, holds, n)[i] = part + 1 /\ part < holds[i]
    BY <1>3 DEF SplitBy
  <2>2. PICK c \in Nat : c = capped /\ c <= sum
    BY <1>1
  <2>3. PICK h \in Nat, s \in Nat \ {0} : h = holds[i] /\ s = sum
    BY <1>1, <1>3
  <2>4. c * h \in Nat
    OBVIOUS
  <2>5. PICK q \in Nat, r \in 0..(s - 1) : q = (c * h) \div s /\ c * h = s * q + r
    BY ZenonT(30), <2>4, Division
  <2>6. q <= h
    <3>0. c <= s
      BY <2>2, <2>3
    <3>1. PICK d \in Nat : s = c + d
      <4>1. s - c \in Nat /\ s = c + (s - c)
        BY <3>0
      <4> QED  BY <4>1
    <3>2. d * h \in Nat /\ s * h = c * h + d * h
      <4>1. d * h \in Nat /\ (c + d) * h = c * h + d * h
        OBVIOUS
      <4> QED  BY <3>1, <4>1
    <3>3. CASE q > h
      <4>1. PICK k \in Nat : q = h + 1 + k
        BY <3>3
      <4>2. s * q = s * h + s + s * k /\ s * k \in Nat /\ s * h \in Nat
        BY <4>1
      <4> QED  BY <2>4, <2>5, <3>2, <4>2
    <3> QED  BY <3>3
  <2>7. part = q
    BY <2>2, <2>3, <2>5
  <2> HIDE DEF part
  <2> QED  BY <2>1, <2>3, <2>6, <2>7
<1> QED  BY <1>2, <1>3

(* The shares of split_by are natural numbers, one for each worker. *)
LEMMA SplitByType ==
  ASSUME SetFacts, NEW total \in Nat, NEW n \in Nat, NEW holds \in [1..n -> Nat]
  PROVE  SplitBy(total, holds, n) \in [1..n -> Nat]
<1>1. \A i \in 1..n : SplitBy(total, holds, n)[i] \in Nat
  <2> SUFFICES ASSUME NEW i \in 1..n  PROVE  SplitBy(total, holds, n)[i] \in Nat
    OBVIOUS
  <2>1. SplitBy(total, holds, n)[i] \in 0..holds[i]
    BY Zenon, SplitByCap
  <2> QED  BY <2>1
<1> DEFINE f == SplitBy(total, holds, n)
<1>2. f = [i \in 1..n |-> f[i]]
  BY Zenon DEF SplitBy
<1> HIDE DEF f
<1>3. f \in [1..n -> Nat]
  BY <1>1, <1>2 DEF f
<1> QED  BY <1>3 DEF f

-----------------------------------------------------------------------------
(* The steps of the main thread. *)

(* The commands of Engine::run and stop are well formed. *)
LEMMA CommandType ==
  ASSUME TypeOK, NEW w \in Workers
  PROVE  CommandFor(w) \in Command
<1> DEFINE total == IF DialConc < NumConns THEN DialConc ELSE NumConns
<1>0. NumConns \in Nat /\ NumWorkers \in Nat \ {0} /\ total \in Nat /\ w \in 1..NumWorkers
  BY EngineAssumption DEF Workers
<1> HIDE DEF total
<1>1. NumConns \div NumWorkers \in Nat /\ total \div NumWorkers \in Nat
  BY Zenon, <1>0, Division
<1>2. PICK count \in Nat : count = SplitEven(NumConns, NumWorkers)[w]
  BY <1>0, <1>1, SplitEvenParts
<1>3. PICK conc \in Nat : conc = SplitEven(total, NumWorkers)[w]
  BY <1>0, <1>1, SplitEvenParts
<1>4. main.concs[w] \in Nat
  BY DEF TypeOK, MainState
<1>5. CommandFor(w) =
        CASE main.bench = "Dial" ->
               [kind |-> "Dial", count |-> count,
                concurrency |-> IF count = 0 THEN 0 ELSE IF conc > 1 THEN conc ELSE 1]
          [] main.bench \in {"Warmup", "Echo"} ->
               [kind |-> main.bench, count |-> 0, concurrency |-> main.concs[w]]
          [] OTHER ->
               [kind |-> IF main.bench = "Rate" THEN "Rate" ELSE "Stop",
                count |-> 0, concurrency |-> 0]
  BY <1>2, <1>3 DEF CommandFor, total
<1> QED  BY <1>4, <1>5 DEF Command

(* A step of the main thread alone: the workers, their queues and the
   channel of outcomes keep what each worker owes. *)
LEMMA OwesSame ==
  ASSUME UNCHANGED <<worker, rx, results>>
  PROVE  \A w \in Workers : /\ Owes(w)' <=> Owes(w)
                            /\ Reported(w)' <=> Reported(w)
                            /\ Resting(w)' <=> Resting(w)
BY DEF Owes, Reported, Resting

(* The fields of the main thread that a step does not touch. *)
LEMMA MainTypes ==
  ASSUME TypeOK
  PROVE  /\ main \in MainState /\ main.k \in Workers /\ main.pending \in Nat
         /\ main.concs \in [Workers -> Nat] /\ main.outcomes \in [Workers -> Phase]
BY DEF TypeOK, MainState

(* Engine::run sends the command of worker k. *)
LEMMA MainSendInv ==
  ASSUME IInv, MainSend
  PROVE  IInv'
<1> DEFINE k == main.k
<1>0. TypeOK /\ WorkersInv /\ HandshakeInv
  BY DEF IInv
<1>1. /\ main.pc = "send" /\ rx' = [rx EXCEPT ![k] = Append(@, CommandFor(k))]
      /\ main' = [main EXCEPT !.pc = "wake"]
      /\ UNCHANGED <<worker, woken, results, job, faults, drawn>>
  BY DEF MainSend
<1>2. k \in Workers /\ main \in MainState
  BY <1>0, MainTypes
<1>3. PICK cmd \in Command : cmd = CommandFor(k)
  BY <1>0, <1>2, CommandType
<1>4. k \in Int /\ Workers \subseteq Int
  BY <1>2, EngineAssumption DEF Workers
<1>5. ~Owes(k)
  BY <1>0, <1>1, <1>2, <1>4 DEF HandshakeInv
<1>6. rx[k] = <<>> /\ Resting(k) /\ ~Reported(k)
  BY <1>5 DEF Owes
<1>7. /\ rx' \in [Workers -> Seq(Command)] /\ rx'[k] = <<cmd>>
      /\ \A v \in Workers : v # k => rx'[v] = rx[v]
  <2>1. rx \in [Workers -> Seq(Command)] /\ Append(rx[k], cmd) = <<cmd>>
    BY <1>0, <1>6 DEF TypeOK
  <2>2. <<cmd>> \in Seq(Command)
    OBVIOUS
  <2>3. rx' = [rx EXCEPT ![k] = <<cmd>>]
    BY Zenon, <1>1, <1>3, <2>1
  <2> QED  BY <1>2, <2>1, <2>2, <2>3
<1>8. main' \in MainState /\ main'.pc = "wake" /\ main'.k = k
  BY <1>1, <1>2 DEF MainState
<1>9. TypeOK'
  BY <1>0, <1>1, <1>7, <1>8 DEF TypeOK
<1>10. \A v \in Workers : (Resting(v)' <=> Resting(v)) /\ (Reported(v)' <=> Reported(v))
  BY <1>1 DEF Resting, Reported
<1>11. <<cmd>> # <<>> /\ Len(<<cmd>>) = 1
  OBVIOUS
<1>12. Owes(k)' /\ \A v \in Workers : v # k => (Owes(v)' <=> Owes(v))
  <2>1. rx'[k] # <<>>
    BY <1>7, <1>11
  <2>2. main.k = main'.k
    BY <1>8
  <2>3. Owes(k)'
    BY <2>1, <2>2 DEF Owes
  <2>4. ASSUME NEW v \in Workers, v # k
        PROVE  Owes(v)' <=> Owes(v)
    <3>1. rx'[v] = rx[v]
      BY <1>7, <2>4
    <3> QED  BY <1>10, <3>1 DEF Owes
  <2> QED  BY <2>3, <2>4
<1>13. HandshakeInv'
  <2>1. \A v \in Workers : Owes(v)' <=> v <= k
    BY <1>0, <1>1, <1>2, <1>4, <1>12 DEF HandshakeInv
  <2>2. \A v \in Workers : rx'[v] # <<>> => Len(rx'[v]) = 1 /\ Resting(v)' /\ ~Reported(v)'
    BY Zenon, <1>0, <1>6, <1>7, <1>10, <1>11 DEF HandshakeInv
  <2>3. \A v \in Workers : Reported(v)' => Resting(v)'
    BY <1>0, <1>10 DEF HandshakeInv
  <2>4. \A m, n \in 1..Len(results') : results'[m].id = results'[n].id => m = n
    BY <1>0, <1>1 DEF HandshakeInv
  <2> QED  BY <1>8, <2>1, <2>2, <2>3, <2>4 DEF HandshakeInv
<1>14. WorkersInv'
  BY <1>0, <1>1 DEF WorkersInv
<1> QED  BY <1>9, <1>13, <1>14 DEF IInv

(* A step that changes main alone keeps the invariant when what it says of
   main's place holds afterwards. *)
LEMMA MainOnly ==
  ASSUME IInv, UNCHANGED <<worker, rx, results>>, TypeOK',
         main'.pc = "send" => \A w \in Workers : Owes(w) <=> w < main'.k,
         main'.pc = "wake" => \A w \in Workers : Owes(w) <=> w <= main'.k,
         main'.pc = "wait" => main'.pending = Cardinality({w \in Workers : Owes(w)}),
         main'.pc \in {"join", "done", "fatal"} => \A w \in Workers : Owes(w)
  PROVE  IInv'
<1>1. \A w \in Workers : /\ Owes(w)' <=> Owes(w)
                         /\ Reported(w)' <=> Reported(w)
                         /\ Resting(w)' <=> Resting(w)
  BY OwesSame
<1>2. {w \in Workers : Owes(w)'} = {w \in Workers : Owes(w)}
  BY Zenon, <1>1
<1>3. HandshakeInv'
  <2>1. /\ main'.pc = "send" => \A w \in Workers : Owes(w)' <=> w < main'.k
        /\ main'.pc = "wake" => \A w \in Workers : Owes(w)' <=> w <= main'.k
        /\ main'.pc \in {"join", "done", "fatal"} => \A w \in Workers : Owes(w)'
    BY Zenon, <1>1
  <2>2. main'.pc = "wait" => main'.pending = Cardinality({w \in Workers : Owes(w)'})
    BY Zenon, <1>2
  <2>3. \A w \in Workers : rx'[w] # <<>> => Len(rx'[w]) = 1 /\ Resting(w)' /\ ~Reported(w)'
    BY Zenon, <1>1 DEF IInv, HandshakeInv
  <2>4. \A w \in Workers : Reported(w)' => Resting(w)'
    BY Zenon, <1>1 DEF IInv, HandshakeInv
  <2>5. \A m, n \in 1..Len(results') : results'[m].id = results'[n].id => m = n
    BY Zenon DEF IInv, HandshakeInv
  <2> QED  BY Zenon, <2>1, <2>2, <2>3, <2>4, <2>5 DEF HandshakeInv
<1>4. WorkersInv'
  BY DEF IInv, WorkersInv
<1> QED  BY <1>3, <1>4 DEF IInv

(* The workers, counted. *)
LEMMA WorkersFinite ==
  ASSUME SetFacts
  PROVE  IsFiniteSet(Workers) /\ Cardinality(Workers) = NumWorkers /\ NumWorkers \in Nat \ {0}
BY EngineAssumption DEF Workers, SetFacts, CountInterval

(* Engine::run wakes worker k. *)
LEMMA MainWakeInv ==
  ASSUME SetFacts, IInv, MainWake
  PROVE  IInv'
<1> DEFINE k == main.k
<1>0. TypeOK /\ HandshakeInv
  BY DEF IInv
<1>1. /\ main.pc = "wake" /\ woken' = [woken EXCEPT ![k] = TRUE]
      /\ UNCHANGED <<worker, rx, results, job, faults, drawn>>
      /\ main' = IF k < NumWorkers THEN [main EXCEPT !.pc = "send", !.k = @ + 1]
                 ELSE IF main.bench \in {"Stop", "Abort"} THEN [main EXCEPT !.pc = "join"]
                 ELSE [main EXCEPT !.pc = "wait", !.pending = NumWorkers]
  BY DEF MainWake
<1>2. k \in Workers /\ main \in MainState /\ k \in Nat /\ Workers \subseteq Nat
  BY <1>0, MainTypes, EngineAssumption DEF Workers
<1>3. \A w \in Workers : Owes(w) <=> w <= k
  BY <1>0, <1>1 DEF HandshakeInv
<1>4. woken' \in [Workers -> BOOLEAN]
  BY Zenon, <1>0, <1>1 DEF TypeOK
<1>5. CASE k < NumWorkers
  <2>1. PICK j \in Workers : j = k + 1
    BY <1>2, <1>5, EngineAssumption DEF Workers
  <2>2. main' = [main EXCEPT !.pc = "send", !.k = j]
    BY <1>1, <1>5, <2>1
  <2>3. main' \in MainState /\ main'.pc = "send" /\ main'.k = j
    BY Zenon, <1>2, <2>2 DEF MainState
  <2>4. TypeOK'
    BY <1>0, <1>1, <1>4, <2>3 DEF TypeOK
  <2>5. \A w \in Workers : Owes(w) <=> w < j
    BY <1>2, <1>3, <2>1
  <2> QED  BY <1>1, <2>3, <2>4, <2>5, MainOnly
<1>6. CASE ~(k < NumWorkers) /\ main.bench \in {"Stop", "Abort"}
  <2>1. main' = [main EXCEPT !.pc = "join"]
    BY <1>1, <1>6
  <2>2. main' \in MainState /\ main'.pc = "join"
    BY <1>2, <2>1 DEF MainState
  <2>3. TypeOK'
    BY <1>0, <1>1, <1>4, <2>2 DEF TypeOK
  <2>4. \A w \in Workers : Owes(w)
    BY <1>2, <1>3, <1>6, EngineAssumption DEF Workers
  <2> QED  BY <1>1, <2>2, <2>3, <2>4, MainOnly
<1>7. CASE ~(k < NumWorkers) /\ main.bench \notin {"Stop", "Abort"}
  <2>1. main' = [main EXCEPT !.pc = "wait", !.pending = NumWorkers]
    BY <1>1, <1>7
  <2>2. main' \in MainState /\ main'.pc = "wait" /\ main'.pending = NumWorkers
    BY Zenon, <1>2, <2>1, EngineAssumption DEF MainState
  <2>3. TypeOK'
    BY <1>0, <1>1, <1>4, <2>2 DEF TypeOK
  <2>4. \A w \in Workers : w <= k
    BY <1>2, <1>7, EngineAssumption DEF Workers
  <2>5. {w \in Workers : Owes(w)} = Workers
    BY <1>3, <2>4
  <2>6. main'.pending = Cardinality({w \in Workers : Owes(w)})
    BY <2>2, <2>5, WorkersFinite
  <2> QED  BY <1>1, <2>2, <2>3, <2>6, MainOnly
<1> QED  BY <1>5, <1>6, <1>7

(* Engine::run finds the channel of outcomes closed, or Engine::stop has
   joined the threads. *)
LEMMA MainEndInv ==
  ASSUME IInv, MainDisconnected \/ MainJoin
  PROVE  IInv'
<1>0. TypeOK /\ HandshakeInv /\ main \in MainState
  BY MainTypes DEF IInv
<1>1. PICK pc \in {"fatal", "done"} :
        /\ main' = [main EXCEPT !.pc = pc]
        /\ UNCHANGED <<worker, rx, woken, results, job, faults, drawn>>
  BY DEF MainDisconnected, MainJoin
<1>2. main' \in MainState /\ main'.pc = pc
  BY <1>0, <1>1 DEF MainState
<1>3. TypeOK'
  BY <1>0, <1>1, <1>2 DEF TypeOK
<1>4. \A w \in Workers : Owes(w)
  <2>1. CASE MainDisconnected
    BY <2>1 DEF MainDisconnected, Gone, Resting, Owes
  <2>2. CASE MainJoin
    BY <1>0, <2>2 DEF MainJoin, HandshakeInv
  <2> QED  BY <2>1, <2>2
<1> QED  BY <1>1, <1>2, <1>3, <1>4, MainOnly

(* main goes on to the next benchmark: no worker owes an outcome. *)
LEMMA MainNextInv ==
  ASSUME SetFacts, IInv, MainNext
  PROVE  IInv'
<1>0. TypeOK /\ HandshakeInv /\ main \in MainState
  BY MainTypes DEF IInv
<1>1. ReadyCounts \in [1..NumWorkers -> Nat]
  <2>1. \A w \in Workers : worker[w].ready \in Nat
    BY <1>0 DEF TypeOK, WorkerState
  <2> QED  BY <2>1 DEF ReadyCounts, Workers
<1>2. PICK sum \in Nat : sum = Total(ReadyCounts, NumWorkers)
  BY <1>1, TotalNat, EngineAssumption
<1>3. PICK f \in [Workers -> Nat] :
        f = IF main.bench = "Dial" THEN SplitBy(EchoConc, ReadyCounts, NumWorkers) ELSE main.concs
  <2>1. main.concs \in [Workers -> Nat]
    BY <1>0, MainTypes
  <2>2. SplitBy(EchoConc, ReadyCounts, NumWorkers) \in [Workers -> Nat]
    BY <1>1, SplitByType, EngineAssumption DEF Workers
  <2> QED  BY <2>1, <2>2
<1>4. PICK b \in {"Dial", "Warmup", "Echo", "Rate", "Stop", "Abort"} : b = NextBench
  BY DEF NextBench
<1>5. PICK o \in [Workers -> Phase] : o = [w \in Workers |-> Idle]
  <2>1. Idle \in Phase
    BY DEF Idle, Phase
  <2> QED  BY Zenon, <2>1
<1>6. PICK k \in Workers : k = 1
  BY EngineAssumption DEF Workers
<1>7. /\ main.pc = "wait" /\ main.pending = 0
      /\ main' = [main EXCEPT !.pc = "send", !.k = k, !.bench = b, !.concs = f, !.outcomes = o]
      /\ UNCHANGED <<worker, rx, woken, results, faults>>
      /\ drawn' = [w \in Workers |-> {}]
  BY <1>3, <1>4, <1>5, <1>6 DEF MainNext
<1>8. job' \in EchoJob
  <2>1. WarmupPerConn * sum \in Nat
    BY EngineAssumption
  <2>2. job' \in {NewJob(WarmupPerConn * sum), NewJob(EchoTimes), NewJob(0)}
    BY <1>2 DEF MainNext
  <2> QED  BY <2>1, <2>2, EngineAssumption DEF NewJob, EchoJob
<1>9. main' \in MainState /\ main'.pc = "send" /\ main'.k = 1
  BY Zenon, <1>0, <1>6, <1>7 DEF MainState
<1>10. TypeOK'
  BY <1>0, <1>7, <1>8, <1>9 DEF TypeOK
<1>11. \A w \in Workers : ~Owes(w)
  <2>1. Cardinality({w \in Workers : Owes(w)}) = 0
    BY <1>0, <1>7 DEF HandshakeInv
  <2>2. IsFiniteSet({w \in Workers : Owes(w)})
    BY WorkersFinite DEF SetFacts, CountSubset
  <2> QED  BY <2>1, <2>2 DEF SetFacts, CountEmpty
<1>12. \A w \in Workers : Owes(w) <=> w < 1
  BY <1>11, EngineAssumption DEF Workers
<1> QED  BY <1>7, <1>9, <1>10, <1>12, MainOnly

(* Engine::run takes an outcome off the channel, where each worker has at most
   one. *)
LEMMA TakesOne ==
  ASSUME IInv, MainRecv
  PROVE  LET v == Head(results).id IN
         /\ Head(results) \in Outcome /\ v \in Workers /\ Reported(v)
         /\ \A w \in Workers : Reported(w)' <=> Reported(w) /\ w # v
<1> DEFINE h == Head(results)
           v == h.id
<1>0. HandshakeInv /\ results \in Seq(Outcome) /\ results # <<>> /\ results' = Tail(results)
  BY DEF IInv, TypeOK, MainRecv
<1>1. /\ h \in Outcome /\ Len(results) \in Nat /\ Len(results) > 0
      /\ Len(results') = Len(results) - 1 /\ h = results[1]
      /\ \A n \in 1..Len(results') : results'[n] = results[n + 1]
  BY <1>0
<1>2. v \in Workers
  BY <1>1 DEF Outcome
<1> HIDE DEF v, h
<1>3. Reported(v) /\ results[1].id = v
  BY <1>1 DEF Reported, v
<1>4. \A m, n \in 1..Len(results) : results[m].id = results[n].id => m = n
  BY <1>0 DEF HandshakeInv
<1>5. \A w \in Workers : Reported(w)' <=> Reported(w) /\ w # v
  <2> SUFFICES ASSUME NEW w \in Workers  PROVE  Reported(w)' <=> Reported(w) /\ w # v
    OBVIOUS
  <2>1. ASSUME Reported(w)'  PROVE  Reported(w) /\ w # v
    <3>1. PICK n \in 1..Len(results') : results'[n].id = w
      BY <2>1 DEF Reported
    <3>2. n + 1 \in 1..Len(results) /\ 1 \in 1..Len(results) /\ results[n + 1].id = w /\ n + 1 # 1
      BY <1>1, <3>1
    <3>3. w # v
      BY <1>3, <1>4, <3>2
    <3> QED  BY <3>2, <3>3 DEF Reported
  <2>2. ASSUME Reported(w), w # v  PROVE  Reported(w)'
    <3>1. PICK n \in 1..Len(results) : results[n].id = w
      BY <2>2 DEF Reported
    <3>2. n # 1
      BY <1>3, <2>2, <3>1
    <3>3. n - 1 \in 1..Len(results') /\ (n - 1) + 1 = n
      BY <1>1, <3>1, <3>2
    <3>4. results'[n - 1].id = w
      BY <1>1, <3>1, <3>3
    <3> QED  BY <3>3, <3>4 DEF Reported
  <2> QED  BY <2>1, <2>2
<1> QED  BY <1>1, <1>2, <1>3, <1>5 DEF h, v

(* Engine::run takes an outcome: its worker owes nothing more. *)
LEMMA MainRecvInv ==
  ASSUME SetFacts, IInv, MainRecv
  PROVE  IInv'
<1> DEFINE h == Head(results)
           v == h.id
<1>0. TypeOK /\ HandshakeInv /\ WorkersInv /\ main \in MainState
  BY MainTypes DEF IInv
<1>1. /\ main.pc = "wait" /\ main.pending > 0 /\ results # <<>>
      /\ main' = [main EXCEPT !.pending = @ - 1, !.outcomes[v] = h.outcome]
      /\ results' = Tail(results) /\ UNCHANGED <<worker, rx, woken, job, faults, drawn>>
  BY DEF MainRecv
<1>2. results \in Seq(Outcome)
  BY <1>0 DEF TypeOK
<1>3. /\ results' \in Seq(Outcome) /\ h \in Outcome /\ Len(results) \in Nat /\ Len(results) > 0
      /\ Len(results') = Len(results) - 1 /\ h = results[1]
      /\ \A n \in 1..Len(results') : results'[n] = results[n + 1]
  BY <1>1, <1>2
<1>4. v \in Workers /\ h.outcome \in Phase
  BY <1>3 DEF Outcome
<1>5. PICK p \in Nat : p = main.pending - 1
  BY <1>0, <1>1, MainTypes
<1>6. PICK o \in [Workers -> Phase] : o = [main.outcomes EXCEPT ![v] = h.outcome]
  BY Zenon, <1>0, <1>4, MainTypes
<1>7. main' = [main EXCEPT !.pending = p, !.outcomes = o]
  BY Zenon, <1>1, <1>5, <1>6
<1>8. main' \in MainState /\ main'.pc = "wait" /\ main'.pending = p
  BY Zenon, <1>0, <1>1, <1>7 DEF MainState
<1>9. TypeOK'
  BY <1>0, <1>1, <1>3, <1>8 DEF TypeOK
<1> HIDE DEF v, h
<1>10. Reported(v) /\ results[1].id = v
  BY <1>3 DEF Reported, v
<1>11. rx[v] = <<>> /\ Resting(v)
  BY <1>0, <1>4, <1>10 DEF HandshakeInv
<1>12. \A m, n \in 1..Len(results) : results[m].id = results[n].id => m = n
  BY <1>0 DEF HandshakeInv
<1>13. \A w \in Workers : Reported(w)' <=> Reported(w) /\ w # v
  BY TakesOne DEF v, h
<1>14. \A w \in Workers : Resting(w)' <=> Resting(w)
  BY <1>1 DEF Resting
<1>15. \A w \in Workers : Owes(w)' <=> Owes(w) /\ w # v
  BY <1>1, <1>11, <1>13, <1>14 DEF Owes
<1>16. p = Cardinality({w \in Workers : Owes(w)'})
  <2> DEFINE S == {w \in Workers : Owes(w)}
             T == {w \in Workers : Owes(w)'}
  <2>1. T = S \ {v}
    BY Zenon, <1>15
  <2>2. v \in S
    BY <1>4, <1>10 DEF Owes
  <2>3. IsFiniteSet(S) /\ main.pending = Cardinality(S)
    <3>1. S \in SUBSET Workers
      OBVIOUS
    <3>2. IsFiniteSet(S)
      BY <3>1, WorkersFinite DEF SetFacts, CountSubset
    <3> QED  BY <1>0, <1>1, <3>2 DEF HandshakeInv
  <2> HIDE DEF S, T
  <2>4. Cardinality(S \ {v}) = Cardinality(S) - 1
    BY <2>2, <2>3 DEF SetFacts, CountRemove
  <2>5. p = Cardinality(T)
    BY <1>5, <2>1, <2>3, <2>4
  <2> QED  BY <2>5 DEF T
<1>17. HandshakeInv'
  <2>1. main'.pc = "wait" /\ main'.pending = Cardinality({w \in Workers : Owes(w)'})
    BY <1>8, <1>16
  <2>2. \A w \in Workers : rx'[w] # <<>> => Len(rx'[w]) = 1 /\ Resting(w)' /\ ~Reported(w)'
    BY Zenon, <1>0, <1>1, <1>13, <1>14 DEF HandshakeInv
  <2>3. \A w \in Workers : Reported(w)' => Resting(w)'
    BY Zenon, <1>0, <1>13, <1>14 DEF HandshakeInv
  <2>4. \A m, n \in 1..Len(results') : results'[m].id = results'[n].id => m = n
    <3> SUFFICES ASSUME NEW m \in 1..Len(results'), NEW n \in 1..Len(results'),
                        results'[m].id = results'[n].id
                 PROVE  m = n
      OBVIOUS
    <3>1. m + 1 \in 1..Len(results) /\ n + 1 \in 1..Len(results)
      BY <1>3
    <3>2. results[m + 1].id = results[n + 1].id
      BY <1>3
    <3>3. m + 1 = n + 1
      BY <1>12, <3>1, <3>2
    <3> QED  BY <3>3
  <2> QED  BY Zenon, <2>1, <2>2, <2>3, <2>4 DEF HandshakeInv
<1>18. WorkersInv'
  BY <1>0, <1>1 DEF WorkersInv
<1> QED  BY <1>9, <1>17, <1>18 DEF IInv

-----------------------------------------------------------------------------
(* main counts the outcomes that are owed: while it stands still and the other
   workers owe what they owed, so does worker w. *)
LEMMA OwesKept ==
  ASSUME SetFacts, IInv, IInv', UNCHANGED main, NEW w \in Workers,
         \A v \in Workers : v # w => (Owes(v)' <=> Owes(v))
  PROVE  Owes(w)' <=> Owes(w)
<1>1. HandshakeInv /\ HandshakeInv' /\ main \in MainState
  BY MainTypes DEF IInv
<1>2. main.pc \in {"send", "wake", "wait", "join", "done", "fatal"}
  BY <1>1 DEF MainState
<1>3. CASE main.pc = "wait"
  <2> DEFINE S == {v \in Workers : Owes(v)}
             T == {v \in Workers : Owes(v)'}
  <2>1. S \in SUBSET Workers /\ T \in SUBSET Workers
    OBVIOUS
  <2>2. IsFiniteSet(S) /\ IsFiniteSet(T)
    BY <2>1, WorkersFinite DEF SetFacts, CountSubset
  <2>3. Cardinality(S) = main.pending /\ main'.pending = Cardinality(T)
    BY <1>1, <1>3 DEF HandshakeInv
  <2>4. S \ {w} = T \ {w}
    BY Zenon
  <2>5. (w \in S <=> Owes(w)) /\ (w \in T <=> Owes(w)')
    BY Zenon
  <2> HIDE DEF S, T
  <2>6. Cardinality(S \ {w}) = IF w \in S THEN Cardinality(S) - 1 ELSE Cardinality(S)
    BY Zenon, <2>2 DEF SetFacts, CountRemove
  <2>7. Cardinality(T \ {w}) = IF w \in T THEN Cardinality(T) - 1 ELSE Cardinality(T)
    BY Zenon, <2>2 DEF SetFacts, CountRemove
  <2>8. Cardinality(S) \in Nat /\ Cardinality(T) \in Nat /\ Cardinality(S) = Cardinality(T)
    BY <2>2, <2>3 DEF SetFacts, CountIsNat
  <2>9. w \in S <=> w \in T
    BY <2>4, <2>6, <2>7, <2>8
  <2> QED  BY <2>5, <2>9
<1>4. CASE main.pc \in {"send", "wake", "join", "done", "fatal"}
  BY Zenon, <1>1, <1>4 DEF HandshakeInv
<1> QED  BY <1>2, <1>3, <1>4

(* A worker that starts, drives or ends a benchmark, or handles an event, is
   alive, and changes its own state only and at most adds its outcome. *)
LEMMA OneSteps ==
  ASSUME NEW w \in Workers,
         RetryDue(w) \/ DriveStep(w) \/ \E i \in Slots : NetworkStep(w, i)
  PROVE  /\ ~Gone(w) /\ UNCHANGED <<rx, main>>
         /\ \E s : worker' = [worker EXCEPT ![w] = s]
         /\ UNCHANGED results \/ (FinishPhase(w) /\ worker[w].phase.kind # "Idle")
<1> USE DEF Gone
<1>1. CASE RetryDue(w)
  BY Zenon, <1>1 DEF RetryDue, Polling, Step
<1>2. ASSUME NEW i \in Slots, NetworkStep(w, i)
      PROVE  /\ worker[w].at = "poll" /\ UNCHANGED <<rx, main, results>>
             /\ \E s : worker' = [worker EXCEPT ![w] = s]
  BY Zenon, <1>2 DEF NetworkStep, OnEstablished, OnStreamDone, OnRoom, OnClosed, OnGoAway,
                  OnProtocolError, DialTimeout, Polling, Step
<1>3. CASE FinishDial(w) \/ FinishEcho(w) \/ FinishRate(w)
  BY Zenon, <1>3 DEF FinishDial, FinishEcho, FinishRate, FinishPhase, Driving, Polling
<1>4. CASE StartDials(w) \/ NextDial(w) \/ EchoReturn(w)
  BY Zenon, <1>4 DEF StartDials, NextDial, EchoReturn, Polling, Step
<1>5. CASE EchoExhaust(w) \/ EchoDraw(w)
  BY Zenon, <1>5 DEF EchoExhaust, EchoDraw, MayDraw, Driving
<1>6. CASE Redial(w) \/ RedialsDialed(w) \/ RateBegin(w)
  BY Zenon, <1>6 DEF Redial, RedialsDialed, RateBegin, Polling, Step
<1>7. CASE RateTick(w) \/ RateDeadline(w) \/ TickNext(w) \/ TickEnd(w)
  BY Zenon, <1>7 DEF RateTick, RateDeadline, TickNext, TickEnd, Polling, Step
<1> QED  BY Zenon, <1>1, <1>2, <1>3, <1>4, <1>5, <1>6, <1>7 DEF DriveStep

(* How a step of one worker, or about one worker, looks in Rounds. *)
LEMMA MovesOne ==
  ASSUME NEW w \in Workers, NEW from, NEW to, Round # "over", Round' = Round,
         StageOf(w) = from, StageOf(w)' = to,
         \A v \in Workers : v # w => StageOf(v)' = StageOf(v)
  PROVE  R!Move(w, from, to)
<1>1. Stage[w] = from
  BY DEF Stage
<1>2. Stage' = [Stage EXCEPT ![w] = to]
  BY Zenon DEF Stage
<1> QED  BY <1>1, <1>2 DEF R!Move

(* Nothing moves when the round and every worker's stage stay. *)
LEMMA MovesNone ==
  ASSUME Round' = Round, \A v \in Workers : StageOf(v)' = StageOf(v)
  PROVE  UNCHANGED R!vars
BY DEF Stage, R!vars

(* Which stage a worker is in, from what it owes. *)
LEMMA StageCases ==
  ASSUME NEW w \in Workers, HandshakeInv
  PROVE  /\ rx[w] # <<>> => StageOf(w) = "asked" /\ Resting(w) /\ ~Reported(w)
         /\ ~Resting(w) => StageOf(w) = (IF Stopping THEN "gone" ELSE "working") /\ rx[w] = <<>>
         /\ Reported(w) => StageOf(w) = "reported" /\ rx[w] = <<>> /\ Resting(w)
         /\ ~Owes(w) => StageOf(w) = (IF ToAsk(w) THEN "rest" ELSE "done")
BY Zenon DEF HandshakeInv, StageOf, Owes

(* A worker's stage depends on its commands, rest and report alone. *)
LEMMA StageSame ==
  ASSUME NEW w \in Workers, UNCHANGED main, rx'[w] = rx[w],
         Resting(w)' <=> Resting(w), Reported(w)' <=> Reported(w)
  PROVE  StageOf(w)' = StageOf(w)
BY DEF StageOf, Stopping, ToAsk

(* A step of a worker that reports nothing and takes no command. *)
LEMMA WorkerStepRound ==
  ASSUME SetFacts, IInv, IInv', StopInv, NEW w \in Workers, ~Gone(w),
         UNCHANGED <<rx, main, results>>, NEW s, worker' = [worker EXCEPT ![w] = s]
  PROVE  UNCHANGED R!vars /\ StopInv'
<1>0. HandshakeInv /\ HandshakeInv'
  BY DEF IInv
<1>1. \A v \in Workers : v # w => worker'[v] = worker[v]
  OBVIOUS
<1>2. \A v \in Workers : /\ Reported(v)' <=> Reported(v)
                         /\ v # w => (Resting(v)' <=> Resting(v))
  BY <1>1 DEF Reported, Resting
<1>3. \A v \in Workers : v # w => (Owes(v)' <=> Owes(v))
  BY <1>2 DEF Owes
<1>4. Owes(w)' <=> Owes(w)
  BY Zenon, <1>3, OwesKept
<1>5. Resting(w)' <=> Resting(w)
  BY Zenon, <1>0, <1>2, <1>4 DEF Owes, HandshakeInv
<1>6. \A v \in Workers : Resting(v)' <=> Resting(v)
  BY Zenon, <1>2, <1>5
<1>7. \A v \in Workers : StageOf(v)' = StageOf(v)
  BY Zenon, <1>2, <1>6, StageSame
<1>8. Round' = Round
  BY DEF Round
<1>9. StopInv'
  <2>1. main'.pc \notin {"done", "fatal"}
    BY DEF StopInv
  <2>2. Stopping' <=> Stopping
    BY DEF Stopping
  <2>3. \A v \in Workers : Stopping => Resting(v)' \/ worker'[v].at = "exited"
    BY Zenon, <1>1, <1>6 DEF StopInv, Gone
  <2> QED  BY Zenon, <2>1, <2>2, <2>3 DEF StopInv
<1> QED  BY <1>7, <1>8, <1>9, MovesNone

(* finish. *)
LEMMA FinishRound ==
  ASSUME IInv, IInv', StopInv, NEW w \in Workers, ~Gone(w), FinishPhase(w),
         worker[w].phase.kind # "Idle"
  PROVE  R!Report(w) /\ StopInv'
<1>0. HandshakeInv /\ HandshakeInv' /\ results \in Seq(Outcome)
  BY DEF IInv, TypeOK
<1>1. /\ UNCHANGED <<rx, main>> /\ \A v \in Workers : v # w => worker'[v] = worker[v]
      /\ results' = Append(results, [id |-> w, outcome |-> worker[w].phase])
  BY DEF FinishPhase
<1>2. ~Resting(w) /\ ~Stopping /\ main.pc \notin {"done", "fatal"}
  BY DEF Resting, StopInv, Gone
<1>3. \A v \in Workers : Reported(v)' <=> Reported(v) \/ v = w
  <2>1. /\ Len(results) \in Nat /\ Len(results') = Len(results) + 1
        /\ \A n \in 1..Len(results) : results'[n] = results[n]
        /\ results'[Len(results) + 1].id = w
    BY <1>0, <1>1
  <2>2. ASSUME NEW v \in Workers, Reported(v)'  PROVE  Reported(v) \/ v = w
    <3>1. PICK n \in 1..Len(results') : results'[n].id = v
      BY <2>2 DEF Reported
    <3>2. n = Len(results) + 1 \/ n \in 1..Len(results)
      BY <2>1
    <3> QED  BY <2>1, <3>1, <3>2 DEF Reported
  <2>3. ASSUME NEW v \in Workers, Reported(v)  PROVE  Reported(v)'
    <3>1. PICK n \in 1..Len(results) : results[n].id = v
      BY <2>3 DEF Reported
    <3>2. n \in 1..Len(results') /\ results'[n].id = v
      BY <2>1, <3>1
    <3> QED  BY <3>2 DEF Reported
  <2>4. Reported(w)'
    <3>1. Len(results) + 1 \in 1..Len(results')
      BY <2>1
    <3> QED  BY <2>1, <3>1 DEF Reported
  <2> QED  BY <2>2, <2>3, <2>4
<1>4. \A v \in Workers : v # w => (Resting(v)' <=> Resting(v)) /\ StageOf(v)' = StageOf(v)
  <2> SUFFICES ASSUME NEW v \in Workers, v # w
               PROVE  (Resting(v)' <=> Resting(v)) /\ StageOf(v)' = StageOf(v)
    OBVIOUS
  <2>1. Resting(v)' <=> Resting(v)
    BY <1>1 DEF Resting
  <2> QED  BY <1>1, <1>3, <2>1, StageSame
<1>5. StageOf(w) = "working"
  BY <1>0, <1>2, StageCases
<1>6. StageOf(w)' = "reported"
  BY <1>0, <1>1, <1>3 DEF HandshakeInv, StageOf
<1>7. Round # "over" /\ Round' = Round
  BY <1>0, <1>1, <1>2, MainTypes DEF Round, IInv, MainState
<1>8. StopInv'
  <2>1. main'.pc \notin {"done", "fatal"} /\ ~Stopping'
    BY <1>1, <1>2 DEF Stopping
  <2> QED  BY <1>1, <1>2, <2>1 DEF StopInv
<1>9. R!Move(w, "working", "reported")
  BY Zenon, <1>4, <1>5, <1>6, <1>7, MovesOne
<1> QED  BY <1>8, <1>9 DEF R!Report

(* Worker::run takes its command. *)
LEMMA RecvRound ==
  ASSUME SetFacts, IInv, IInv', StopInv, NEW w \in Workers, Recv(w)
  PROVE  R!Begin(w) /\ StopInv'
<1>0. HandshakeInv /\ HandshakeInv' /\ rx \in [Workers -> Seq(Command)]
  BY DEF IInv, TypeOK
<1>1. /\ worker[w].at = "poll" /\ rx[w] # <<>> /\ UNCHANGED <<results, main>>
      /\ rx' = [rx EXCEPT ![w] = Tail(@)]
      /\ \E s : worker' = [worker EXCEPT ![w] = s]
      /\ Head(rx[w]).kind = "Stop" => worker' = [worker EXCEPT ![w] = CloseAll(worker[w])]
  BY Zenon DEF Recv, Polling
<1>2. rx'[w] = <<>> /\ \A v \in Workers : v # w => rx'[v] = rx[v] /\ worker'[v] = worker[v]
  <2>1. Len(rx[w]) = 1 /\ rx[w] \in Seq(Command)
    BY <1>0, <1>1 DEF HandshakeInv
  <2>2. Tail(rx[w]) \in Seq(Command) /\ Len(Tail(rx[w])) = 0
    BY <1>1, <2>1
  <2>3. Tail(rx[w]) = <<>>
    BY Zenon, <2>2, ListEmpty
  <2> QED  BY <1>0, <1>1, <2>3
<1>3. \A v \in Workers : /\ Reported(v)' <=> Reported(v)
                         /\ v # w => (Resting(v)' <=> Resting(v))
  BY <1>1, <1>2 DEF Reported, Resting
<1>4. \A v \in Workers : v # w => (Owes(v)' <=> Owes(v))
  BY <1>2, <1>3 DEF Owes
<1>5. Owes(w)'
  BY Zenon, <1>1, <1>4, OwesKept DEF Owes
<1>6. ~Resting(w)'
  BY Zenon, <1>0, <1>1, <1>2, <1>3, <1>5 DEF Owes, HandshakeInv
<1>7. \A v \in Workers : v # w => StageOf(v)' = StageOf(v)
  BY Zenon, <1>1, <1>2, <1>3, StageSame
<1>8. StageOf(w) = "asked"
  BY <1>1 DEF StageOf
<1>9. StageOf(w)' = IF Stopping THEN "gone" ELSE "working"
  BY <1>1, <1>2, <1>6 DEF StageOf, Stopping
<1>10. main.pc \notin {"done", "fatal"}
  BY <1>1 DEF StopInv, Gone
<1>11. Round # "over" /\ Round' = Round /\ Round = main.bench
  BY <1>0, <1>1, <1>10, MainTypes DEF Round, IInv, MainState
<1>12. StopInv'
  <2>1. ASSUME Stopping  PROVE  worker'[w].at = "exited"
    <3>1. worker' = [worker EXCEPT ![w] = CloseAll(worker[w])]
      BY <1>1, <2>1 DEF StopInv
    <3>2. worker \in [Workers -> WorkerState]
      BY DEF IInv, TypeOK
    <3>3. worker'[w] = CloseAll(worker[w]) /\ worker[w] \in WorkerState
      BY <3>1, <3>2
    <3> QED  BY <3>3 DEF CloseAll, WorkerState
  <2>2. main'.pc \notin {"done", "fatal"} /\ (Stopping' <=> Stopping)
    BY <1>1, <1>10 DEF Stopping
  <2>3. \A v \in Workers : Stopping => Resting(v)' \/ worker'[v].at = "exited"
    BY Zenon, <1>2, <1>3, <2>1 DEF StopInv
  <2>4. \A v \in Workers : rx'[v] # <<>> => (Head(rx'[v]).kind = "Stop" <=> Stopping)
    BY Zenon, <1>2 DEF StopInv
  <2> QED  BY Zenon, <1>1, <2>2, <2>3, <2>4 DEF StopInv
<1>13. R!Move(w, "asked", IF Round \in {"Stop", "Abort"} THEN "gone" ELSE "working")
  BY <1>7, <1>8, <1>9, <1>11, MovesOne DEF Stopping
<1> QED  BY <1>12, <1>13 DEF R!Begin, R!Last

(* Engine::run and Engine::stop, as far as they send and wake. *)
LEMMA SendRound ==
  ASSUME IInv, StopInv, MainSend
  PROVE  R!Ask(main.k) /\ StopInv' /\ main.k \in Workers
<1> DEFINE k == main.k
<1>0. HandshakeInv /\ main \in MainState /\ k \in Workers /\ rx \in [Workers -> Seq(Command)]
  BY MainTypes DEF IInv, TypeOK
<1>1. /\ main.pc = "send" /\ rx' = [rx EXCEPT ![k] = Append(@, CommandFor(k))]
      /\ main' = [main EXCEPT !.pc = "wake"] /\ UNCHANGED <<worker, results>>
  BY DEF MainSend
<1>2. main'.pc = "wake" /\ main'.k = k /\ main'.bench = main.bench
  BY <1>0, <1>1 DEF MainState
<1>3. k \in Int /\ Workers \subseteq Int
  BY <1>0, EngineAssumption DEF Workers
<1>4. ~Owes(k)
  BY <1>0, <1>1, <1>3 DEF HandshakeInv
<1>5. PICK cmd : cmd = CommandFor(k)
  OBVIOUS
<1>6. cmd.kind = "Stop" <=> Stopping
  <2>1. main.bench \in {"Dial", "Warmup", "Echo", "Rate", "Stop", "Abort"}
    BY <1>0 DEF MainState
  <2> QED  BY <1>5, <2>1 DEF CommandFor, Stopping
<1>7. rx'[k] = <<cmd>> /\ \A v \in Workers : v # k => rx'[v] = rx[v]
  <2>1. rx[k] = <<>>
    BY <1>4 DEF Owes
  <2>2. Append(<<>>, cmd) = <<cmd>>
    OBVIOUS
  <2> QED  BY <1>0, <1>1, <1>5, <2>1, <2>2
<1>8. <<cmd>> # <<>> /\ Head(<<cmd>>) = cmd
  OBVIOUS
<1>9. \A v \in Workers : (Resting(v)' <=> Resting(v)) /\ (Reported(v)' <=> Reported(v))
  BY <1>1 DEF Resting, Reported
<1>10. (Stopping' <=> Stopping) /\ Round' = Round /\ Round # "over"
  BY <1>0, <1>1, <1>2 DEF Stopping, Round, MainState
<1>11. \A v \in Workers : v # k => StageOf(v)' = StageOf(v)
  <2> SUFFICES ASSUME NEW v \in Workers, v # k  PROVE  StageOf(v)' = StageOf(v)
    OBVIOUS
  <2>1. ToAsk(v)' <=> ToAsk(v)
    BY <1>1, <1>2, <1>3 DEF ToAsk
  <2>2. rx'[v] = rx[v]
    BY <1>7
  <2> QED  BY Zenon, <1>9, <1>10, <2>1, <2>2 DEF StageOf
<1>12. StageOf(k) = "rest"
  <2>1. ToAsk(k)
    BY <1>1, <1>3 DEF ToAsk
  <2> QED  BY <1>0, <1>4, <2>1, StageCases
<1>13. ASSUME NEW w \in Workers, w = k  PROVE  StageOf(w)' = "asked"
  BY <1>7, <1>8, <1>13 DEF StageOf
<1>14. ASSUME NEW w \in Workers, w = k  PROVE  R!Ask(w)
  <2>1. R!Move(w, "rest", "asked")
    BY Zenon, <1>10, <1>11, <1>12, <1>13, <1>14, MovesOne
  <2> QED  BY <2>1 DEF R!Ask
<1>15. StopInv'
  <2>1. \A v \in Workers : rx'[v] # <<>> => (Head(rx'[v]).kind = "Stop" <=> Stopping)
    BY Zenon, <1>6, <1>7, <1>8 DEF StopInv
  <2>2. \A v \in Workers : Stopping => Resting(v)' \/ worker'[v].at = "exited"
    BY Zenon, <1>1, <1>9 DEF StopInv
  <2> QED  BY <1>2, <1>10, <2>1, <2>2 DEF StopInv
<1> QED  BY <1>0, <1>14, <1>15

(* MainWake is a stutter of the rounds. *)
LEMMA WakeRound ==
  ASSUME IInv, StopInv, MainWake
  PROVE  UNCHANGED R!vars /\ StopInv'
<1> DEFINE k == main.k
<1>0. main \in MainState /\ k \in Workers
  BY MainTypes DEF IInv
<1>1. /\ main.pc = "wake" /\ UNCHANGED <<worker, rx, results>>
      /\ main' = IF k < NumWorkers THEN [main EXCEPT !.pc = "send", !.k = @ + 1]
                 ELSE IF main.bench \in {"Stop", "Abort"} THEN [main EXCEPT !.pc = "join"]
                 ELSE [main EXCEPT !.pc = "wait", !.pending = NumWorkers]
  BY DEF MainWake
<1>2. /\ main'.bench = main.bench
      /\ \/ k < NumWorkers /\ main'.pc = "send" /\ main'.k = k + 1
         \/ ~(k < NumWorkers) /\ Stopping /\ main'.pc = "join"
         \/ ~(k < NumWorkers) /\ ~Stopping /\ main'.pc = "wait"
  BY <1>0, <1>1 DEF MainState, Stopping
<1>3. \A v \in Workers : ToAsk(v)' <=> ToAsk(v)
  BY <1>0, <1>1, <1>2, EngineAssumption DEF ToAsk, Workers
<1>4. (Stopping' <=> Stopping) /\ Round' = Round
  BY <1>0, <1>1, <1>2 DEF Stopping, Round, MainState
<1>5. \A v \in Workers : (Resting(v)' <=> Resting(v)) /\ (Reported(v)' <=> Reported(v))
  BY <1>1, OwesSame
<1>6. \A v \in Workers : StageOf(v)' = StageOf(v)
  BY Zenon, <1>1, <1>3, <1>4, <1>5 DEF StageOf
<1>7. StopInv'
  <2>1. /\ Stopping' => main'.pc # "wait"
        /\ main'.pc = "join" => Stopping'
        /\ main'.pc \notin {"done", "fatal"}
    BY <1>2, <1>4
  <2>2. \A v \in Workers : /\ rx'[v] # <<>> => (Head(rx'[v]).kind = "Stop" <=> Stopping')
                           /\ Stopping' => Resting(v)' \/ worker'[v].at = "exited"
    BY Zenon, <1>1, <1>4, <1>5 DEF StopInv
  <2> QED  BY Zenon, <2>1, <2>2 DEF StopInv
<1> QED  BY <1>4, <1>6, <1>7, MovesNone

(* Engine::run goes on to the next benchmark, or stop has ended. *)
LEMMA NextRoundStep ==
  ASSUME SetFacts, IInv, StopInv, MainNext
  PROVE  R!NextRound /\ StopInv'
<1>0. HandshakeInv /\ main \in MainState
  BY MainTypes DEF IInv
<1>1. /\ main.pc = "wait" /\ main.pending = 0 /\ UNCHANGED <<worker, rx, results>>
      /\ main'.pc = "send" /\ main'.k = 1 /\ main'.bench = NextBench
  BY <1>0 DEF MainNext, MainState
<1>2. \A w \in Workers : ~Owes(w)
  <2>1. Cardinality({w \in Workers : Owes(w)}) = 0
    BY <1>0, <1>1 DEF HandshakeInv
  <2>2. IsFiniteSet({w \in Workers : Owes(w)})
    BY WorkersFinite DEF SetFacts, CountSubset
  <2> QED  BY <2>1, <2>2 DEF SetFacts, CountEmpty
<1>3. \A w \in Workers : StageOf(w) = "done"
  BY Zenon, <1>0, <1>1, <1>2, StageCases DEF ToAsk
<1>4. \A w \in Workers : (Owes(w)' <=> Owes(w)) /\ (Resting(w)' <=> Resting(w))
  BY <1>1, OwesSame
<1>5. \A w \in Workers : StageOf(w)' = "rest"
  <2>1. \A w \in Workers : rx'[w] = <<>> /\ Resting(w)' /\ ~Reported(w)'
    BY <1>2, <1>4 DEF Owes
  <2>2. \A w \in Workers : w >= 1
    BY EngineAssumption DEF Workers
  <2> QED  BY Zenon, <1>1, <2>1, <2>2 DEF StageOf, ToAsk
<1>6. main.bench \in {"Dial", "Warmup", "Echo", "Rate"}
  BY <1>0, <1>1 DEF MainState, StopInv, Stopping
<1>7. Round = main.bench /\ Round' = NextBench
  BY <1>1 DEF Round
<1>8. NextBench \in R!After(main.bench)
  BY <1>6 DEF NextBench, R!After
<1>9. Stage' = [w \in Workers |-> "rest"] /\ \A w \in Workers : Stage[w] = "done"
  BY <1>3, <1>5 DEF Stage
<1>10. R!NextRound
  BY <1>6, <1>7, <1>8, <1>9 DEF R!NextRound, R!Last
<1>11. StopInv'
  <2>1. \A w \in Workers : rx'[w] = <<>> /\ Resting(w)'
    BY <1>2, <1>4 DEF Owes
  <2> QED  BY <1>1, <2>1 DEF StopInv
<1> QED  BY <1>10, <1>11

(* The end of the client ends the rounds. *)
LEMMA EndRound ==
  ASSUME IInv, StopInv, MainDisconnected \/ MainJoin
  PROVE  (R!End \/ R!GiveUp) /\ StopInv'
<1>0. HandshakeInv /\ main \in MainState
  BY MainTypes DEF IInv
<1>1. /\ \A w \in Workers : Gone(w)
      /\ main'.pc \in {"fatal", "done"} /\ main'.bench = main.bench
      /\ UNCHANGED <<worker, rx, results>>
  BY <1>0 DEF MainDisconnected, MainJoin, MainState
<1>2. \/ main.pc = "wait" /\ ~Stopping
      \/ main.pc = "join" /\ Stopping
  BY DEF MainDisconnected, MainJoin, StopInv
<1>3. \A w \in Workers : ~Resting(w) /\ ~Resting(w)'
  BY <1>1 DEF Gone, Resting
<1>4. \A w \in Workers : /\ StageOf(w) = IF Stopping THEN "gone" ELSE "working"
                         /\ rx[w] = <<>>
  BY Zenon, <1>0, <1>3, StageCases
<1>5. Stopping' <=> Stopping
  BY <1>1 DEF Stopping
<1>6. \A w \in Workers : StageOf(w)' = StageOf(w)
  BY <1>1, <1>3, <1>4, <1>5 DEF StageOf
<1>7. Round = main.bench /\ Round' = "over"
  BY <1>1, <1>2 DEF Round
<1>8. Stage' = Stage /\ \A w \in Workers : Stage[w] = IF Stopping THEN "gone" ELSE "working"
  BY <1>4, <1>6 DEF Stage
<1>9. main.bench # "over"
  BY <1>0 DEF MainState
<1>10. R!End \/ R!GiveUp
  BY <1>7, <1>8, <1>9 DEF R!End, R!GiveUp, R!Last, Stopping
<1>11. StopInv'
  <2>1. \A w \in Workers : Gone(w)' /\ rx'[w] = <<>>
    BY <1>1, <1>4 DEF Gone
  <2>2. \A w \in Workers : Stopping => worker'[w].at = "exited"
    BY Zenon, <1>1, <1>3 DEF StopInv
  <2> QED  BY <1>1, <1>5, <2>1, <2>2 DEF StopInv
<1> QED  BY <1>10, <1>11

(* Engine::run takes an outcome. *)
LEMMA CollectRound ==
  ASSUME IInv, StopInv, MainRecv
  PROVE  R!Collect(Head(results).id) /\ StopInv' /\ Head(results).id \in Workers
<1>0. HandshakeInv /\ main \in MainState /\ Head(results).id \in Workers
  BY MainTypes, TakesOne DEF IInv
<1>1. PICK v \in Workers : v = Head(results).id
  BY <1>0
<1>2. /\ main.pc = "wait" /\ main'.pc = "wait" /\ main'.bench = main.bench
      /\ UNCHANGED <<worker, rx>>
  BY <1>0 DEF MainRecv, MainState
<1>3. Reported(v) /\ \A w \in Workers : Reported(w)' <=> Reported(w) /\ w # v
  BY <1>1, TakesOne
<1>4. \A w \in Workers : Resting(w)' <=> Resting(w)
  BY <1>2 DEF Resting
<1>5. \A w \in Workers : ~ToAsk(w) /\ ~ToAsk(w)'
  BY <1>2 DEF ToAsk
<1>6. (Stopping' <=> Stopping) /\ Round' = Round /\ Round # "over"
  BY <1>0, <1>2 DEF Stopping, Round, MainState
<1>7. \A w \in Workers : w # v => StageOf(w)' = StageOf(w)
  BY Zenon, <1>2, <1>3, <1>4, <1>5, <1>6 DEF StageOf
<1>8. StageOf(v) = "reported" /\ rx[v] = <<>> /\ Resting(v)
  BY <1>0, <1>3, StageCases
<1>9. StageOf(v)' = "done"
  BY Zenon, <1>2, <1>3, <1>4, <1>5, <1>8 DEF StageOf
<1>10. R!Move(v, "reported", "done")
  BY Zenon, <1>6, <1>7, <1>8, <1>9, MovesOne
<1>11. \A w \in Workers : Stage[w] # "rest"
  BY <1>5 DEF Stage, StageOf
<1>12. StopInv'
  BY Zenon, <1>2, <1>4, <1>6 DEF StopInv
<1> QED  BY <1>0, <1>1, <1>10, <1>11, <1>12 DEF R!Collect

(* Every step of the engine is a step of Rounds or leaves its state alone. *)
LEMMA RoundStep ==
  ASSUME SetFacts, IInv, IInv', StopInv, [Next]_vars
  PROVE  [R!Next]_R!vars /\ StopInv'
<1>1. CASE UNCHANGED vars
  <2>1. UNCHANGED <<worker, rx, results, main>>
    BY <1>1 DEF vars
  <2>2. \A w \in Workers : (Resting(w)' <=> Resting(w)) /\ (Reported(w)' <=> Reported(w))
    BY <2>1, OwesSame
  <2>3. \A w \in Workers : StageOf(w)' = StageOf(w)
    BY Zenon, <2>1, <2>2, StageSame
  <2>4. Round' = Round
    BY <2>1 DEF Round
  <2>5. StopInv'
    BY <2>1 DEF StopInv, Stopping, Resting, Gone
  <2> QED  BY <2>3, <2>4, <2>5, MovesNone
<1>2. CASE MainStep
  <2>1. CASE MainSend
    BY Zenon, <2>1, SendRound DEF R!Next
  <2>2. CASE MainWake
    BY Zenon, <2>2, WakeRound
  <2>3. CASE MainRecv
    BY Zenon, <2>3, CollectRound DEF R!Next
  <2>4. CASE MainDisconnected \/ MainJoin
    BY Zenon, <2>4, EndRound DEF R!Next
  <2>5. CASE MainNext
    BY Zenon, <2>5, NextRoundStep DEF R!Next
  <2> QED  BY Zenon, <1>2, <2>1, <2>2, <2>3, <2>4, <2>5 DEF MainStep
<1>3. ASSUME NEW w \in Workers,
             RetryDue(w) \/ DriveStep(w) \/ \E i \in Slots : NetworkStep(w, i)
      PROVE  [R!Next]_R!vars /\ StopInv'
  <2>1. /\ ~Gone(w) /\ UNCHANGED <<rx, main>>
        /\ \E s : worker' = [worker EXCEPT ![w] = s]
        /\ UNCHANGED results \/ (FinishPhase(w) /\ worker[w].phase.kind # "Idle")
    BY Zenon, <1>3, OneSteps
  <2>2. CASE UNCHANGED results
    BY Zenon, <2>1, <2>2, WorkerStepRound
  <2>3. CASE FinishPhase(w) /\ worker[w].phase.kind # "Idle"
    BY Zenon, <2>1, <2>3, FinishRound DEF R!Next
  <2> QED  BY <2>1, <2>2, <2>3
<1>4. ASSUME NEW w \in Workers, Recv(w)
      PROVE  [R!Next]_R!vars /\ StopInv'
  BY Zenon, <1>4, RecvRound DEF R!Next
<1>5. CASE Ended
  BY <1>1, <1>5 DEF Ended
<1> QED  BY Zenon, <1>1, <1>2, <1>3, <1>4, <1>5 DEF Next

(* The threads as Engine::new leaves them. *)
LEMMA RoundInit ==
  ASSUME Init, IInv
  PROVE  R!Init /\ StopInv
<1>1. /\ main.pc = "send" /\ main.k = 1 /\ main.bench = "Dial" /\ results = <<>>
      /\ \A w \in Workers : rx[w] = <<>>
  BY Zenon DEF Init
<1>2. \A w \in Workers : ~Owes(w) /\ ToAsk(w)
  BY <1>1, EngineAssumption DEF IInv, HandshakeInv, ToAsk, Workers
<1>3. \A w \in Workers : StageOf(w) = "rest"
  BY Zenon, <1>2, StageCases DEF IInv
<1>4. Round = "Dial" /\ ~Stopping
  BY <1>1 DEF Round, Stopping
<1>5. R!Init
  BY <1>3, <1>4 DEF R!Init, Stage
<1> QED  BY <1>1, <1>4, <1>5 DEF StopInv


-----------------------------------------------------------------------------
(* The actions of Engine as steps of one worker. *)

(* Sockets register without error. *)
Registers == "register" \notin DialErrors

(* The requests BenchMultiplex may have open on a connection. *)
Most == MAX_BATCHES_IN_FLIGHT * Batch

(* The actions that are a step of worker w and touch no channel. *)
HandlerStep(w) ==
  \/ \E i \in Slots : NetworkStep(w, i)
  \/ RetryDue(w) \/ NextDial(w) \/ Redial(w)
  \/ StartDials(w) \/ RedialsDialed(w) \/ RateBegin(w)
  \/ EchoReturn(w) \/ TickEnd(w) \/ RateTick(w) \/ RateDeadline(w)
  \/ TickNext(w)

(* Worker w takes a step to t. *)
StepTo(w, t) == Step(w, t) /\ Handles(worker[w], t, Most) /\ faults' \in 0..MaxFaults

(* The bound on the environment's faults is kept by spending. *)
LEMMA SpendType ==
  ASSUME IInv, NEW n \in Nat, Spend(n)
  PROVE  faults' \in 0..MaxFaults
BY EngineAssumption DEF IInv, TypeOK, Spend

(* What an outcome costs is a natural number. *)
LEMMA CostTypes ==
  /\ \A r : DialCost(r) \in Nat
  /\ \A c, r : SendCost(c, r) \in Nat
BY DEF DialCost, SendCost

(* Without register errors, a dial has one of three outcomes. *)
LEMMA DialOutcome ==
  ASSUME Registers
  PROVE  DialOutcomes \subseteq DialedAs
BY EngineAssumption DEF Registers, DialOutcomes, DialedAs

(* What the invariant says of one worker. *)
LEMMA OneWorker ==
  ASSUME IInv, NEW w \in Workers
  PROVE  /\ WorkerInv(worker[w]) /\ worker[w] \in WorkerState
         /\ Resting(w) <=> Rests(worker[w])
<1>1. WorkerInv(worker[w])
  BY DEF IInv, WorkersInv
<1>2. worker[w] \in WorkerState
  BY <1>1 DEF WorkerInv, Inv
<1>3. Resting(w) <=> Rests(worker[w])
  BY DEF Resting, Rests
<1> QED  BY <1>1, <1>2, <1>3

(* The network and the timers. *)
LEMMA NetworkHandled ==
  ASSUME IInv, NEW w \in Workers, NEW i \in Slots, NetworkStep(w, i)
  PROVE  \E t : StepTo(w, t)
<1> DEFINE s == worker[w]
<1>0. ASSUME NEW t, Step(w, t), NetStep(s, t, i), faults' \in 0..MaxFaults
      PROVE  \E u : StepTo(w, u)
  BY Zenon, <1>0 DEF StepTo, Handles
<1>1. CASE OnEstablished(w, i)
  <2>1. PICK r \in SendOutcomes, rq \in SendOutcomes :
             /\ Spend(SendCost(s.slots[i], r) + SendCost(s.slots[i], rq))
             /\ Step(w, Established(s, i, r, rq))
    BY <1>1 DEF OnEstablished
  <2>2. SendCost(s.slots[i], r) + SendCost(s.slots[i], rq) \in Nat
    BY CostTypes
  <2>3. NetStep(s, Established(s, i, r, rq), i)
    BY Zenon, <1>1 DEF OnEstablished, NetStep, SentAs, SendOutcomes
  <2> QED  BY Zenon, <1>0, <2>1, <2>2, <2>3, SpendType
<1>2. CASE OnStreamDone(w, i)
  <2>1. PICK kind \in Kinds, res \in {"ok", "bad", "err"},
             r \in SendOutcomes, rq \in SendOutcomes :
             /\ s.slots[i].streams[kind] > 0
             /\ Spend((IF res = "ok" THEN 0 ELSE 1)
                      + SendCost(s.slots[i], r) + SendCost(s.slots[i], rq))
             /\ Step(w, StreamDone(s, i, kind, res, r, rq))
    BY <1>2 DEF OnStreamDone
  <2>2. (IF res = "ok" THEN 0 ELSE 1) + SendCost(s.slots[i], r) + SendCost(s.slots[i], rq) \in Nat
    BY CostTypes
  <2>3. NetStep(s, StreamDone(s, i, kind, res, r, rq), i)
    BY Zenon, <2>1 DEF NetStep, SentAs, SendOutcomes
  <2> QED  BY Zenon, <1>0, <2>1, <2>2, <2>3, SpendType
<1>3. CASE OnRoom(w, i)
  <2>1. PICK rq \in {"ok", "failed"} :
             Spend(SendCost(s.slots[i], rq)) /\ Step(w, SendQueued(s, i, rq))
    BY <1>3 DEF OnRoom
  <2>2. NetStep(s, SendQueued(s, i, rq), i)
    BY Zenon, <1>3 DEF OnRoom, NetStep
  <2> QED  BY Zenon, <1>0, <2>1, <2>2, CostTypes, SpendType
<1>4. CASE OnClosed(w, i)
  <2>1. Spend(IF s.slots[i].closing THEN 0 ELSE 1) /\ Step(w, Closed(s, i))
    BY <1>4 DEF OnClosed
  <2>2. (IF s.slots[i].closing THEN 0 ELSE 1) \in Nat
    OBVIOUS
  <2>3. NetStep(s, Closed(s, i), i)
    BY Zenon, <1>4 DEF OnClosed, NetStep
  <2> QED  BY Zenon, <1>0, <2>1, <2>2, <2>3, SpendType
<1>5. CASE OnGoAway(w, i) \/ OnProtocolError(w, i) \/ DialTimeout(w, i)
  <2>1. PICK t : Step(w, t) /\ NetStep(s, t, i)
    BY Zenon, <1>5 DEF OnGoAway, OnProtocolError, DialTimeout, NetStep
  <2>2. Spend(1)
    BY <1>5 DEF OnGoAway, OnProtocolError, DialTimeout
  <2>3. faults' \in 0..MaxFaults
    BY <2>2, SpendType
  <2> QED  BY Zenon, <1>0, <2>1, <2>3
<1> QED  BY Zenon, <1>1, <1>2, <1>3, <1>4, <1>5 DEF NetworkStep

(* The slots are taken in their order: a set of slots has a first one. *)
LEMMA FirstSlot ==
  ASSUME SetFacts, NEW S \in SUBSET Slots, S # {}
  PROVE  First(S) \in S
<1>1. S \in SUBSET Nat
  BY WorkerAssumption DEF Slots
<1>2. \E x \in S : \A y \in S : x <= y
  BY Zenon, <1>1 DEF SetFacts, LeastNat
<1> QED  BY Zenon, <1>2 DEF First

(* The dials of fire_retries, of drive and of start. *)
LEMMA DialHandled ==
  ASSUME SetFacts, IInv, Registers, NEW w \in Workers, RetryDue(w) \/ NextDial(w) \/ Redial(w)
  PROVE  \E t : StepTo(w, t)
<1> DEFINE s == worker[w]
<1>0. DialOutcomes \subseteq DialedAs /\ s \in WorkerState
  BY DialOutcome, OneWorker
<1>1. PICK r \in DialOutcomes : Spend(DialCost(r)) /\ \E t : Step(w, t) /\ DialStep(s, t)
  <2>1. CASE RetryDue(w)
    BY Zenon, <1>0, <2>1 DEF RetryDue, Polling, DialStep
  <2>2. CASE NextDial(w)
    BY Zenon, <1>0, <2>2 DEF NextDial, DialStep
  <2>3. CASE Redial(w)
    <3>1. s.todo \in SUBSET Slots /\ s.todo # {}
      BY Zenon, <1>0, <2>3 DEF WorkerState, Redial
    <3>2. First(s.todo) \in s.todo
      BY <3>1, FirstSlot
    <3> QED  BY Zenon, <1>0, <2>3, <3>2 DEF Redial, DialStep
  <2> QED  BY <2>1, <2>2, <2>3
<1>2. faults' \in 0..MaxFaults
  BY <1>1, CostTypes, SpendType
<1> QED  BY Zenon, <1>1, <1>2 DEF StepTo, Handles

(* drive. *)
LEMMA TurnHandled ==
  ASSUME IInv, NEW w \in Workers,
         \/ StartDials(w) \/ RedialsDialed(w) \/ RateBegin(w)
         \/ EchoReturn(w) \/ TickEnd(w) \/ RateTick(w) \/ RateDeadline(w)
  PROVE  \E t : StepTo(w, t)
<1>1. PICK t : Step(w, t) /\ TurnStep(worker[w], t)
  BY Zenon DEF StartDials, RedialsDialed, RateBegin, EchoReturn, TickEnd, RateTick, RateDeadline,
               Polling, TurnStep
<1>2. faults' = faults /\ faults \in 0..MaxFaults
  BY Zenon DEF StartDials, RedialsDialed, RateBegin, EchoReturn, TickEnd, RateTick, RateDeadline,
               IInv, TypeOK
<1> QED  BY Zenon, <1>1, <1>2 DEF StepTo, Handles

(* rate_tick. *)
LEMMA TickHandled ==
  ASSUME SetFacts, IInv, NEW w \in Workers, TickNext(w)
  PROVE  \E t : StepTo(w, t)
<1> DEFINE s == worker[w]
           i == First(s.todo)
           u == [s EXCEPT !.todo = @ \ {i}]
<1>1. s.at = "ticking" /\ s.todo # {} /\ s \in WorkerState
  BY OneWorker DEF TickNext
<1>2. s.todo \in SUBSET Slots
  BY Zenon, <1>1 DEF WorkerState
<1>3. i \in s.todo
  BY <1>1, <1>2, FirstSlot
<1>4. CASE Step(w, u) /\ UNCHANGED faults
  <2>1. faults' \in 0..MaxFaults
    BY <1>4 DEF IInv, TypeOK
  <2> QED  BY Zenon, <1>1, <1>3, <1>4, <2>1 DEF StepTo, Handles, TickStep
<1>5. CASE /\ MayTick(s, i, Batch, Batch * MAX_BATCHES_IN_FLIGHT)
           /\ \E n \in 0..Batch, r \in SendOutcomes :
                Spend(SendCost(s.slots[i], r)) /\ Step(w, TickConn(u, i, n, r))
  <2>1. PICK n \in 0..Batch, r \in SendOutcomes :
          Spend(SendCost(s.slots[i], r)) /\ Step(w, TickConn(u, i, n, r))
    BY Zenon, <1>5
  <2>2. faults' \in 0..MaxFaults
    BY Zenon, <2>1, CostTypes, SpendType
  <2>3. s.slots[i].state = "ready" /\ s.slots[i].in_flight + Batch <= Batch * MAX_BATCHES_IN_FLIGHT
    BY Zenon, <1>5 DEF MayTick
  <2>4. s.slots[i].in_flight \in Nat
    BY Zenon, <1>1, <1>2, <1>3 DEF WorkerState, Conn
  <2> HIDE DEF i, s
  <2>5. n \in Nat /\ s.slots[i].in_flight + n <= Most
    BY <2>3, <2>4, EngineAssumption DEF Most, MAX_BATCHES_IN_FLIGHT
  <2> HIDE DEF u
  <2>6. TickStep(s, TickConn(u, i, n, r), Most)
    BY Zenon, <1>1, <1>3, <2>3, <2>5 DEF TickStep, SentAs, SendOutcomes, u
  <2> QED  BY Zenon, <2>1, <2>2, <2>6 DEF StepTo, Handles, s
<1> QED  BY Zenon, <1>4, <1>5 DEF TickNext

(* Each of them is a step of the worker. *)
LEMMA Handled ==
  ASSUME SetFacts, IInv, Registers, NEW w \in Workers, HandlerStep(w)
  PROVE  \E t : StepTo(w, t)
BY Zenon, NetworkHandled, DialHandled, TurnHandled, TickHandled DEF HandlerStep

-----------------------------------------------------------------------------
(* What a step of the whole engine leaves of the invariant. *)

(* Worker w takes a step to s that leaves the other threads alone. *)
LEMMA WorkerStep ==
  ASSUME TypeOK, WorkersInv, NEW w \in Workers, NEW s, WorkerInv(s),
         worker' = [worker EXCEPT ![w] = s]
  PROVE  worker' \in [Workers -> WorkerState] /\ WorkersInv' /\ worker'[w] = s
         /\ \A v \in Workers : v # w => worker'[v] = worker[v]
<1>1. s \in WorkerState /\ worker \in [Workers -> WorkerState]
  BY DEF WorkerInv, Inv, TypeOK
<1>2. worker' \in [Workers -> WorkerState] /\ worker'[w] = s
      /\ \A v \in Workers : v # w => worker'[v] = worker[v]
  BY <1>1
<1>3. WorkersInv'
  BY <1>2 DEF WorkersInv
<1> QED  BY <1>2, <1>3

(* A step that sends and receives nothing, of a worker that rests before and
   after it or neither. *)
LEMMA StepHandshake ==
  ASSUME HandshakeInv, NEW w \in Workers,
         \A v \in Workers : v # w => worker'[v] = worker[v],
         Resting(w)' <=> Resting(w), UNCHANGED <<rx, results, main>>
  PROVE  HandshakeInv'
<1>1. \A v \in Workers : Resting(v)' <=> Resting(v)
  BY DEF Resting
<1>2. \A v \in Workers : Reported(v)' <=> Reported(v)
  BY DEF Reported
<1>3. \A v \in Workers : Owes(v)' <=> Owes(v)
  BY <1>1, <1>2 DEF Owes
<1>4. {v \in Workers : Owes(v)}' = {v \in Workers : Owes(v)}
  BY <1>3
<1> QED  BY Zenon, <1>1, <1>2, <1>3, <1>4 DEF HandshakeInv

(* finish: the outcome stands for the benchmark that ended. *)
LEMMA FinishHandshake ==
  ASSUME HandshakeInv, TypeOK, NEW w \in Workers, ~Resting(w), Resting(w)',
         \A v \in Workers : v # w => worker'[v] = worker[v],
         NEW o \in Phase, results' = Append(results, [id |-> w, outcome |-> o]),
         UNCHANGED <<rx, main>>
  PROVE  HandshakeInv'
<1> DEFINE n == Len(results)
<1>1. /\ results \in Seq(Outcome) /\ n \in Nat
      /\ Len(results') = n + 1 /\ results'[n + 1].id = w
      /\ \A m \in 1..n : results'[m] = results[m]
  <2>1. results \in Seq(Outcome)
    BY DEF TypeOK
  <2>2. [id |-> w, outcome |-> o] \in Outcome
    BY DEF Outcome
  <2> QED  BY <2>1, <2>2
<1>2. ~Reported(w) /\ rx[w] = <<>>
  BY DEF HandshakeInv
<1>3. \A v \in Workers : v # w => (Resting(v)' <=> Resting(v))
  BY DEF Resting
<1>4. \A v \in Workers : Reported(v)' <=> Reported(v) \/ v = w
  <2>1. ASSUME NEW v \in Workers, Reported(v)  PROVE  Reported(v)'
    <3>1. PICK m \in 1..n : results[m].id = v
      BY <2>1 DEF Reported
    <3> QED  BY <1>1, <3>1 DEF Reported
  <2>2. Reported(w)'
    <3>1. n + 1 \in 1..Len(results')
      BY <1>1
    <3> QED  BY <1>1, <3>1 DEF Reported
  <2>3. ASSUME NEW v \in Workers, Reported(v)', v # w  PROVE  Reported(v)
    <3>1. PICK m \in 1..Len(results') : results'[m].id = v
      BY <2>3 DEF Reported
    <3>2. m \in 1..n
      BY <1>1, <2>3, <3>1
    <3> QED  BY <1>1, <3>1, <3>2 DEF Reported
  <2> QED  BY <2>1, <2>2, <2>3
<1>5. \A v \in Workers : Owes(v)' <=> Owes(v)
  BY <1>3, <1>4 DEF Owes
<1>6. {v \in Workers : Owes(v)}' = {v \in Workers : Owes(v)}
  BY <1>5
<1>7. ASSUME NEW l \in 1..Len(results'), NEW m \in 1..Len(results'),
             results'[l].id = results'[m].id
      PROVE  l = m
  <2>1. \A k \in 1..n : results[k].id # w
    BY <1>2 DEF Reported
  <2>2. l \in 1..n \/ l = n + 1
    BY <1>1
  <2>3. m \in 1..n \/ m = n + 1
    BY <1>1
  <2>4. CASE l \in 1..n /\ m \in 1..n
    BY <1>1, <1>7, <2>4 DEF HandshakeInv
  <2> QED  BY <1>1, <1>7, <2>1, <2>2, <2>3, <2>4
<1>8. \A v \in Workers : rx'[v] # <<>> => Len(rx'[v]) = 1 /\ Resting(v)' /\ ~Reported(v)'
  BY <1>2, <1>3, <1>4 DEF HandshakeInv
<1>9. \A v \in Workers : Reported(v)' => Resting(v)'
  BY <1>3, <1>4 DEF HandshakeInv
<1> QED  BY Zenon, <1>5, <1>6, <1>7, <1>8, <1>9 DEF HandshakeInv

(* A command is received: the worker is busy instead of asked. *)
LEMMA RecvHandshake ==
  ASSUME HandshakeInv, TypeOK, NEW w \in Workers, rx[w] # <<>>, ~Resting(w)',
         \A v \in Workers : v # w => worker'[v] = worker[v],
         rx' = [rx EXCEPT ![w] = Tail(@)], UNCHANGED <<results, main>>
  PROVE  HandshakeInv'
<1>1. rx \in [Workers -> Seq(Command)] /\ Len(rx[w]) = 1 /\ ~Reported(w)
  BY DEF HandshakeInv, TypeOK
<1>2. rx'[w] = <<>> /\ \A v \in Workers : v # w => rx'[v] = rx[v]
  <2>1. Tail(rx[w]) \in Seq(Command) /\ Len(Tail(rx[w])) = 0
    BY <1>1
  <2>2. Tail(rx[w]) = <<>>
    BY Zenon, <2>1, ListEmpty
  <2> QED  BY <1>1, <2>2
<1>3. \A v \in Workers : v # w => (Resting(v)' <=> Resting(v))
  BY DEF Resting
<1>4. \A v \in Workers : Reported(v)' <=> Reported(v)
  BY DEF Reported
<1>5. \A v \in Workers : Owes(v)' <=> Owes(v)
  BY <1>2, <1>3, <1>4 DEF Owes
<1>6. {v \in Workers : Owes(v)}' = {v \in Workers : Owes(v)}
  BY <1>5
<1>7. \A v \in Workers : rx'[v] # <<>> => Len(rx'[v]) = 1 /\ Resting(v)' /\ ~Reported(v)'
  BY <1>2, <1>3, <1>4 DEF HandshakeInv
<1>8. \A v \in Workers : Reported(v)' => Resting(v)'
  BY <1>1, <1>3, <1>4 DEF HandshakeInv
<1> QED  BY Zenon, <1>4, <1>5, <1>6, <1>7, <1>8 DEF HandshakeInv

(* A step of worker w to s; what else it changes keeps its type. *)
LEMMA WorkerChange ==
  ASSUME IInv, NEW w \in Workers, NEW s, WorkerInv(s), worker' = [worker EXCEPT ![w] = s],
         UNCHANGED <<rx, woken, results, main>>, job' \in EchoJob,
         drawn' \in [Workers -> SUBSET Nat], faults' \in 0..MaxFaults,
         Rests(s) <=> Rests(worker[w])
  PROVE  IInv'
<1>1. TypeOK /\ WorkersInv /\ HandshakeInv
  BY DEF IInv
<1>2. /\ worker' \in [Workers -> WorkerState] /\ WorkersInv' /\ worker'[w] = s
      /\ \A v \in Workers : v # w => worker'[v] = worker[v]
  BY Zenon, <1>1, WorkerStep
<1>3. TypeOK'
  BY <1>1, <1>2 DEF TypeOK
<1>4. Resting(w)' <=> Resting(w)
  BY <1>2 DEF Resting, Rests
<1>5. HandshakeInv'
  BY <1>1, <1>2, <1>4, StepHandshake
<1> QED  BY <1>2, <1>3, <1>5 DEF IInv

(* What a handler, a timer or a turn of drive keeps. *)
LEMMA StepInv ==
  ASSUME WorkerKeeps, IInv, NEW w \in Workers, NEW t, StepTo(w, t)
  PROVE  IInv'
<1>1. WorkerInv(t) /\ (Rests(t) <=> Rests(worker[w]))
  BY Zenon, OneWorker DEF StepTo, WorkerKeeps, HandlesKeeps
<1>2. job' \in EchoJob /\ drawn' \in [Workers -> SUBSET Nat]
  BY DEF IInv, TypeOK, Step, StepTo
<1> QED  BY Zenon, <1>1, <1>2, WorkerChange DEF Step, StepTo

(* finish is called when a benchmark has come to its end. *)
LEMMA Finished ==
  ASSUME NEW w \in Workers, FinishDial(w) \/ FinishEcho(w) \/ FinishRate(w)
  PROVE  FinishPhase(w) /\ Finishes(worker[w])
<1>1. CASE FinishDial(w)
  BY Zenon, <1>1 DEF FinishDial, Polling, Finishes
<1>2. CASE FinishEcho(w)
  BY Zenon, <1>2 DEF FinishEcho, Driving, Finishes
<1>3. CASE FinishRate(w)
  BY Zenon, <1>3 DEF FinishRate, Polling, Finishes
<1> QED  BY <1>1, <1>2, <1>3

(* finish: the outcome is sent to main, and the worker rests. *)
LEMMA FinishPhaseInv ==
  ASSUME WorkerKeeps, IInv, NEW w \in Workers, FinishPhase(w), Finishes(worker[w])
  PROVE  IInv'
<1> DEFINE s == worker[w]
           t == Finish(s)
<1>0. TypeOK /\ WorkersInv /\ HandshakeInv /\ WorkerInv(s) /\ s \in WorkerState
  BY OneWorker DEF IInv
<1>1. WorkerInv(t) /\ Rests(t)
  BY Zenon, <1>0 DEF WorkerKeeps, FinishesKeeps
<1>2. ~Rests(s)
  BY DEF Finishes, Rests
<1>3. /\ worker' = [worker EXCEPT ![w] = t] /\ UNCHANGED <<rx, woken, job, main, faults, drawn>>
      /\ results' = Append(results, [id |-> w, outcome |-> s.phase])
  BY DEF FinishPhase
<1>4. s.phase \in Phase
  BY <1>0 DEF WorkerState
<1> HIDE DEF t
<1>5. /\ worker' \in [Workers -> WorkerState] /\ WorkersInv' /\ worker'[w] = t
      /\ \A v \in Workers : v # w => worker'[v] = worker[v]
  BY Zenon, <1>0, <1>1, <1>3, WorkerStep
<1>6. TypeOK'
  <2>1. results' \in Seq(Outcome)
    <3>1. results \in Seq(Outcome) /\ [id |-> w, outcome |-> s.phase] \in Outcome
      BY <1>0, <1>4 DEF TypeOK, Outcome
    <3> QED  BY <1>3, <3>1
  <2> QED  BY <1>0, <1>3, <1>5, <2>1 DEF TypeOK
<1>7. ~Resting(w) /\ Resting(w)'
  BY <1>1, <1>2, <1>5 DEF Resting, Rests
<1>8. HandshakeInv'
  BY <1>0, <1>3, <1>4, <1>5, <1>7, FinishHandshake
<1> QED  BY <1>5, <1>6, <1>8 DEF IInv

(* drive_echo finds the numbers used up. *)
LEMMA ExhaustStep ==
  ASSUME IInv, NEW w \in Workers, EchoExhaust(w)
  PROVE  \E t : worker' = [worker EXCEPT ![w] = t] /\ Exhausts(worker[w], t)
<1> DEFINE s == worker[w]
           t == [s EXCEPT !.phase.exhausted = TRUE, !.at = "echoing"]
<1>1. worker' = [worker EXCEPT ![w] = t]
  <2>1. worker' = [worker EXCEPT ![w].phase.exhausted = TRUE, ![w].at = "echoing"]
    BY Zenon DEF EchoExhaust
  <2>2. worker \in [Workers -> WorkerState]
    BY DEF IInv, TypeOK
  <2> QED  BY <2>1, <2>2, Zenon DEF WorkerState
<1>2. Exhausts(s, t)
  BY Zenon DEF EchoExhaust, MayDraw, Driving, Exhausts, Ready
<1> QED  BY Zenon, <1>1, <1>2

(* drive_echo issues a round trip. *)
LEMMA DrawStep ==
  ASSUME IInv, Registers, NEW w \in Workers, EchoDraw(w)
  PROVE  /\ \E t : worker' = [worker EXCEPT ![w] = t] /\ Issues(worker[w], t)
         /\ faults' \in 0..MaxFaults
<1> DEFINE s == worker[w]
           c == s.slots[Head(s.phase.idle)]
<1>1. PICK rd \in DialOutcomes, rs \in SendOutcomes :
        /\ Spend(DialCost(rd) + SendCost(c, rs))
        /\ worker' = [worker EXCEPT ![w] = EchoIssue(s, rd, rs)]
  BY Zenon DEF EchoDraw
<1>2. DialCost(rd) + SendCost(c, rs) \in Nat
  <2> HIDE DEF c
  <2> QED  BY CostTypes
<1>3. faults' \in 0..MaxFaults
  BY Zenon, <1>1, <1>2, SpendType
<1>4. rd \in DialedAs /\ rs \in SentAs
  BY DialOutcome DEF SendOutcomes, SentAs
<1>5. Ready(s)
  BY Zenon DEF EchoDraw, MayDraw, Driving, Ready
<1> QED  BY Zenon, <1>1, <1>3, <1>4, <1>5 DEF Issues

(* drive_echo and the shared counter. *)
LEMMA EchoStepInv ==
  ASSUME WorkerKeeps, IInv, Registers, NEW w \in Workers, EchoExhaust(w) \/ EchoDraw(w)
  PROVE  IInv'
<1> DEFINE s == worker[w]
<1>0. /\ WorkerInv(s) /\ faults \in 0..MaxFaults /\ job \in EchoJob
      /\ drawn \in [Workers -> SUBSET Nat]
  BY OneWorker DEF IInv, TypeOK
<1>1. PICK t : /\ worker' = [worker EXCEPT ![w] = t] /\ Ready(s)
               /\ Issues(s, t) \/ Exhausts(s, t)
  <2>1. CASE EchoExhaust(w)
    BY Zenon, <2>1, ExhaustStep DEF Exhausts
  <2>2. CASE EchoDraw(w)
    BY Zenon, <2>2, DrawStep DEF Issues
  <2> QED  BY <2>1, <2>2
<1>2. WorkerInv(t) /\ ~Rests(t)
  BY Zenon, <1>0, <1>1 DEF WorkerKeeps, IssuesKeeps
<1>3. ~Rests(s)
  BY <1>1 DEF Ready, Rests
<1>4. /\ job' = [job EXCEPT !.issued = @ + 1] /\ UNCHANGED <<rx, woken, results, main>>
      /\ \/ UNCHANGED <<faults, drawn>>
         \/ EchoDraw(w) /\ drawn' = [drawn EXCEPT ![w] = @ \cup {job.issued}]
  BY Zenon DEF EchoExhaust, EchoDraw
<1>5. faults' \in 0..MaxFaults
  BY Zenon, <1>0, <1>4, DrawStep
<1>6. job' \in EchoJob /\ job.issued \in Nat
  BY <1>0, <1>4 DEF EchoJob
<1>7. drawn' \in [Workers -> SUBSET Nat]
  BY <1>0, <1>4, <1>6
<1> HIDE DEF s
<1>8. Rests(t) <=> Rests(s)
  BY <1>2, <1>3
<1> QED  BY Zenon, <1>1, <1>2, <1>4, <1>5, <1>6, <1>7, <1>8, WorkerChange DEF s

(* A command begins a benchmark, or closes the connections. *)
LEMMA RecvStep ==
  ASSUME IInv, NEW w \in Workers, Recv(w)
  PROVE  /\ rx[w] # <<>> /\ Head(rx[w]) \in Command /\ Tail(rx[w]) \in Seq(Command)
         /\ \E t : worker' = [worker EXCEPT ![w] = t] /\ Begins(worker[w], t, Head(rx[w]))
<1>1. rx[w] # <<>> /\ rx[w] \in Seq(Command)
  BY DEF IInv, TypeOK, Recv
<1>2. Head(rx[w]) \in Command /\ Tail(rx[w]) \in Seq(Command)
  BY <1>1
<1>3. Rests(worker[w])
  BY Zenon, <1>1 DEF IInv, HandshakeInv, Resting, Rests
<1>4. \E t : worker' = [worker EXCEPT ![w] = t] /\ Begins(worker[w], t, Head(rx[w]))
  BY Zenon, <1>3 DEF Recv, Begins
<1> QED  BY Zenon, <1>1, <1>2, <1>4

(* Worker::run on a command. *)
LEMMA RecvInv ==
  ASSUME WorkerKeeps, IInv, NEW w \in Workers, Recv(w)
  PROVE  IInv'
<1> DEFINE s == worker[w]
           cmd == Head(rx[w])
<1>0. TypeOK /\ WorkersInv /\ HandshakeInv /\ WorkerInv(s)
  BY Zenon, OneWorker DEF IInv
<1>1. PICK t : worker' = [worker EXCEPT ![w] = t] /\ Begins(s, t, cmd)
  BY Zenon, RecvStep
<1>2. rx[w] # <<>> /\ cmd \in Command /\ Tail(rx[w]) \in Seq(Command)
  BY Zenon, RecvStep
<1>3. /\ rx' = [rx EXCEPT ![w] = Tail(@)] /\ woken' = [woken EXCEPT ![w] = (Tail(rx[w]) # <<>>)]
      /\ UNCHANGED <<results, job, main, faults, drawn>>
  BY Zenon DEF Recv
<1>4. cmd.count \in Nat /\ cmd.concurrency \in Nat
  BY <1>2 DEF Command
<1> HIDE DEF cmd, s
<1>5. WorkerInv(t) /\ ~Rests(t)
  BY Zenon, <1>0, <1>1, <1>4 DEF WorkerKeeps, BeginsKeeps
<1>6. /\ worker' \in [Workers -> WorkerState] /\ WorkersInv' /\ worker'[w] = t
      /\ \A v \in Workers : v # w => worker'[v] = worker[v]
  BY Zenon, <1>0, <1>1, <1>5, WorkerStep
<1>7. rx' \in [Workers -> Seq(Command)] /\ woken' \in [Workers -> BOOLEAN]
  BY <1>0, <1>2, <1>3 DEF TypeOK
<1>8. TypeOK'
  BY <1>0, <1>3, <1>6, <1>7 DEF TypeOK
<1>9. ~Resting(w)'
  BY <1>5, <1>6 DEF Resting, Rests
<1>10. HandshakeInv'
  BY Zenon, <1>0, <1>2, <1>3, <1>6, <1>9, RecvHandshake
<1> QED  BY <1>6, <1>8, <1>10 DEF IInv

-----------------------------------------------------------------------------
(* The invariant of the engine. *)

(* The threads as Engine::new leaves them. *)
LEMMA InitInv ==
  ASSUME WorkerKeeps, Init
  PROVE  IInv
<1>1. WorkerInv(NewWorker)
  BY Zenon DEF WorkerKeeps, NewKeeps
<1>2. NewWorker \in WorkerState /\ NewWorker.phase.kind = "Idle" /\ NewWorker.at = "poll"
  <2>1. NewWorker \in WorkerState
    BY Zenon, <1>1 DEF WorkerInv, Inv
  <2> QED  BY Zenon, <2>1 DEF WorkerKeeps, NewKeeps, Rests
<1>3. \A w \in Workers : worker[w] = NewWorker /\ rx[w] = <<>>
  BY Zenon DEF Init
<1>4. 1 \in Workers /\ MaxFaults \in Nat /\ Idle \in Phase
  <2>1. 1 \in Workers /\ MaxFaults \in Nat
    BY EngineAssumption DEF Workers
  <2>2. NewWorker.phase \in Phase
    BY Zenon, <1>2 DEF WorkerState
  <2>3. NewWorker.phase = Idle
    BY Zenon DEF NewWorker
  <2> QED  BY Zenon, <2>1, <2>2, <2>3
<1>5. TypeOK
  <2>1. worker \in [Workers -> WorkerState]
    BY <1>2 DEF Init
  <2>2. rx \in [Workers -> Seq(Command)] /\ woken \in [Workers -> BOOLEAN] /\ results \in Seq(Outcome)
    BY DEF Init
  <2>3. job \in EchoJob /\ faults \in 0..MaxFaults /\ drawn \in [Workers -> SUBSET Nat]
    BY <1>4 DEF Init, EchoJob
  <2>4. main \in MainState
    <3>1. PICK f \in [Workers -> Nat] : f = [w \in Workers |-> 0]
      BY Zenon
    <3>2. PICK o \in [Workers -> Phase] : o = [w \in Workers |-> Idle]
      BY Zenon, <1>4
    <3>3. main = [bench |-> "Dial", pc |-> "send", k |-> 1, pending |-> 0, concs |-> f, outcomes |-> o]
      BY Zenon, <3>1, <3>2 DEF Init
    <3> QED  BY <1>4, <3>3 DEF MainState
  <2> QED  BY <2>1, <2>2, <2>3, <2>4 DEF TypeOK
<1>6. WorkersInv
  BY <1>1, <1>3 DEF WorkersInv
<1>7. HandshakeInv
  <2>1. main.pc = "send" /\ main.k = 1 /\ results = <<>>
    BY Zenon DEF Init
  <2>2. \A w \in Workers : ~Reported(w) /\ Resting(w)
    BY <1>2, <1>3, <2>1 DEF Reported, Resting
  <2>3. \A w \in Workers : ~Owes(w) /\ ~(w < 1)
    BY <1>3, <2>2, EngineAssumption DEF Owes, Workers
  <2>4. \A m, n \in 1..Len(results) : results[m].id = results[n].id => m = n
    BY <2>1
  <2> QED  BY <1>3, <2>1, <2>2, <2>3, <2>4 DEF HandshakeInv
<1> QED  BY <1>5, <1>6, <1>7 DEF IInv

(* What a step of the threads or of the network keeps. *)
LEMMA NextInv ==
  ASSUME SetFacts, WorkerKeeps, Registers, IInv, [Next]_vars
  PROVE  IInv'
<1>1. CASE UNCHANGED vars
  <2>1. TypeOK' /\ main' = main /\ UNCHANGED <<worker, rx, results>>
    BY Zenon, <1>1 DEF IInv, TypeOK, vars
  <2>2. /\ main.pc = "send" => \A w \in Workers : Owes(w) <=> w < main.k
        /\ main.pc = "wake" => \A w \in Workers : Owes(w) <=> w <= main.k
        /\ main.pc = "wait" => main.pending = Cardinality({w \in Workers : Owes(w)})
        /\ main.pc \in {"join", "done", "fatal"} => \A w \in Workers : Owes(w)
    BY Zenon DEF IInv, HandshakeInv
  <2> QED  BY Zenon, <2>1, <2>2, MainOnly
<1>2. CASE MainStep
  <2>1. CASE MainSend
    BY <2>1, MainSendInv
  <2>2. CASE MainWake
    BY <2>2, MainWakeInv
  <2>3. CASE MainRecv
    BY <2>3, MainRecvInv
  <2>4. CASE MainDisconnected \/ MainJoin
    BY <2>4, MainEndInv
  <2>5. CASE MainNext
    BY <2>5, MainNextInv
  <2> QED  BY Zenon, <1>2, <2>1, <2>2, <2>3, <2>4, <2>5 DEF MainStep
<1>3. ASSUME NEW w \in Workers, Recv(w) \/ RetryDue(w) \/ DriveStep(w)
      PROVE  IInv'
  <2>1. CASE Recv(w)
    BY <2>1, RecvInv
  <2>2. CASE HandlerStep(w)
    BY Zenon, <2>2, Handled, StepInv
  <2>3. CASE FinishDial(w) \/ FinishEcho(w) \/ FinishRate(w)
    BY Zenon, <2>3, Finished, FinishPhaseInv
  <2>4. CASE EchoExhaust(w) \/ EchoDraw(w)
    BY Zenon, <2>4, EchoStepInv
  <2> QED  BY Zenon, <1>3, <2>1, <2>2, <2>3, <2>4 DEF DriveStep, HandlerStep
<1>4. ASSUME NEW w \in Workers, NEW i \in Slots, NetworkStep(w, i)
      PROVE  IInv'
  BY Zenon, <1>4, Handled, StepInv DEF HandlerStep
<1>5. CASE Ended
  BY <1>1, <1>5 DEF Ended
<1> QED  BY Zenon, <1>1, <1>2, <1>3, <1>4, <1>5 DEF Next

-----------------------------------------------------------------------------
(* What the invariant implies. *)

(* drive_echo: every connection is idle or carries one round trip. *)
LEMMA EchoFollows ==
  ASSUME WorkerKeeps, IInv
  PROVE  EchoExact
<1> SUFFICES ASSUME NEW w \in Workers, worker[w].phase.kind = "Echo"
             PROVE  LET s == worker[w] IN
                    /\ \A i \in Occupied(s) : \E p \in Places(s, i) : Places(s, i) = {p}
                    /\ \A i \in Slots \ Occupied(s) : Places(s, i) = {}
                    /\ s.phase.in_flight = Cardinality({i \in Slots : RoundTrips(s, i) # {}})
                    /\ s.phase.in_flight <= s.phase.slots
  BY Zenon DEF EchoExact
<1> DEFINE s == worker[w]
<1>1. WorkerInv(s) /\ s.phase.kind = "Echo"
  BY OneWorker
<1> HIDE DEF s
<1>2. \A i \in Slots : /\ RoundTrips(s, i) # {} <=> Busy(s, i)
                       /\ s.slots[i].state = "vacant" => Places(s, i) = {}
                       /\ s.slots[i].state # "vacant" => \E p \in Places(s, i) : Places(s, i) = {p}
  BY Zenon, <1>1 DEF WorkerKeeps, OneInPlace
<1>3. {i \in Slots : RoundTrips(s, i) # {}} = BusySlots(s) \cup {}
  BY Zenon, <1>2 DEF BusySlots
<1>4. /\ s.phase.in_flight = Cardinality(BusySlots(s) \cup {})
      /\ s.phase.in_flight <= s.phase.slots
  BY <1>1 DEF WorkerInv, Inv, EchoInv
<1>5. \A i \in Slots : i \in Occupied(s) <=> ~(s.slots[i].state = "vacant")
  BY Zenon DEF Occupied, InState
<1>6. \A i \in Occupied(s) : i \in Slots
  BY Zenon DEF Occupied, InState
<1>7. \A i \in Occupied(s) : \E p \in Places(s, i) : Places(s, i) = {p}
  BY Zenon, <1>2, <1>5, <1>6
<1>8. \A i \in Slots \ Occupied(s) : Places(s, i) = {}
  BY Zenon, <1>2, <1>5
<1> QED  BY Zenon, <1>3, <1>4, <1>7, <1>8 DEF s

(* ready_counts. *)
LEMMA ReadyFollows ==
  ASSUME IInv
  PROVE  ReadyExact
BY DEF IInv, WorkersInv, WorkerInv, Inv, SlotsInv, ReadyExact

(* alloc_slot and dial_failed: the free list. *)
LEMMA FreeFollows ==
  ASSUME IInv
  PROVE  FreeExact
<1> SUFFICES ASSUME NEW w \in Workers
             PROVE  LET s == worker[w] IN
                    /\ IsInjective(s.free)
                    /\ Range(s.free) = {i \in 1..s.len : s.slots[i].state = "vacant"}
  BY DEF FreeExact
<1> DEFINE s == worker[w]
<1>1. s \in WorkerState /\ FreeInv(s)
  BY OneWorker DEF WorkerInv, Inv, SlotsInv
<1> HIDE DEF s
<1>2. s.free \in Seq(Slots) /\ s.len \in 0..MaxSlots
  BY <1>1 DEF WorkerState
<1>3. Range(s.free) \subseteq Slots
  BY <1>2 DEF Range
<1>4. \A i : i \in 1..s.len <=> i \in Slots /\ i <= s.len
  BY <1>2, WorkerAssumption DEF Slots
<1>5. Range(s.free) = {i \in 1..s.len : s.slots[i].state = "vacant"}
  BY Zenon, <1>1, <1>3, <1>4 DEF FreeInv
<1> QED  BY Zenon, <1>1, <1>5 DEF FreeInv, s

(* finish leaves nothing to the next benchmark. *)
LEMMA NothingFollows ==
  ASSUME IInv
  PROVE  NothingLeftBehind
<1> SUFFICES ASSUME NEW w \in Workers, worker[w].phase.kind = "Idle", worker[w].at = "poll"
             PROVE  LET s == worker[w] IN
                    /\ s.retries = <<>>
                    /\ \A i \in Slots : /\ s.slots[i].dial = NoJob
                                         /\ s.slots[i].queued = <<>>
                                         /\ s.slots[i].streams["Dial"] = 0
                                         /\ s.slots[i].streams["Echo"] = 0
  BY DEF NothingLeftBehind
<1> DEFINE s == worker[w]
<1>1. WorkerInv(s) /\ s.phase.kind = "Idle" /\ s.at = "poll"
  BY OneWorker
<1> HIDE DEF s
<1>2. /\ s.retries = <<>> /\ InState(s, "connecting") = {} /\ NoEcho(s) /\ SlotsInv(s)
      /\ s \in WorkerState
  BY <1>1 DEF WorkerInv, Inv, DialsInv, Quiet
<1>3. ASSUME NEW i \in Slots
      PROVE  /\ s.slots[i].dial = NoJob /\ s.slots[i].queued = <<>>
             /\ s.slots[i].streams["Dial"] = 0 /\ s.slots[i].streams["Echo"] = 0
  <2>1. SlotInv(s.slots[i], i) /\ s.slots[i].state # "connecting"
    BY <1>2 DEF SlotsInv, InState
  <2>2. s.slots[i].dial = NoJob /\ s.slots[i].streams["Dial"] = 0
    BY <2>1 DEF SlotInv
  <2>3. s.slots[i].state \in {"vacant", "connecting", "ready", "broken"}
    BY Zenon, <1>2 DEF Conn, WorkerState
  <2>4. CASE s.slots[i].state = "ready"
    BY <1>2, <2>2, <2>4 DEF NoEcho
  <2>5. CASE s.slots[i].state = "vacant"
    <3>1. s.slots[i] = NoConn
      BY <2>1, <2>5 DEF SlotInv
    <3>2. NoConn.queued = <<>> /\ NoConn.streams = NoStreams
      BY Zenon DEF NoConn
    <3>3. NoStreams["Echo"] = 0
      BY DEF NoStreams, Kinds
    <3> QED  BY Zenon, <2>2, <3>1, <3>2, <3>3
  <2>6. CASE s.slots[i].state = "broken"
    <3>1. s.slots[i].streams = NoStreams /\ s.slots[i].queued = <<>>
      BY <2>1, <2>6 DEF SlotInv
    <3> QED  BY <2>2, <3>1 DEF NoStreams, Kinds
  <2> QED  BY <2>1, <2>3, <2>4, <2>5, <2>6
<1> QED  BY Zenon, <1>2, <1>3 DEF s

(* send_queued. *)
LEMMA QueueFollows ==
  ASSUME IInv
  PROVE  QueueBound
<1> SUFFICES ASSUME NEW w \in Workers, NEW i \in Slots
             PROVE  Len(worker[w].slots[i].queued) <= 1
  BY DEF QueueBound
<1>1. /\ SlotInv(worker[w].slots[i], i)
      /\ worker[w].slots[i].state \in {"vacant", "connecting", "ready", "broken"}
  <2>1. WorkerInv(worker[w]) /\ worker[w].slots[i] \in Conn
    <3>1. WorkerInv(worker[w]) /\ worker[w] \in WorkerState
      BY Zenon, OneWorker
    <3>2. worker[w].slots \in [Slots -> Conn]
      BY Zenon, <3>1 DEF WorkerState
    <3> QED  BY Zenon, <3>1, <3>2
  <2>2. worker[w].slots[i].state \in {"vacant", "connecting", "ready", "broken"}
    BY Zenon, <2>1 DEF Conn
  <2> QED  BY <2>1, <2>2 DEF WorkerInv, Inv, SlotsInv
<1>2. worker[w].slots[i].queued \in {<<>>, <<"Dial">>, <<"Echo">>}
  <2>1. NoConn.queued = <<>>
    BY Zenon DEF NoConn
  <2> DEFINE c == worker[w].slots[i]
  <2>2. c.state \in {"vacant", "connecting", "ready", "broken"} /\ SlotInv(c, i)
    BY <1>1
  <2> HIDE DEF c
  <2>3. c.queued \in {<<>>, <<"Dial">>, <<"Echo">>}
    BY <2>1, <2>2 DEF SlotInv
  <2> QED  BY <2>3 DEF c
<1>3. Len(<<>>) <= 1 /\ Len(<<"Dial">>) <= 1 /\ Len(<<"Echo">>) <= 1
  OBVIOUS
<1> QED  BY Zenon, <1>2, <1>3
=============================================================================
