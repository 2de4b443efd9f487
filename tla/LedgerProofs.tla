---------------------------- MODULE LedgerProofs ----------------------------
(***************************************************************************)
(* The books of the load generator balance: every step of a worker, of the *)
(* network and of main keeps Books, given what a worker promises of its    *)
(* own state (WorkerKeeps) and of its page (PageKeeps), and the counts of  *)
(* the benchmarks follow from it.                                          *)
(***************************************************************************)
EXTENDS MainProofs, Ledger

-----------------------------------------------------------------------------
(* The steps of the workers. *)

(* The fields of an account, before and after a step. *)
LEMMA AccountIs ==
  ASSUME NEW w
  PROVE  /\ /\ Account(w).bench = main.bench /\ Account(w).share = Share(w)
            /\ Account(w).conc = main.concs[w] /\ Account(w).drawn = drawn[w]
            /\ Account(w).job = job /\ Account(w).most = Most
         /\ /\ Account(w)'.bench = main'.bench /\ Account(w)'.share = Share(w)
            /\ Account(w)'.conc = main'.concs[w] /\ Account(w)'.drawn = drawn'[w]
            /\ Account(w)'.job = job' /\ Account(w)'.most = Most
BY Zenon DEF Account, Share, Most

(* A worker's share of -c. *)
LEMMA ShareNat ==
  ASSUME NEW w \in Workers
  PROVE  Share(w) \in Nat
<1>1. NumConns \in Nat /\ NumWorkers \in Nat \ {0} /\ w \in 1..NumWorkers
  BY Zenon, EngineAssumption DEF Workers
<1>2. SplitEven(NumConns, NumWorkers)[w] \in {NumConns \div NumWorkers, NumConns \div NumWorkers + 1}
  BY Zenon, <1>1, SplitEvenParts
<1>3. NumConns \div NumWorkers \in Nat
  BY Zenon, <1>1, Division
<1>4. PICK q \in Nat : q = NumConns \div NumWorkers
  BY Zenon, <1>3
<1>5. SplitEven(NumConns, NumWorkers)[w] \in {q, q + 1}
  BY Zenon, <1>2, <1>4
<1>6. \A x \in {q, q + 1} : x \in Nat
  OBVIOUS
<1> QED  BY Zenon, <1>5, <1>6 DEF Share

(* The requests a connection may carry. *)
LEMMA MostNat == Most \in Nat
BY EngineAssumption DEF Most, MAX_BATCHES_IN_FLIGHT

(* While main stays, an account changes in what is drawn. *)
LEMMA TermsStay ==
  ASSUME NEW w, main' = main
  PROVE  /\ SameTerms(Account(w), Account(w)')
         /\ \A cmd : Asks(cmd, Account(w)) => Asks(cmd, Account(w)')
<1>1. SameTerms(Account(w), Account(w)')
  <2>1. Account(w)'.bench = Account(w).bench /\ Account(w)'.share = Account(w).share
    BY Zenon, AccountIs
  <2>2. Account(w)'.conc = Account(w).conc /\ Account(w)'.most = Account(w).most
    BY Zenon, AccountIs
  <2> QED  BY Zenon, <2>1, <2>2 DEF SameTerms
<1> QED  BY Zenon, <1>1 DEF SameTerms, Asks

(* A worker that owes an outcome was asked. *)
LEMMA OwesAsked ==
  ASSUME IInv, NEW w \in Workers, Owes(w)
  PROVE  ~ToAsk(w)
<1>1. main.k \in Int /\ w \in Int
  BY DEF IInv, TypeOK, MainState, Workers
<1>2. main.pc = "send" => w < main.k
  BY Zenon DEF IInv, HandshakeInv
<1>3. main.pc = "wake" => w <= main.k
  BY Zenon DEF IInv, HandshakeInv
<1> QED  BY <1>1, <1>2, <1>3 DEF ToAsk

(* A worker that works has begun. *)
LEMMA Begun ==
  ASSUME IInv, NEW w \in Workers, ~Resting(w)
  PROVE  ~NotBegun(w) /\ ~Reported(w)
<1>1. rx[w] = <<>> /\ ~Reported(w)
  BY Zenon DEF IInv, HandshakeInv
<1> QED  BY Zenon, <1>1, OwesAsked DEF Owes, NotBegun

(* What is known of a worker between two steps. *)
LEMMA PageOf ==
  ASSUME IInv, Books, NEW w \in Workers
  PROVE  /\ Held(worker[w], Account(w)) /\ worker[w] \in WorkerState
         /\ NotBegun(w) => Fresh(worker[w], main.bench) /\ Resting(w)
<1>1. /\ WorkerInv(worker[w]) /\ Page(worker[w], Account(w))
      /\ NotBegun(w) => Fresh(worker[w], main.bench)
  BY Zenon DEF IInv, WorkersInv, Books, Pages
<1>2. Account(w).share \in Nat /\ Account(w).most \in Nat
  BY Zenon, AccountIs, ShareNat, MostNat
<1>3. worker[w] \in WorkerState
  BY Zenon, <1>1 DEF WorkerInv, Inv
<1> QED  BY Zenon, <1>1, <1>2, <1>3, Begun DEF Held

(* Worker w is in state t, the others where they were. *)
OnlyMoves(w, t) ==
  worker' = [worker EXCEPT ![w] = t] /\ worker'[w] = t
    /\ \A v \in Workers : v # w => worker'[v] = worker[v]

LEMMA Moved ==
  ASSUME IInv, NEW w \in Workers, NEW t, worker' = [worker EXCEPT ![w] = t]
  PROVE  OnlyMoves(w, t)
BY Zenon DEF OnlyMoves, IInv, TypeOK

(* The concurrency and the connections of the workers in BenchEcho stay. *)
LEMMA StaffSame ==
  ASSUME NEW w \in Workers, NEW t, OnlyMoves(w, t), main' = main,
         main.bench \in {"Warmup", "Echo"} => Occupied(t) = Occupied(worker[w])
  PROVE  main.bench \in {"Warmup", "Echo"} => \A v \in Workers :
           Staffed(worker'[v], main'.concs[v]) <=> Staffed(worker[v], main.concs[v])
<1> SUFFICES ASSUME main.bench \in {"Warmup", "Echo"}, NEW v \in Workers
             PROVE  Staffed(worker'[v], main'.concs[v]) <=> Staffed(worker[v], main.concs[v])
  BY Zenon
<1>1. Occupied(worker'[v]) = Occupied(worker[v])
  BY Zenon DEF OnlyMoves
<1> QED  BY Zenon, <1>1 DEF Staffed

(* What does not change for any worker while main, the channels, the job and the
   numbers drawn are the same. *)
Apart == rx' = rx /\ results' = results /\ job' = job /\ main' = main /\ drawn' = drawn

(* A step of a worker alone keeps the books, if its page is right. *)
LEMMA StepBooks ==
  ASSUME Books, NEW w \in Workers, NEW t, OnlyMoves(w, t), Apart, Page(t, Account(w)),
         NotBegun(w) => Fresh(t, main.bench), Rests(t) <=> Resting(w),
         main.bench \in {"Warmup", "Echo"} => Occupied(t) = Occupied(worker[w])
  PROVE  Books'
<1>1. worker'[w] = t /\ \A v \in Workers : v # w => worker'[v] = worker[v]
  BY Zenon DEF OnlyMoves
<1>2. \A v \in Workers : /\ NotBegun(v)' <=> NotBegun(v)
                         /\ Reported(v)' <=> Reported(v)
                         /\ Through(v)' <=> Through(v)
                         /\ Account(v)' = Account(v)
  <2>1. Resting(w)' <=> Resting(w)
    BY Zenon, <1>1 DEF Resting, Rests
  <2>2. \A v \in Workers : v # w => (Resting(v)' <=> Resting(v))
    BY Zenon, <1>1 DEF Resting
  <2>3. \A v \in Workers : (NotBegun(v)' <=> NotBegun(v)) /\ (Reported(v)' <=> Reported(v))
    BY Zenon DEF Apart, NotBegun, ToAsk, Reported
  <2>4. \A v \in Workers : Account(v)' = Account(v)
    BY Zenon DEF Apart, Account, Share
  <2> QED  BY Zenon, <2>1, <2>2, <2>3, <2>4 DEF Through
<1>3. Pages'
  <2> SUFFICES ASSUME NEW v \in Workers
               PROVE  Page(worker'[v], Account(v)') /\ (NotBegun(v)' => Fresh(worker'[v], main'.bench))
    BY Zenon DEF Pages
  <2>1. CASE v = w
    BY Zenon, <1>1, <1>2, <2>1 DEF Apart
  <2>2. CASE v # w
    BY Zenon, <1>1, <1>2, <2>2 DEF Apart, Books, Pages
  <2> QED  BY Zenon, <2>1, <2>2
<1>4. AskedInv'
  BY Zenon, <1>2 DEF Apart, Books, AskedInv
<1>5. DrawBooks'
  <2>1. DrawBooks
    BY Zenon DEF Books
  <2> QED  BY Zenon, <1>2, <2>1 DEF Apart, DrawBooks
<1>6. ReportBooks'
  BY Zenon, <1>2 DEF Apart, Books, ReportBooks
<1>7. StaffBooks'
  <2>1. main.bench \in {"Warmup", "Echo"} => \A v \in Workers :
          Staffed(worker'[v], main'.concs[v]) <=> Staffed(worker[v], main.concs[v])
    BY Zenon, StaffSame DEF Apart
  <2>2. StaffBooks /\ ("Echo" \in {"Warmup", "Echo"})
    BY Zenon DEF Books
  <2> QED  BY Zenon, <1>2, <2>1, <2>2 DEF Apart, StaffBooks
<1> QED  BY Zenon, <1>3, <1>4, <1>5, <1>6, <1>7 DEF Books

(* What a step may dial. *)
OnlyBroken == \A w \in Workers : DialsVacant(worker[w], worker'[w])

(* The workers that do not move dial nothing. *)
LEMMA OneDials ==
  ASSUME NEW w \in Workers, NEW t, OnlyMoves(w, t), DialsVacant(worker[w], t)
  PROVE  OnlyBroken
<1>1. \A s : DialsVacant(s, s)
  BY Zenon DEF DialsVacant, NoNewDial
<1> QED  BY Zenon, <1>1 DEF OnlyBroken, OnlyMoves

(* The handlers, the timers and the turns of drive keep the books. *)
LEMMA HandledBooks ==
  ASSUME WorkerKeeps, PageKeeps, IInv, Books, NEW w \in Workers, NEW t, StepTo(w, t)
  PROVE  Books' /\ OnlyBroken
<1> DEFINE s == worker[w]
           a == Account(w)
<1>1. Held(s, a) /\ (NotBegun(w) => Fresh(s, main.bench) /\ Resting(w)) /\ WorkerInv(s)
  BY Zenon, PageOf DEF Held
<1>2. OnlyMoves(w, t) /\ Apart
  BY Zenon, Moved DEF StepTo, Step, Apart
<1>3. Handles(s, t, a.most) /\ a.bench = main.bench
  BY Zenon, AccountIs DEF StepTo
<1>4. Rests(t) <=> Resting(w)
  <2>1. Rests(t) <=> Rests(s)
    BY Zenon, <1>1, <1>3 DEF WorkerKeeps, HandlesKeeps
  <2> QED  BY Zenon, <2>1 DEF Rests, Resting
<1>5. Kept(s, t, a)
  BY Zenon, <1>1, <1>3 DEF PageKeeps, PageHandles
<1>6. Page(t, a) /\ DialsVacant(s, t) /\ (NotBegun(w) => Fresh(t, main.bench))
      /\ (main.bench \in {"Warmup", "Echo"} => Occupied(t) = Occupied(s))
  BY Zenon, <1>1, <1>3, <1>5 DEF Kept, Orderly, Resting, Rests
<1> HIDE DEF s, a
<1> QED  BY Zenon, <1>2, <1>4, <1>6, StepBooks, OneDials DEF s, a

-----------------------------------------------------------------------------
(* drive_echo, which draws from the shared counter. *)

(* Every outcome is a worker's. *)
LEMMA SentBy ==
  ASSUME IInv
  PROVE  \A n \in 1..Len(results) : results[n].id \in Workers
<1>1. results \in Seq(Outcome)
  BY Zenon DEF IInv, TypeOK
<1>2. \A n \in 1..Len(results) : results[n] \in Outcome
  BY <1>1
<1> QED  BY Zenon, <1>2 DEF Outcome

(* A number was taken, by worker w alone. *)
Draws(w) ==
  /\ rx' = rx /\ main' = main /\ results' = results
  /\ job' = [job EXCEPT !.issued = @ + 1]
  /\ \A v \in Workers : v # w => drawn'[v] = drawn[v]

(* A number was drawn, and the page of the worker that drew it is right. *)
LEMMA DrawStepBooks ==
  ASSUME IInv, Books, NEW w \in Workers, NEW t, OnlyMoves(w, t), Draws(w),
         DrawBooks', worker[w].phase.kind = "Echo", t.phase.kind = "Echo",
         Page(t, Account(w)'),
         main.bench \in {"Warmup", "Echo"} => Occupied(t) = Occupied(worker[w])
  PROVE  Books'
<1> USE DEF Draws
<1>1. worker'[w] = t /\ \A v \in Workers : v # w => worker'[v] = worker[v]
  BY Zenon DEF OnlyMoves
<1>2. ~Resting(w) /\ ~Resting(w)'
  BY Zenon, <1>1, "Echo" # "Idle" DEF Resting
<1>3. ~NotBegun(w) /\ ~Reported(w)
  BY Zenon, <1>2, Begun
<1>4. \A v \in Workers : /\ NotBegun(v)' <=> NotBegun(v)
                         /\ Reported(v)' <=> Reported(v)
                         /\ Through(v)' <=> Through(v)
  <2>1. \A v \in Workers : /\ NotBegun(v)' <=> NotBegun(v)
                           /\ Reported(v)' <=> Reported(v)
    BY Zenon DEF NotBegun, ToAsk, Reported
  <2>2. \A v \in Workers : v # w => (Resting(v)' <=> Resting(v))
    BY Zenon, <1>1 DEF Resting
  <2> QED  BY Zenon, <1>2, <2>1, <2>2 DEF Through
<1>5. job'.times = job.times /\ (job.issued >= job.times => job'.issued >= job'.times)
  BY DEF IInv, TypeOK, EchoJob
<1>6. Pages'
  <2> SUFFICES ASSUME NEW v \in Workers
               PROVE  Page(worker'[v], Account(v)') /\ (NotBegun(v)' => Fresh(worker'[v], main'.bench))
    BY Zenon DEF Pages
  <2>1. CASE v = w
    BY Zenon, <1>1, <1>3, <1>4, <2>1
  <2>2. CASE v # w
    <3>1. Page(worker[v], Account(v)) /\ (NotBegun(v) => Fresh(worker[v], main.bench))
      BY Zenon DEF Books, Pages
    <3>2. SameTerms(Account(v), Account(v)') /\ Account(v)'.drawn = Account(v).drawn
      <4>1. drawn'[v] = drawn[v]
        BY Zenon, <2>2
      <4> QED  BY Zenon, <4>1, AccountIs, TermsStay
    <3>3. Account(v).job = job /\ Account(v)'.job = job'
      BY Zenon, AccountIs
    <3>4. Page(worker[v], Account(v)')
      BY Zenon, <1>5, <3>1, <3>2, <3>3 DEF Page, EchoPage, RatePage, SameTerms
    <3> QED  BY Zenon, <1>1, <1>4, <2>2, <3>1, <3>4
  <2> QED  BY Zenon, <2>1, <2>2
<1>7. AskedInv'
  BY Zenon, TermsStay DEF Books, AskedInv
<1>8. ReportBooks'
  <2>1. \A n \in 1..Len(results) : results[n].id \in Workers /\ results[n].id # w
    BY Zenon, <1>3, SentBy DEF Reported
  <2> QED  BY Zenon, <1>2, <1>4, <2>1 DEF Books, ReportBooks, Through
<1>9. StaffBooks'
  <2>1. main.bench \in {"Warmup", "Echo"} => \A v \in Workers :
          Staffed(worker'[v], main'.concs[v]) <=> Staffed(worker[v], main.concs[v])
    BY Zenon, StaffSame
  <2>2. StaffBooks /\ ("Echo" \in {"Warmup", "Echo"})
    BY Zenon DEF Books
  <2> QED  BY Zenon, <1>4, <1>5, <2>1, <2>2 DEF StaffBooks
<1> QED  BY Zenon, <1>6, <1>7, <1>8, <1>9 DEF Books

(* The worker meets the end of the job. *)
LEMMA ExhaustBooks ==
  ASSUME PageKeeps, IInv, Books, NEW w \in Workers, EchoExhaust(w)
  PROVE  Books' /\ OnlyBroken
<1> DEFINE s == worker[w]
<1>1. Held(s, Account(w))
  BY Zenon, PageOf
<1>2. PICK t : worker' = [worker EXCEPT ![w] = t] /\ Exhausts(s, t)
  BY Zenon, ExhaustStep
<1>3. OnlyMoves(w, t) /\ s.phase.kind = "Echo"
  BY Zenon, <1>2, Moved DEF Exhausts, Ready
<1>4. /\ job.issued >= job.times /\ job' = [job EXCEPT !.issued = @ + 1] /\ drawn' = drawn
      /\ Draws(w)
  BY Zenon DEF EchoExhaust, Draws
<1>5. /\ job'.times = job.times /\ job'.issued = job.issued + 1 /\ job'.issued >= job'.times
      /\ job.times \in Nat /\ job.issued \in Nat
  BY <1>4 DEF IInv, TypeOK, EchoJob
<1>6. /\ SameTerms(Account(w), Account(w)') /\ Account(w)'.drawn = Account(w).drawn
      /\ Account(w)'.job.issued >= Account(w)'.job.times /\ Account(w).bench = main.bench
  <2>1. SameTerms(Account(w), Account(w)')
    BY Zenon, <1>4, TermsStay DEF Draws
  <2>2. Account(w)'.drawn = Account(w).drawn
    BY Zenon, <1>4, AccountIs
  <2>3. Account(w)'.job = job' /\ Account(w).bench = main.bench
    BY Zenon, AccountIs
  <2> QED  BY Zenon, <1>5, <2>1, <2>2, <2>3
<1>7. Page(t, Account(w)') /\ Orderly(s, t, main.bench) /\ t.phase.kind = "Echo"
  BY Zenon, <1>1, <1>2, <1>6 DEF PageKeeps, PageExhausts
<1>8. DrawBooks'
  <2>1. \A v \in Workers : NotBegun(v)' <=> NotBegun(v)
    BY Zenon, <1>4 DEF NotBegun, ToAsk, Draws
  <2>2. (IF job'.issued < job'.times THEN job'.issued ELSE job'.times)
          = (IF job.issued < job.times THEN job.issued ELSE job.times)
    BY <1>4, <1>5
  <2>3. DrawBooks
    BY Zenon DEF Books
  <2> QED  BY Zenon, <1>4, <2>1, <2>2, <2>3 DEF DrawBooks
<1> QED  BY Zenon, <1>3, <1>4, <1>7, <1>8, DrawStepBooks, OneDials DEF Orderly

(* The numbers drawn, after a draw. *)
LEMMA DrawOne ==
  ASSUME SetFacts, IInv, Books, NEW w \in Workers, job.issued < job.times
  PROVE  /\ IsFiniteSet(drawn[w]) /\ Cardinality(drawn[w]) \in Nat
         /\ \A v \in Workers : job.issued \notin drawn[v]
         /\ Cardinality(drawn[w] \cup {job.issued}) = Cardinality(drawn[w]) + 1
<1>1. job.issued \in Nat /\ UNION {drawn[v] : v \in Workers} = 0..(job.issued - 1)
  <2>1. job.issued \in Nat
    BY Zenon DEF IInv, TypeOK, EchoJob
  <2> QED  BY Zenon, <2>1 DEF Books, DrawBooks
<1>2. \A v \in Workers : drawn[v] \subseteq 0..(job.issued - 1)
  BY Zenon, <1>1
<1>3. IsFiniteSet(0..(job.issued - 1))
  BY <1>1 DEF SetFacts, CountInterval
<1>4. job.issued \notin 0..(job.issued - 1)
  BY <1>1
<1>5. IsFiniteSet(drawn[w]) /\ \A v \in Workers : job.issued \notin drawn[v]
  BY Zenon, <1>2, <1>3, <1>4 DEF SetFacts, CountSubset
<1>6. Cardinality(drawn[w] \cup {job.issued}) = Cardinality(drawn[w]) + 1
  BY Zenon, <1>5 DEF SetFacts, CountAdd
<1> QED  BY Zenon, <1>5, <1>6 DEF SetFacts, CountIsNat

(* The worker draws a number below times and issues a round trip. *)
LEMMA EchoDrawBooks ==
  ASSUME SetFacts, PageKeeps, IInv, Books, Registers, NEW w \in Workers, EchoDraw(w)
  PROVE  Books' /\ OnlyBroken
<1> DEFINE s == worker[w]
           e == drawn[w] \cup {job.issued}
<1>1. Held(s, Account(w))
  BY Zenon, PageOf
<1>2. PICK t : worker' = [worker EXCEPT ![w] = t] /\ Issues(s, t)
  BY Zenon, DrawStep
<1>3. OnlyMoves(w, t) /\ s.phase.kind = "Echo"
  BY Zenon, <1>2, Moved DEF Issues, Ready
<1>4. /\ job.issued < job.times /\ drawn' = [drawn EXCEPT ![w] = @ \cup {job.issued}]
      /\ job' = [job EXCEPT !.issued = @ + 1] /\ rx' = rx /\ main' = main /\ results' = results
  BY Zenon DEF EchoDraw
<1>5. /\ job'.times = job.times /\ job'.issued = job.issued + 1
      /\ job.times \in Nat /\ job.issued \in Nat
      /\ job.issued >= job.times => job'.issued >= job'.times
  BY <1>4 DEF IInv, TypeOK, EchoJob
<1>6. drawn'[w] = e /\ \A v \in Workers : v # w => drawn'[v] = drawn[v]
  BY Zenon, <1>4 DEF IInv, TypeOK
<1>7. /\ \A v \in Workers : job.issued \notin drawn[v]
      /\ Cardinality(drawn[w]) \in Nat /\ Cardinality(e) = Cardinality(drawn[w]) + 1
  BY Zenon, <1>4, DrawOne
<1> HIDE DEF e
<1>8. /\ SameTerms(Account(w), Account(w)') /\ Cardinality(Account(w).drawn) \in Nat
      /\ Cardinality(Account(w)'.drawn) = Cardinality(Account(w).drawn) + 1
      /\ Account(w).job.issued >= Account(w).job.times =>
           Account(w)'.job.issued >= Account(w)'.job.times
      /\ Account(w).bench = main.bench
  <2>1. SameTerms(Account(w), Account(w)')
    BY Zenon, <1>4, TermsStay
  <2>2. /\ Account(w).drawn = drawn[w] /\ Account(w)'.drawn = e /\ Account(w).bench = main.bench
        /\ Account(w).job = job /\ Account(w)'.job = job'
    BY Zenon, <1>6, AccountIs
  <2> QED  BY Zenon, <1>5, <1>7, <2>1, <2>2
<1>9. Page(t, Account(w)') /\ Orderly(s, t, main.bench) /\ t.phase.kind = "Echo"
  BY Zenon, <1>1, <1>2, <1>8 DEF PageKeeps, PageIssues
<1>10. DrawBooks'
  <2>1. \A v \in Workers : NotBegun(v)' <=> NotBegun(v)
    BY Zenon, <1>4 DEF NotBegun, ToAsk
  <2>2. ~NotBegun(w)
    <3>1. ~Resting(w)
      BY Zenon, <1>3, "Echo" # "Idle" DEF Resting
    <3> QED  BY Zenon, <3>1, Begun
  <2>3. DrawBooks
    BY Zenon DEF Books
  <2>4. \A u1, v1 \in Workers : u1 # v1 => drawn'[u1] \cap drawn'[v1] = {}
    <3>1. \A u1, v1 \in Workers : u1 # v1 => drawn[u1] \cap drawn[v1] = {}
      BY Zenon, <2>3 DEF DrawBooks
    <3>2. \A v \in Workers : v # w => e \cap drawn[v] = {} /\ drawn[v] \cap e = {}
      BY Zenon, <1>7, <3>1 DEF e
    <3> QED  BY Zenon, <1>6, <3>1, <3>2
  <2>5. UNION {drawn'[v] : v \in Workers} = 0..job.issued
    <3>1. UNION {drawn[v] : v \in Workers} = 0..(job.issued - 1)
      BY Zenon, <1>4, <2>3 DEF DrawBooks
    <3>2. 0..job.issued = (0..(job.issued - 1)) \cup {job.issued}
      BY <1>5
    <3>3. UNION {drawn'[v] : v \in Workers} = (UNION {drawn[v] : v \in Workers}) \cup {job.issued}
      BY Zenon, <1>6 DEF e
    <3> QED  BY Zenon, <3>1, <3>2, <3>3
  <2>6. (IF job'.issued < job'.times THEN job'.issued ELSE job'.times) - 1 = job.issued
    BY <1>4, <1>5
  <2>7. \A v \in Workers : NotBegun(v)' => drawn'[v] = {}
    BY Zenon, <1>6, <2>1, <2>2, <2>3 DEF DrawBooks
  <2> QED  BY Zenon, <2>4, <2>5, <2>6, <2>7 DEF DrawBooks
<1>11. Draws(w)
  BY Zenon, <1>4, <1>6 DEF Draws
<1> QED  BY Zenon, <1>3, <1>9, <1>10, <1>11, DrawStepBooks, OneDials DEF Orderly

-----------------------------------------------------------------------------
(* finish: the worker's outcome is what it drew. *)

(* The outcome that it sends main is of what it drew. *)
LEMMA FinishBooks ==
  ASSUME WorkerKeeps, PageKeeps, IInv, Books, NEW w \in Workers,
         FinishDial(w) \/ FinishEcho(w) \/ FinishRate(w)
  PROVE  Books' /\ OnlyBroken
<1> DEFINE s == worker[w]
           p == s.phase
           t == Finish(s)
           o == [id |-> w, outcome |-> p]
<1>1. s \in WorkerState /\ p \in Phase /\ Held(s, Account(w)) /\ WorkerInv(s) /\ Page(s, Account(w))
  BY Zenon, PageOf DEF WorkerState, Held
<1>2. FinishPhase(w) /\ Finishes(s)
  BY Zenon, Finished
<1>3. /\ worker' = [worker EXCEPT ![w] = t] /\ results' = Append(results, o)
      /\ rx' = rx /\ job' = job /\ main' = main /\ drawn' = drawn
  BY Zenon, <1>2 DEF FinishPhase
<1>4. Page(t, Account(w)) /\ t.slots = s.slots /\ Rests(t)
  BY Zenon, <1>1, <1>2 DEF PageKeeps, PageFinishes, WorkerKeeps, FinishesKeeps
<1> HIDE DEF t
<1>5. OnlyMoves(w, t) /\ worker'[w] = t /\ \A v \in Workers : v # w => worker'[v] = worker[v]
  BY Zenon, <1>3, Moved DEF OnlyMoves
<1>6. ~Resting(w) /\ Resting(w)'
  <2>1. p.kind # "Idle"
    BY <1>2 DEF Finishes
  <2> QED  BY Zenon, <1>4, <1>5, <2>1 DEF Resting, Rests
<1>7. ~NotBegun(w)
  BY Zenon, <1>6, Begun
<1>8. \A v \in Workers : (NotBegun(v)' <=> NotBegun(v)) /\ Account(v)' = Account(v)
  BY Zenon, <1>3 DEF NotBegun, ToAsk, Account, Share
<1>9. /\ results \in Seq(Outcome) /\ o.id = w /\ o.outcome = p
      /\ Len(results') = Len(results) + 1 /\ results'[Len(results) + 1] = o
      /\ \A n \in 1..Len(results) : results'[n] = results[n]
      /\ \A n \in 1..Len(results') : n \in 1..Len(results) \/ n = Len(results) + 1
      /\ \A n \in 1..Len(results) : n \in 1..Len(results')
      /\ Len(results) + 1 \in 1..Len(results')
  <2>1. results \in Seq(Outcome)
    BY Zenon DEF IInv, TypeOK
  <2>2. o.id = w /\ o.outcome = p
    OBVIOUS
  <2> HIDE DEF o
  <2> QED  BY <1>3, <2>1, <2>2
<1>10. \A v \in Workers : Reported(v)' <=> Reported(v) \/ v = w
  BY Zenon, <1>9 DEF Reported
<1>11. \A v \in Workers : v # w => (Through(v)' <=> Through(v))
  <2>1. \A v \in Workers : v # w => (Resting(v)' <=> Resting(v))
    BY Zenon, <1>5 DEF Resting
  <2> QED  BY Zenon, <1>8, <2>1 DEF Through
<1>12. Pages'
  <2> SUFFICES ASSUME NEW v \in Workers
               PROVE  Page(worker'[v], Account(v)') /\ (NotBegun(v)' => Fresh(worker'[v], main'.bench))
    BY Zenon DEF Pages
  <2>1. CASE v = w
    BY Zenon, <1>4, <1>5, <1>7, <1>8, <2>1
  <2>2. CASE v # w
    BY Zenon, <1>3, <1>5, <1>8, <2>2 DEF Books, Pages
  <2> QED  BY Zenon, <2>1, <2>2
<1>13. AskedInv'
  BY Zenon, <1>3, <1>8 DEF Books, AskedInv
<1>14. DrawBooks'
  <2>1. DrawBooks
    BY Zenon DEF Books
  <2> QED  BY Zenon, <1>3, <1>8, <2>1 DEF DrawBooks
<1>15. ASSUME main.bench = "Echo"
       PROVE  /\ p.ok + p.failed = Cardinality(drawn[w])
              /\ Staffed(s, main.concs[w]) => job.issued >= job.times
  <2>0. /\ Account(w).bench = "Echo" /\ Account(w).drawn = drawn[w] /\ Account(w).job = job
        /\ Account(w).conc = main.concs[w]
    BY Zenon, <1>15, AccountIs
  <2>1. p.kind = "Echo" /\ p.exhausted /\ p.in_flight = 0 /\ p.measure
    <3>1. BenchPage(s, "Echo")
      BY Zenon, <1>1, <2>0 DEF Page
    <3>2. p.kind \notin {"Dial", "Rate"}
      BY <3>1 DEF BenchPage
    <3> QED  BY Zenon, <1>2, <3>1, <3>2, "Echo" # "Warmup" DEF BenchPage, Finishes
  <2>2. /\ Cardinality(drawn[w]) = p.in_flight + p.ok + p.failed
        /\ Staffed(s, main.concs[w]) => job.issued >= job.times
    BY Zenon, <1>1, <2>0, <2>1 DEF Page, EchoPage
  <2>3. p.ok \in Nat /\ p.failed \in Nat
    BY Zenon, <1>1 DEF Phase
  <2>4. p.ok + p.failed = 0 + p.ok + p.failed
    BY <2>3
  <2> QED  BY Zenon, <2>1, <2>2, <2>4
<1>16. ReportBooks'
  <2>1. ReportBooks
    BY Zenon DEF Books
  <2>2. \A n \in 1..Len(results') : main.bench = "Echo" =>
          results'[n].outcome.ok + results'[n].outcome.failed = Cardinality(drawn[results'[n].id])
    BY Zenon, <1>9, <1>15, <2>1 DEF ReportBooks
  <2> QED  BY Zenon, <1>3, <1>10, <1>11, <2>1, <2>2 DEF ReportBooks
<1>17. StaffBooks'
  <2>1. \A v \in Workers : Staffed(worker'[v], main.concs[v]) <=> Staffed(worker[v], main.concs[v])
    BY Zenon, <1>4, <1>5 DEF Staffed, Occupied, InState
  <2>2. StaffBooks
    BY Zenon DEF Books
  <2> QED  BY Zenon, <1>3, <1>11, <1>15, <2>1, <2>2 DEF StaffBooks
<1>18. OnlyBroken
  <2>1. DialsVacant(s, t)
    BY Zenon, <1>4 DEF DialsVacant, NoNewDial
  <2> QED  BY Zenon, <1>5, <2>1, OneDials
<1> QED  BY Zenon, <1>12, <1>13, <1>14, <1>16, <1>17, <1>18 DEF Books

-----------------------------------------------------------------------------
(* Worker::run on a command. *)

(* A channel with one command is empty once it is taken. *)
LEMMA TailOfOne ==
  ASSUME NEW S, NEW q \in Seq(S), Len(q) = 1
  PROVE  Tail(q) \in Seq(S) /\ Len(Tail(q)) = 0
<1>1. q # <<>>
  OBVIOUS
<1>2. Tail(q) \in Seq(S)
  BY <1>1
<1>3. Len(Tail(q)) = Len(q) - 1
  BY <1>1
<1> QED  BY <1>2, <1>3

(* A worker takes a command of its channel, and begins on it. *)
LEMMA RecvBooks ==
  ASSUME WorkerKeeps, PageKeeps, IInv, Books, NEW w \in Workers, Recv(w)
  PROVE  Books' /\ OnlyBroken
<1> DEFINE s == worker[w]
           cmd == Head(rx[w])
<1>1. Held(s, Account(w)) /\ WorkerInv(s) /\ (NotBegun(w) => Fresh(s, main.bench) /\ Resting(w))
  BY Zenon, PageOf DEF Held
<1>2. /\ rx[w] # <<>> /\ rx' = [rx EXCEPT ![w] = Tail(@)]
      /\ results' = results /\ job' = job /\ main' = main /\ drawn' = drawn
  BY Zenon DEF Recv
<1>3. PICK t : worker' = [worker EXCEPT ![w] = t] /\ Begins(s, t, cmd)
  BY Zenon, RecvStep
<1>4. cmd.count \in Nat /\ cmd.concurrency \in Nat
  <2>1. cmd \in Command
    BY Zenon, RecvStep
  <2> QED  BY Zenon, <2>1 DEF Command
<1>5. NotBegun(w) /\ drawn[w] = {} /\ Asks(cmd, Account(w))
  <2>1. NotBegun(w)
    BY Zenon, <1>2 DEF NotBegun
  <2> QED  BY Zenon, <1>2, <2>1 DEF Books, DrawBooks, AskedInv
<1>6. Account(w).bench = main.bench /\ Account(w).drawn = {}
  BY Zenon, <1>5, AccountIs
<1> HIDE DEF cmd
<1>7. Page(t, Account(w)) /\ Orderly(s, t, main.bench)
  <2>1. Fresh(s, Account(w).bench)
    BY Zenon, <1>1, <1>5, <1>6
  <2> QED  BY Zenon, <1>1, <1>3, <1>4, <1>5, <1>6, <2>1 DEF PageKeeps, PageBegins
<1>8. ~Rests(t)
  BY Zenon, <1>1, <1>3, <1>4 DEF WorkerKeeps, BeginsKeeps
<1>9. OnlyMoves(w, t) /\ worker'[w] = t /\ \A v \in Workers : v # w => worker'[v] = worker[v]
  BY Zenon, <1>3, Moved DEF OnlyMoves
<1>10. rx'[w] = <<>> /\ \A v \in Workers : v # w => rx'[v] = rx[v]
  <2>1. Len(rx[w]) = 1 /\ rx[w] \in Seq(Command)
    BY Zenon, <1>2 DEF IInv, HandshakeInv, TypeOK
  <2>2. Tail(rx[w]) \in Seq(Command) /\ Len(Tail(rx[w])) = 0
    BY Zenon, <2>1, TailOfOne
  <2>3. Tail(rx[w]) = <<>>
    BY Zenon, <2>2, ListEmpty
  <2> QED  BY Zenon, <1>2, <2>3 DEF IInv, TypeOK
<1>11. ~NotBegun(w)' /\ ~Resting(w)' /\ ~Through(w)'
  <2>1. ~ToAsk(w)
    BY Zenon, <1>2, OwesAsked DEF Owes
  <2>2. ~ToAsk(w)'
    BY Zenon, <1>2, <2>1 DEF ToAsk
  <2>3. ~Resting(w)'
    BY Zenon, <1>8, <1>9 DEF Resting, Rests
  <2> QED  BY Zenon, <1>10, <2>2, <2>3 DEF NotBegun, Through
<1>12. ASSUME NEW v \in Workers, v # w
       PROVE  (NotBegun(v)' <=> NotBegun(v)) /\ (Through(v)' <=> Through(v))
  <2>1. NotBegun(v)' <=> NotBegun(v)
    BY Zenon, <1>2, <1>10, <1>12 DEF NotBegun, ToAsk
  <2>2. Resting(v)' <=> Resting(v)
    BY Zenon, <1>9, <1>12 DEF Resting
  <2> QED  BY Zenon, <2>1, <2>2 DEF Through
<1>13. \A v \in Workers : (Reported(v)' <=> Reported(v)) /\ Account(v)' = Account(v)
  BY Zenon, <1>2 DEF Reported, Account, Share
<1>14. Pages'
  <2> SUFFICES ASSUME NEW v \in Workers
               PROVE  Page(worker'[v], Account(v)') /\ (NotBegun(v)' => Fresh(worker'[v], main'.bench))
    BY Zenon DEF Pages
  <2>1. CASE v = w
    BY Zenon, <1>7, <1>9, <1>11, <1>13, <2>1
  <2>2. CASE v # w
    BY Zenon, <1>2, <1>9, <1>12, <1>13, <2>2 DEF Books, Pages
  <2> QED  BY Zenon, <2>1, <2>2
<1>15. AskedInv'
  <2> SUFFICES ASSUME NEW v \in Workers, rx'[v] # <<>>  PROVE  Asks(Head(rx'[v]), Account(v)')
    BY Zenon DEF AskedInv
  <2>1. rx'[v] = rx[v]
    BY Zenon, <1>10
  <2> QED  BY Zenon, <1>13, <2>1 DEF Books, AskedInv
<1>16. DrawBooks'
  <2>1. DrawBooks
    BY Zenon DEF Books
  <2>2. \A v \in Workers : NotBegun(v)' => drawn'[v] = {}
    BY Zenon, <1>2, <1>11, <1>12, <2>1 DEF DrawBooks
  <2> QED  BY Zenon, <1>2, <2>1, <2>2 DEF DrawBooks
<1>17. ReportBooks'
  <2>1. ReportBooks
    BY Zenon DEF Books
  <2> QED  BY Zenon, <1>2, <1>11, <1>12, <1>13, <2>1 DEF ReportBooks
<1>18. StaffBooks'
  <2>1. main.bench \in {"Warmup", "Echo"} => \A v \in Workers :
          Staffed(worker'[v], main'.concs[v]) <=> Staffed(worker[v], main.concs[v])
    BY Zenon, <1>2, <1>7, <1>9, StaffSame DEF Orderly
  <2>2. StaffBooks /\ ("Echo" \in {"Warmup", "Echo"})
    BY Zenon DEF Books
  <2> QED  BY Zenon, <1>2, <1>11, <1>12, <2>1, <2>2 DEF StaffBooks
<1>19. OnlyBroken
  BY Zenon, <1>7, <1>9, OneDials DEF Orderly
<1> QED  BY Zenon, <1>14, <1>15, <1>16, <1>17, <1>18, <1>19 DEF Books

-----------------------------------------------------------------------------
(* The steps of main. *)

(* A step of main that asks, wakes or ends: the books of the current benchmark
   stay as they are. *)
LEMMA QuietBooks ==
  ASSUME Books, worker' = worker, job' = job, drawn' = drawn, results' = results,
         main'.bench = main.bench, main'.concs = main.concs, main'.outcomes = main.outcomes,
         \A w \in Workers : NotBegun(w)' <=> NotBegun(w),
         AskedInv'
  PROVE  Books'
<1>1. Pages'
  <2>1. \A w \in Workers : Account(w)' = Account(w)
    BY Zenon DEF Account, Share
  <2> QED  BY Zenon, <2>1 DEF Books, Pages
<1>2. DrawBooks'
  BY Zenon DEF Books, DrawBooks
<1>3. \A w \in Workers : (Through(w)' <=> Through(w)) /\ (Reported(w)' <=> Reported(w))
  BY Zenon DEF Through, Resting, Reported
<1>4. ReportBooks'
  BY Zenon, <1>3 DEF Books, ReportBooks
<1>5. StaffBooks'
  BY Zenon, <1>3 DEF Books, StaffBooks
<1> QED  BY Zenon, <1>1, <1>2, <1>4, <1>5 DEF Books

(* Engine::run and stop: the command is that of main's benchmark. *)
LEMMA CommandIs ==
  ASSUME main \in MainState, NEW w \in Workers
  PROVE  Asks(CommandFor(w), Account(w))
<1>0. /\ Account(w).bench = main.bench /\ Account(w).share = Share(w)
      /\ Account(w).conc = main.concs[w]
  BY Zenon, AccountIs
<1>1. main.bench \in {"Dial", "Warmup", "Echo", "Rate", "Stop", "Abort"}
  BY Zenon DEF MainState
<1>2. CASE main.bench = "Dial"
  <2> DEFINE total == IF DialConc < NumConns THEN DialConc ELSE NumConns
  <2>1. NumConns \in Nat /\ NumWorkers \in Nat \ {0} /\ total \in Nat /\ w \in 1..NumWorkers
    BY EngineAssumption DEF Workers
  <2> HIDE DEF total
  <2>2. NumConns \div NumWorkers \in Nat /\ total \div NumWorkers \in Nat
    BY Zenon, <2>1, Division
  <2>3. PICK count \in Nat : count = SplitEven(NumConns, NumWorkers)[w]
    BY <2>1, <2>2, SplitEvenParts
  <2>4. PICK conc \in Nat : conc = SplitEven(total, NumWorkers)[w]
    BY <2>1, <2>2, SplitEvenParts
  <2>5. CommandFor(w) =
          [kind |-> "Dial", count |-> count,
           concurrency |-> IF count = 0 THEN 0 ELSE IF conc > 1 THEN conc ELSE 1]
    BY <1>2, <2>3, <2>4 DEF CommandFor, total
  <2>6. /\ CommandFor(w).kind = "Dial" /\ CommandFor(w).count = count
        /\ count > 0 => CommandFor(w).concurrency > 0
    BY <2>5
  <2>7. Share(w) = count
    BY <2>3 DEF Share
  <2> QED  BY <1>0, <1>2, <2>6, <2>7 DEF Asks
<1>3. CASE main.bench \in {"Warmup", "Echo"}
  BY <1>0, <1>3 DEF CommandFor, Asks
<1>4. CASE main.bench \in {"Rate", "Stop", "Abort"}
  BY <1>0, <1>4 DEF CommandFor, Asks
<1> QED  BY <1>1, <1>2, <1>3, <1>4

(* Engine::run and stop send a command. *)
LEMMA MainSendBooks ==
  ASSUME IInv, Books, MainSend
  PROVE  Books'
<1> DEFINE k == main.k
<1>1. main \in MainState /\ k \in Workers /\ rx \in [Workers -> Seq(Command)] /\ HandshakeInv
  BY Zenon DEF IInv, TypeOK, MainState
<1>2. /\ main.pc = "send" /\ rx' = [rx EXCEPT ![k] = Append(@, CommandFor(k))]
      /\ main' = [main EXCEPT !.pc = "wake"]
      /\ worker' = worker /\ results' = results /\ job' = job /\ drawn' = drawn
  BY Zenon DEF MainSend
<1>3. /\ main'.pc = "wake" /\ main'.bench = main.bench /\ main'.concs = main.concs
      /\ main'.outcomes = main.outcomes /\ main'.k = k
  BY Zenon, <1>1, <1>2 DEF MainState
<1>4. rx[k] = <<>>
  <2>1. Owes(k) <=> k < k
    BY Zenon, <1>1, <1>2 DEF HandshakeInv
  <2>2. ~(k < k)
    BY <1>1, EngineAssumption DEF Workers
  <2> QED  BY Zenon, <2>1, <2>2 DEF Owes
<1>5. rx'[k] = <<CommandFor(k)>> /\ \A w \in Workers : w # k => rx'[w] = rx[w]
  <2>1. rx'[k] = Append(<<>>, CommandFor(k)) /\ \A w \in Workers : w # k => rx'[w] = rx[w]
    BY Zenon, <1>1, <1>2, <1>4
  <2> HIDE DEF k
  <2>2. PICK c : c = CommandFor(k)
    BY Zenon
  <2>3. Append(<<>>, c) = <<c>>
    OBVIOUS
  <2> QED  BY Zenon, <2>1, <2>2, <2>3
<1>6. \A w \in Workers : Account(w)' = Account(w)
  BY Zenon, <1>2, <1>3 DEF Account, Share
<1>7. AskedInv'
  <2> SUFFICES ASSUME NEW w \in Workers, rx'[w] # <<>>
               PROVE  Asks(Head(rx'[w]), Account(w)')
    BY Zenon DEF AskedInv
  <2>1. CASE w = k
    <3>1. PICK c : c = CommandFor(k)
      BY Zenon
    <3>2. Head(<<c>>) = c
      OBVIOUS
    <3>3. Head(rx'[w]) = CommandFor(w)
      BY Zenon, <1>5, <2>1, <3>1, <3>2
    <3> QED  BY Zenon, <1>1, <1>6, <3>3, CommandIs
  <2>2. CASE w # k
    <3>1. rx'[w] = rx[w]
      BY Zenon, <1>5, <2>2
    <3> QED  BY Zenon, <1>6, <3>1 DEF Books, AskedInv
  <2> QED  BY Zenon, <2>1, <2>2
<1>8. \A w \in Workers : NotBegun(w)' <=> NotBegun(w)
  <2> SUFFICES ASSUME NEW w \in Workers  PROVE  NotBegun(w)' <=> NotBegun(w)
    OBVIOUS
  <2>1. (ToAsk(w) <=> w >= k) /\ (ToAsk(w)' <=> w > k)
    BY <1>2, <1>3 DEF ToAsk
  <2>2. CASE w = k
    <3>1. w >= k
      BY <1>1, <2>2, EngineAssumption DEF Workers
    <3>2. PICK c : c = CommandFor(k)
      BY Zenon
    <3>3. <<c>> # <<>>
      OBVIOUS
    <3> QED  BY Zenon, <1>5, <2>1, <2>2, <3>1, <3>2, <3>3 DEF NotBegun
  <2>3. CASE w # k
    <3>1. w >= k <=> w > k
      BY <1>1, <2>3, EngineAssumption DEF Workers
    <3> QED  BY Zenon, <1>5, <2>1, <2>3, <3>1 DEF NotBegun
  <2> QED  BY Zenon, <2>2, <2>3
<1> QED  BY Zenon, <1>2, <1>3, <1>7, <1>8, QuietBooks

(* The commands of the workers and main's benchmark stay: so do the books. *)
LEMMA MainOnlyBooks ==
  ASSUME Books, UNCHANGED <<worker, rx, results, job, drawn>>,
         main'.bench = main.bench, main'.concs = main.concs, main'.outcomes = main.outcomes,
         \A w \in Workers : ToAsk(w)' <=> ToAsk(w)
  PROVE  Books'
<1>1. \A w \in Workers : NotBegun(w)' <=> NotBegun(w)
  BY Zenon DEF NotBegun
<1>2. \A w \in Workers : Account(w)' = Account(w)
  BY Zenon DEF Account, Share
<1>3. AskedInv'
  BY Zenon, <1>2 DEF Books, AskedInv
<1> QED  BY Zenon, <1>1, <1>3, QuietBooks

(* Engine::run and stop wake a worker. *)
LEMMA MainWakeBooks ==
  ASSUME IInv, Books, MainWake
  PROVE  Books'
<1> DEFINE k == main.k
<1>1. main \in MainState /\ k \in Workers
  BY Zenon DEF IInv, TypeOK, MainState
<1>2. main.pc = "wake" /\ UNCHANGED <<worker, rx, results, job, drawn>>
  BY Zenon DEF MainWake
<1>3. /\ main'.bench = main.bench /\ main'.concs = main.concs /\ main'.outcomes = main.outcomes
      /\ \/ k < NumWorkers /\ main'.pc = "send" /\ main'.k = k + 1
         \/ ~(k < NumWorkers) /\ main'.pc \in {"join", "wait"}
  <2>1. CASE k < NumWorkers
    <3>1. main' = [main EXCEPT !.pc = "send", !.k = k + 1]
      BY Zenon, <2>1 DEF MainWake
    <3>2. PICK l : l = k + 1
      BY Zenon
    <3> QED  BY Zenon, <1>1, <2>1, <3>1, <3>2 DEF MainState
  <2>2. CASE ~(k < NumWorkers)
    <3>1. \/ main' = [main EXCEPT !.pc = "join"]
          \/ main' = [main EXCEPT !.pc = "wait", !.pending = NumWorkers]
      BY Zenon, <2>2 DEF MainWake
    <3> QED  BY Zenon, <1>1, <2>2, <3>1 DEF MainState
  <2> QED  BY Zenon, <2>1, <2>2
<1>4. \A w \in Workers : ToAsk(w)' <=> ToAsk(w)
  <2> SUFFICES ASSUME NEW w \in Workers  PROVE  ToAsk(w)' <=> ToAsk(w)
    OBVIOUS
  <2>1. ToAsk(w) <=> w > k
    BY <1>2 DEF ToAsk
  <2>2. CASE k < NumWorkers /\ main'.pc = "send" /\ main'.k = k + 1
    <3>1. w >= k + 1 <=> w > k
      BY <1>1, EngineAssumption DEF Workers
    <3> QED  BY <2>1, <2>2, <3>1 DEF ToAsk
  <2>3. CASE ~(k < NumWorkers) /\ main'.pc \in {"join", "wait"}
    <3>1. ~(w > k)
      BY <1>1, <2>3, EngineAssumption DEF Workers
    <3> QED  BY <2>1, <2>3, <3>1 DEF ToAsk
  <2> QED  BY Zenon, <1>3, <2>2, <2>3
<1> QED  BY Zenon, <1>2, <1>3, <1>4, MainOnlyBooks

(* The end of the client. *)
LEMMA MainEndBooks ==
  ASSUME IInv, Books, MainDisconnected \/ MainJoin
  PROVE  Books'
<1>1. main \in MainState
  BY Zenon DEF IInv, TypeOK
<1>2. /\ main.pc \in {"wait", "join"} /\ UNCHANGED <<worker, rx, results, job, drawn>>
      /\ \E pc \in {"fatal", "done"} : main' = [main EXCEPT !.pc = pc]
  BY Zenon DEF MainDisconnected, MainJoin
<1>3. /\ main'.bench = main.bench /\ main'.concs = main.concs /\ main'.outcomes = main.outcomes
      /\ main'.pc \in {"fatal", "done"}
  BY Zenon, <1>1, <1>2 DEF MainState
<1>4. \A w \in Workers : ToAsk(w)' <=> ToAsk(w)
  BY <1>2, <1>3 DEF ToAsk
<1> QED  BY Zenon, <1>2, <1>3, <1>4, MainOnlyBooks

(* Engine::run takes an outcome off the channel and keeps it. *)
LEMMA MainRecvBooks ==
  ASSUME IInv, Books, MainRecv
  PROVE  Books'
<1> DEFINE h == Head(results)
           v == h.id
<1>1. /\ main \in MainState /\ main.outcomes \in [Workers -> Phase]
      /\ results \in Seq(Outcome) /\ HandshakeInv
  BY Zenon DEF IInv, TypeOK, MainState
<1>2. /\ main.pc = "wait" /\ results # <<>> /\ results' = Tail(results)
      /\ main' = [main EXCEPT !.pending = @ - 1, !.outcomes[v] = h.outcome]
      /\ worker' = worker /\ rx' = rx /\ job' = job /\ drawn' = drawn
  BY Zenon DEF MainRecv
<1>3. v \in Workers /\ Reported(v) /\ \A w \in Workers : Reported(w)' <=> Reported(w) /\ w # v
  BY Zenon, TakesOne
<1>4. /\ main'.pc = "wait" /\ main'.bench = main.bench /\ main'.concs = main.concs
      /\ main'.outcomes = [main.outcomes EXCEPT ![v] = h.outcome]
  <2>1. PICK p : p = main.pending - 1
    BY Zenon
  <2>2. main' = [main EXCEPT !.pending = p, !.outcomes[v] = h.outcome]
    BY Zenon, <1>2, <2>1
  <2> QED  BY Zenon, <1>1, <1>2, <2>2 DEF MainState
<1>5. \A w \in Workers : ~ToAsk(w) /\ ~ToAsk(w)'
  BY <1>2, <1>4 DEF ToAsk
<1>6. \A w \in Workers : (NotBegun(w)' <=> NotBegun(w)) /\ (Through(w)' <=> Through(w))
  BY Zenon, <1>2, <1>5 DEF NotBegun, Through, Resting
<1>12. \A w \in Workers : Account(w)' = Account(w)
  BY Zenon, <1>2, <1>4 DEF Account, Share
<1>7. Pages' /\ DrawBooks'
  <2>1. Pages'
    BY Zenon, <1>2, <1>4, <1>6, <1>12 DEF Books, Pages
  <2>2. DrawBooks
    BY Zenon DEF Books
  <2>3. DrawBooks'
    BY Zenon, <1>2, <1>6, <2>2 DEF DrawBooks
  <2> QED  BY Zenon, <2>1, <2>3
<1>8. AskedInv'
  BY Zenon, <1>2, <1>12 DEF Books, AskedInv
<1>9. StaffBooks'
  BY Zenon, <1>2, <1>4, <1>6 DEF Books, StaffBooks
<1>10. /\ Len(results) \in Nat /\ Len(results) > 0 /\ Len(results') = Len(results) - 1
       /\ h = results[1] /\ \A n \in 1..Len(results') : results'[n] = results[n + 1]
  BY <1>1, <1>2
<1> HIDE DEF h, v
<1>11. ReportBooks'
  <2> SUFFICES ASSUME main.bench = "Echo"
               PROVE  /\ \A n \in 1..Len(results') :
                           results'[n].outcome.ok + results'[n].outcome.failed
                             = Cardinality(drawn'[results'[n].id])
                      /\ \A w \in Workers : Through(w)' /\ ~Reported(w)' =>
                           main'.outcomes[w].ok + main'.outcomes[w].failed
                             = Cardinality(drawn'[w])
    BY Zenon, <1>4 DEF ReportBooks
  <2>1. /\ \A n \in 1..Len(results) :
             results[n].outcome.ok + results[n].outcome.failed = Cardinality(drawn[results[n].id])
        /\ \A w \in Workers : Through(w) /\ ~Reported(w) =>
             main.outcomes[w].ok + main.outcomes[w].failed = Cardinality(drawn[w])
    BY Zenon DEF Books, ReportBooks
  <2>2. ASSUME NEW n \in 1..Len(results')
        PROVE  results'[n].outcome.ok + results'[n].outcome.failed
                 = Cardinality(drawn'[results'[n].id])
    <3>1. n + 1 \in 1..Len(results)
      BY <1>10
    <3>2. PICK m \in 1..Len(results) : results'[n] = results[m]
      BY Zenon, <1>10, <3>1
    <3> QED  BY Zenon, <1>2, <2>1, <3>2
  <2>3. ASSUME NEW w \in Workers, Through(w)', ~Reported(w)'
        PROVE  main'.outcomes[w].ok + main'.outcomes[w].failed = Cardinality(drawn'[w])
    <3>1. CASE w = v
      <4>1. main'.outcomes[w] = results[1].outcome /\ results[1].id = w
        BY Zenon, <1>1, <1>4, <1>10, <3>1 DEF v
      <4>2. 1 \in 1..Len(results)
        BY <1>10
      <4> QED  BY Zenon, <1>2, <2>1, <4>1, <4>2
    <3>2. CASE w # v
      <4>1. main'.outcomes[w] = main.outcomes[w]
        BY Zenon, <1>1, <1>4, <3>2
      <4> QED  BY Zenon, <1>2, <1>3, <1>6, <2>1, <2>3, <3>2, <4>1
    <3> QED  BY Zenon, <3>1, <3>2
  <2> QED  BY Zenon, <2>2, <2>3
<1> QED  BY Zenon, <1>7, <1>8, <1>9, <1>11 DEF Books

(* A total of zeros is zero. *)
LEMMA TotalNone ==
  ASSUME SetFacts, NEW n \in Nat, NEW f, \A i \in 1..n : f[i] = 0
  PROVE  Total(f, n) = 0
<1>1. \A i \in 1..n : 1..f[i] = {}
  OBVIOUS
<1>2. UNION {{i} \X (1..f[i]) : i \in 1..n} = {}
  BY <1>1
<1> QED  BY Zenon, <1>2 DEF Total, SetFacts, CountEmpty

(* A total that is not zero has a part that is not. *)
LEMMA TotalSome ==
  ASSUME SetFacts, NEW n \in Nat, NEW f \in [1..n -> Nat], Total(f, n) # 0
  PROVE  \E i \in 1..n : f[i] > 0
<1> SUFFICES ASSUME \A i \in 1..n : ~(f[i] > 0)  PROVE  FALSE
  BY Zenon
<1>1. \A i \in 1..n : f[i] = 0
  OBVIOUS
<1> QED  BY Zenon, <1>1, TotalNone

(* split_by gives some worker a part when any of them holds something: what
   the divisions leave over is not lost. *)
LEMMA SplitBySome ==
  ASSUME SetFacts, NEW total \in Nat \ {0}, NEW n \in Nat, NEW holds \in [1..n -> Nat],
         Total(holds, n) # 0
  PROVE  \E i \in 1..n : SplitBy(total, holds, n)[i] > 0
<1> SUFFICES ASSUME \A i \in 1..n : ~(SplitBy(total, holds, n)[i] > 0)
             PROVE  FALSE
  BY Zenon
<1> DEFINE sum == Total(holds, n)
           capped == IF total < sum THEN total ELSE sum
           parts == [i \in 1..n |-> (capped * holds[i]) \div sum]
           left == capped - Total(parts, n)
           short == {i \in 1..n : parts[i] < holds[i]}
           extra(i) == i \in short /\ Cardinality({j \in short : j < i}) < left
<1>1. sum \in Nat \ {0}
  <2>1. sum \in Nat
    BY Zenon, TotalNat
  <2> QED  BY Zenon, <2>1
<1>2. capped \in Nat \ {0}
  BY <1>1
<1>3. \A i \in 1..n : SplitBy(total, holds, n)[i] = IF extra(i) THEN parts[i] + 1 ELSE parts[i]
  BY Zenon DEF SplitBy
<1>4. \A i \in 1..n : parts[i] \in Nat
  <2> SUFFICES ASSUME NEW i \in 1..n  PROVE  parts[i] \in Nat
    BY Zenon
  <2>1. PICK c \in Nat, h \in Nat, s \in Nat \ {0} : c = capped /\ h = holds[i] /\ s = sum
    BY Zenon, <1>1, <1>2
  <2>2. parts[i] = (c * h) \div s
    BY Zenon, <2>1
  <2>3. c * h \in Nat
    OBVIOUS
  <2> HIDE DEF parts
  <2> QED  BY Zenon, <2>2, <2>3, Division
<1> HIDE DEF sum, capped, parts, left, short, extra
<1>5. \A i \in 1..n : ~extra(i) /\ parts[i] = 0
  <2> SUFFICES ASSUME NEW i \in 1..n  PROVE  ~extra(i) /\ parts[i] = 0
    BY Zenon
  <2>1. PICK x : x = SplitBy(total, holds, n)[i]
    BY Zenon
  <2>2. PICK y \in Nat : y = parts[i]
    BY Zenon, <1>4
  <2>3. ~(x > 0) /\ x = IF extra(i) THEN y + 1 ELSE y
    BY Zenon, <1>3, <2>1, <2>2
  <2>4. ~extra(i) /\ y = 0
    BY <2>3
  <2> QED  BY Zenon, <2>2, <2>4
<1>6. left = capped
  <2>1. Total(parts, n) = 0
    BY Zenon, <1>5, TotalNone
  <2>2. left = capped - 0
    BY Zenon, <2>1 DEF left
  <2> QED  BY <1>2, <2>2
<1>7. short # {} /\ short \in SUBSET Nat /\ short \subseteq 1..n
  <2>1. PICK i \in 1..n : holds[i] > 0
    BY Zenon, TotalSome
  <2>2. parts[i] < holds[i]
    BY <1>5, <2>1
  <2>3. short \subseteq 1..n /\ i \in short
    BY Zenon, <2>2 DEF short
  <2> QED  BY <2>3
<1>8. PICK m \in short : \A y \in short : m <= y
  BY Zenon, <1>7 DEF SetFacts, LeastNat
<1>9. {j \in short : j < m} = {}
  <2>1. ASSUME NEW j \in short  PROVE  ~(j < m)
    <3>1. j \in Nat /\ m \in Nat /\ m <= j
      BY Zenon, <1>7, <1>8
    <3> QED  BY <3>1
  <2> QED  BY Zenon, <2>1
<1>10. Cardinality({j \in short : j < m}) < left
  <2>1. Cardinality({j \in short : j < m}) = 0
    BY Zenon, <1>9 DEF SetFacts, CountEmpty
  <2>2. 0 < left
    BY <1>2, <1>6
  <2> QED  BY Zenon, <2>1, <2>2
<1> QED  BY Zenon, <1>5, <1>7, <1>8, <1>10 DEF extra

(* Between two benchmarks nobody owes an outcome and the channels are empty. *)
LEMMA NobodyOwes ==
  ASSUME SetFacts, IInv, main.pc = "wait", main.pending = 0
  PROVE  results = <<>> /\ \A w \in Workers : Resting(w) /\ ~Reported(w) /\ rx[w] = <<>>
<1>1. HandshakeInv /\ results \in Seq(Outcome)
  BY Zenon DEF IInv, TypeOK
<1>2. \A w \in Workers : ~Owes(w)
  <2>1. Cardinality({w \in Workers : Owes(w)}) = 0
    BY Zenon, <1>1 DEF HandshakeInv
  <2>2. IsFiniteSet({w \in Workers : Owes(w)})
    <3>1. {w \in Workers : Owes(w)} \in SUBSET Workers
      BY Zenon
    <3> QED  BY Zenon, <3>1, WorkersFinite DEF SetFacts, CountSubset
  <2>3. {w \in Workers : Owes(w)} = {}
    BY Zenon, <2>1, <2>2 DEF SetFacts, CountEmpty
  <2> QED  BY Zenon, <2>3
<1>3. results = <<>>
  <2> SUFFICES ASSUME results # <<>>  PROVE  FALSE
    BY Zenon
  <2>1. Len(results) \in Nat /\ Len(results) > 0 /\ results[1] \in Outcome
    BY <1>1
  <2>2. 1 \in 1..Len(results)
    BY <2>1
  <2>3. results[1].id \in Workers
    BY Zenon, <2>1 DEF Outcome
  <2>4. Reported(results[1].id)
    BY Zenon, <2>2 DEF Reported
  <2> QED  BY Zenon, <1>2, <2>3, <2>4 DEF Owes
<1> QED  BY Zenon, <1>2, <1>3 DEF Owes

(* split_by, for BenchEcho: a worker that gets a part of the concurrency has a
   connection to use it on, and one does unless none is up. *)
LEMMA SomeStaffed ==
  ASSUME SetFacts, IInv, Total(ReadyCounts, NumWorkers) # 0
  PROVE  \E w \in Workers : Staffed(worker[w], SplitBy(EchoConc, ReadyCounts, NumWorkers)[w])
<1>1. \A w \in Workers : worker[w] \in WorkerState /\ SlotsInv(worker[w])
  BY Zenon DEF IInv, TypeOK, WorkersInv, WorkerInv, Inv
<1>2. ReadyCounts \in [1..NumWorkers -> Nat] /\ \A w \in Workers : ReadyCounts[w] = worker[w].ready
  <2>1. \A w \in Workers : worker[w].ready \in Nat
    BY Zenon, <1>1 DEF WorkerState
  <2> QED  BY Zenon, <2>1 DEF ReadyCounts, Workers
<1>3. EchoConc \in Nat \ {0} /\ NumWorkers \in Nat
  BY Zenon, EngineAssumption
<1>4. PICK w \in Workers : SplitBy(EchoConc, ReadyCounts, NumWorkers)[w] > 0
  BY Zenon, <1>2, <1>3, SplitBySome DEF Workers
<1> DEFINE f == SplitBy(EchoConc, ReadyCounts, NumWorkers)
<1>5. f[w] \in 0..ReadyCounts[w]
  <2>1. w \in 1..NumWorkers /\ EchoConc \in Nat
    BY Zenon, <1>3, <1>4 DEF Workers
  <2> QED  BY Zenon, <1>2, <1>3, <2>1, SplitByCap
<1>6. worker[w].ready > 0
  <2> HIDE DEF f
  <2>1. PICK r \in Nat : r = ReadyCounts[w]
    BY Zenon, <1>2, <1>4 DEF Workers
  <2>2. r > 0
    BY <1>4, <1>5, <2>1 DEF f
  <2> QED  BY Zenon, <1>2, <2>1, <2>2
<1>7. Occupied(worker[w]) # {}
  <2>1. worker[w].ready = Cardinality(InState(worker[w], "ready"))
    BY Zenon, <1>1 DEF SlotsInv
  <2>2. InState(worker[w], "ready") # {}
    <3> SUFFICES ASSUME InState(worker[w], "ready") = {}  PROVE  FALSE
      BY Zenon
    <3>1. worker[w].ready = 0
      BY Zenon, <2>1 DEF SetFacts, CountEmpty
    <3> QED  BY <1>6, <3>1
  <2>3. PICK i \in Slots : worker[w].slots[i].state = "ready"
    BY Zenon, <2>2 DEF InState
  <2> QED  BY Zenon, <2>3, "ready" # "vacant" DEF Occupied, InState
<1> QED  BY Zenon, <1>4, <1>7 DEF Staffed

(* The next benchmark, from the current one. *)
LEMMA NextBenchIs ==
  ASSUME main.bench \in {"Dial", "Warmup", "Echo", "Rate", "Stop", "Abort"}
  PROVE  /\ NextBench \in {"Warmup", "Echo", "Rate", "Stop", "Abort"}
         /\ NextBench = "Warmup" => main.bench = "Dial" /\ Total(ReadyCounts, NumWorkers) # 0
         /\ NextBench = "Echo" => main.bench = "Warmup"
         /\ NextBench = "Rate" => main.bench = "Echo"
<1>1. CASE main.bench = "Dial"
  BY <1>1 DEF NextBench
<1>2. CASE main.bench = "Warmup"
  BY <1>2 DEF NextBench
<1>3. CASE main.bench = "Echo"
  BY <1>3 DEF NextBench
<1>4. CASE main.bench \in {"Rate", "Stop", "Abort"}
  BY <1>4 DEF NextBench
<1> QED  BY Zenon, <1>1, <1>2, <1>3, <1>4

(* main opens the books of the next benchmark. *)
LEMMA MainNextBooks ==
  ASSUME SetFacts, IInv, Books, MainNext
  PROVE  Books'
<1> DEFINE b == NextBench
<1>1. /\ main \in MainState /\ worker \in [Workers -> WorkerState]
      /\ main.bench \in {"Dial", "Warmup", "Echo", "Rate", "Stop", "Abort"}
  BY Zenon DEF IInv, TypeOK, MainState
<1>2. PICK f, o : /\ main.pc = "wait" /\ main.pending = 0
                  /\ f = IF main.bench = "Dial" THEN SplitBy(EchoConc, ReadyCounts, NumWorkers)
                         ELSE main.concs
                  /\ main' = [main EXCEPT !.pc = "send", !.k = 1, !.bench = b, !.concs = f,
                                          !.outcomes = o]
                  /\ drawn' = [w \in Workers |-> {}]
                  /\ worker' = worker /\ rx' = rx /\ results' = results
  BY Zenon DEF MainNext
<1>3. /\ b \in {"Warmup", "Echo", "Rate", "Stop", "Abort"}
      /\ b = "Warmup" => main.bench = "Dial" /\ Total(ReadyCounts, NumWorkers) # 0
      /\ b = "Echo" => main.bench = "Warmup"
      /\ b = "Rate" => main.bench = "Echo"
  BY Zenon, <1>1, NextBenchIs
<1>4. job'.issued = 0 /\ (b = "Echo" => job'.times = EchoTimes) /\ job'.times \in Nat
  <2>1. job' = CASE b = "Warmup" -> NewJob(WarmupPerConn * Total(ReadyCounts, NumWorkers))
                 [] b = "Echo" -> NewJob(EchoTimes)
                 [] OTHER -> NewJob(0)
    BY Zenon DEF MainNext
  <2>2. job' \in EchoJob
    <3>1. IInv'
      BY Zenon, MainNextInv
    <3> QED  BY Zenon, <3>1 DEF IInv, TypeOK
  <2>3. job'.times \in Nat
    BY Zenon, <2>2 DEF EchoJob
  <2> HIDE DEF b
  <2>4. PICK t : job' = CASE b = "Warmup" -> NewJob(t) [] b = "Echo" -> NewJob(EchoTimes)
                          [] OTHER -> NewJob(0)
    BY Zenon, <2>1
  <2>5. job'.issued = 0 /\ (b = "Echo" => job'.times = EchoTimes)
    BY <2>4 DEF NewJob
  <2> QED  BY Zenon, <2>3, <2>5
<1>5. results = <<>> /\ \A w \in Workers : Resting(w) /\ ~Reported(w) /\ rx[w] = <<>>
  BY Zenon, <1>2, NobodyOwes
<1> HIDE DEF b
<1>6. main'.pc = "send" /\ main'.k = 1 /\ main'.bench = b /\ main'.concs = f
  BY Zenon, <1>1, <1>2 DEF MainState
<1>7. \A w \in Workers : NotBegun(w)' /\ ~Through(w)'
  <2>1. \A w \in Workers : ToAsk(w)'
    BY <1>6, EngineAssumption DEF ToAsk, Workers
  <2> QED  BY Zenon, <2>1 DEF NotBegun, Through
<1>8. ASSUME NEW w \in Workers
      PROVE  Page(worker[w], Account(w)') /\ Fresh(worker[w], b)
  <2> DEFINE s == worker[w]
             a == Account(w)
             e == Account(w)'
  <2>1. Page(s, a) /\ a.bench = main.bench /\ a.share = Share(w) /\ a.most = Most
    BY Zenon, AccountIs DEF Books, Pages
  <2>11. e.bench = b /\ e.share = Share(w) /\ e.most = Most
    BY Zenon, <1>6, AccountIs
  <2>2. s.phase.kind = "Idle" /\ s.at = "poll"
    BY Zenon, <1>5 DEF Resting
  <2>3. ~Redialing(s)
    BY <2>2 DEF Redialing
  <2>4. s.phase.kind # "Dial" /\ s.phase.kind # "Echo" /\ s.phase.kind # "Rate"
    BY <2>2
  <2>5. main.bench \in {"Dial", "Warmup", "Echo"} => NoneOpen(s)
    BY Zenon, <2>1 DEF Page, RatePage
  <2>6. b # "Dial" /\ (b \in {"Warmup", "Echo", "Rate"} => NoneOpen(s))
    BY Zenon, <1>3, <2>5, "Dial" # "Warmup", "Dial" # "Echo", "Dial" # "Rate",
       "Dial" # "Stop", "Dial" # "Abort"
  <2> HIDE DEF s, a, e
  <2>7. BenchPage(s, b) /\ EchoPage(s, e)
    BY Zenon, <2>3, <2>4 DEF BenchPage, EchoPage
  <2>8. DialPage(s, Share(w))
    BY Zenon, <2>1, <2>4 DEF Page, DialPage
  <2>9. RatePage(s, e)
    BY Zenon, <2>1, <2>3, <2>4, <2>6, <2>11 DEF Page, RatePage
  <2>10. Fresh(s, b)
    BY Zenon, <2>6 DEF Fresh
  <2> QED  BY Zenon, <2>7, <2>8, <2>9, <2>10, <2>11 DEF Page, s, e
<1>9. Pages'
  BY Zenon, <1>2, <1>6, <1>8 DEF Pages
<1>10. AskedInv'
  BY Zenon, <1>2, <1>5 DEF AskedInv
<1>11. DrawBooks'
  <2>1. \A w \in Workers : drawn'[w] = {}
    BY Zenon, <1>2
  <2>2. UNION {drawn'[w] : w \in Workers} = {}
    BY Zenon, <2>1
  <2>3. 0..((IF job'.issued < job'.times THEN job'.issued ELSE job'.times) - 1) = {}
    BY <1>4
  <2>4. \A v, w \in Workers : v # w => drawn'[v] \cap drawn'[w] = {}
    BY Zenon, <2>1
  <2> QED  BY Zenon, <2>1, <2>2, <2>3, <2>4 DEF DrawBooks
<1>12. ReportBooks'
  <2>1. 1..Len(results') = {}
    BY <1>2, <1>5
  <2> QED  BY Zenon, <1>7, <2>1 DEF ReportBooks
<1>13. StaffBooks'
  <2>1. CASE b = "Warmup"
    <3>1. f = SplitBy(EchoConc, ReadyCounts, NumWorkers)
      BY Zenon, <1>2, <1>3, <2>1
    <3>2. \E w \in Workers : Staffed(worker[w], f[w])
      BY Zenon, <1>3, <2>1, <3>1, SomeStaffed
    <3> QED  BY Zenon, <1>2, <1>6, <2>1, <3>2, "Warmup" # "Echo" DEF StaffBooks
  <2>2. CASE b = "Echo"
    <3>1. f = main.concs
      BY Zenon, <1>2, <1>3, <2>2, "Dial" # "Warmup"
    <3>2. \E w \in Workers : Staffed(worker[w], f[w])
      BY Zenon, <1>3, <2>2, <3>1 DEF Books, StaffBooks
    <3> QED  BY Zenon, <1>2, <1>4, <1>6, <1>7, <2>2, <3>2 DEF StaffBooks
  <2>3. CASE b \notin {"Warmup", "Echo"}
    BY Zenon, <1>6, <2>3 DEF StaffBooks
  <2> QED  BY Zenon, <2>1, <2>2, <2>3
<1> QED  BY Zenon, <1>9, <1>10, <1>11, <1>12, <1>13 DEF Books

-----------------------------------------------------------------------------
(* All the steps. *)

(* The books are in order when the threads start. *)
LEMMA InitBooks ==
  ASSUME PageKeeps, Init
  PROVE  Books
<1>1. /\ main.bench = "Dial" /\ main.pc = "send" /\ main.k = 1
      /\ job.times = 0 /\ job.issued = 0 /\ results = <<>>
  BY DEF Init
<1>2. \A w \in Workers : /\ worker[w] = NewWorker /\ rx[w] = <<>> /\ drawn[w] = {}
                         /\ main.concs[w] = 0
  BY DEF Init
<1>3. \A w \in Workers : ToAsk(w)
  BY <1>1, EngineAssumption DEF ToAsk, Workers
<1>7. ASSUME NEW w \in Workers
      PROVE  Page(worker[w], Account(w)) /\ Fresh(worker[w], "Dial")
  <2>1. Account(w).bench = "Dial" /\ Account(w).share \in Nat /\ Account(w).most \in Nat
    BY Zenon, <1>1, AccountIs, ShareNat, MostNat
  <2>2. Page(NewWorker, Account(w)) /\ Fresh(NewWorker, "Dial")
    BY Zenon, <2>1 DEF PageKeeps, PageNew
  <2> QED  BY Zenon, <1>2, <2>2
<1>8. Pages
  BY Zenon, <1>1, <1>7 DEF Pages
<1>9. AskedInv
  BY Zenon, <1>2 DEF AskedInv
<1>10. DrawBooks
  <2>1. UNION {drawn[w] : w \in Workers} = {}
    BY Zenon, <1>2
  <2>2. 0..((IF job.issued < job.times THEN job.issued ELSE job.times) - 1) = {}
    BY <1>1
  <2> QED  BY Zenon, <1>2, <2>1, <2>2 DEF DrawBooks
<1>11. ReportBooks /\ StaffBooks
  <2>1. main.bench # "Echo" /\ main.bench \notin {"Warmup", "Echo"}
    BY <1>1
  <2> QED  BY Zenon, <2>1 DEF ReportBooks, StaffBooks
<1> QED  BY Zenon, <1>8, <1>9, <1>10, <1>11 DEF Books

(* Every step of every thread keeps the books, and dials only what is neither up
   nor being dialed. *)
LEMMA NextBooks ==
  ASSUME SetFacts, WorkerKeeps, PageKeeps, IInv, Books, Registers, [Next]_vars
  PROVE  Books' /\ OnlyBroken
<1>1. CASE UNCHANGED vars
  <2>1. /\ UNCHANGED <<worker, rx, results, job, drawn>> /\ main' = main
    BY Zenon, <1>1 DEF vars
  <2>2. \A w \in Workers : ToAsk(w)' <=> ToAsk(w)
    BY Zenon, <2>1 DEF ToAsk
  <2> QED  BY Zenon, <2>1, <2>2, MainOnlyBooks DEF OnlyBroken, DialsVacant, NoNewDial
<1>2. CASE MainStep
  <2>1. Books'
    BY Zenon, <1>2, MainSendBooks, MainWakeBooks, MainRecvBooks, MainEndBooks, MainNextBooks
       DEF MainStep
  <2>2. worker' = worker
    BY Zenon, <1>2 DEF MainStep, MainSend, MainWake, MainRecv, MainDisconnected, MainNext, MainJoin
  <2> QED  BY Zenon, <2>1, <2>2 DEF OnlyBroken, DialsVacant, NoNewDial
<1>3. CASE Ended
  BY Zenon, <1>1, <1>3 DEF Ended
<1>4. ASSUME NEW w \in Workers, Recv(w) \/ RetryDue(w) \/ DriveStep(w)
      PROVE  Books' /\ OnlyBroken
  <2>1. CASE Recv(w)
    BY Zenon, <2>1, RecvBooks
  <2>2. CASE HandlerStep(w)
    BY Zenon, <2>2, Handled, HandledBooks
  <2>3. CASE FinishDial(w) \/ FinishEcho(w) \/ FinishRate(w)
    BY Zenon, <2>3, FinishBooks
  <2>4. CASE EchoExhaust(w) \/ EchoDraw(w)
    BY Zenon, <2>4, ExhaustBooks, EchoDrawBooks
  <2> QED  BY Zenon, <1>4, <2>1, <2>2, <2>3, <2>4 DEF DriveStep, HandlerStep
<1>5. ASSUME NEW w \in Workers, NEW i \in Slots, NetworkStep(w, i)
      PROVE  Books' /\ OnlyBroken
  BY Zenon, <1>5, Handled, HandledBooks DEF HandlerStep
<1> QED  BY Zenon, <1>1, <1>2, <1>3, <1>4, <1>5 DEF Next

-----------------------------------------------------------------------------
(* What follows from the books. *)

(* The sizes of n sets, no two with a common element, add up to that of their
   union. *)
SizesOf(f, d, n) ==
  /\ n \in Nat /\ f \in [1..n -> Nat]
  /\ \A i \in 1..n : IsFiniteSet(d[i]) /\ f[i] = Cardinality(d[i])
  /\ \A i, j \in 1..n : i # j => d[i] \cap d[j] = {}

(* A bijection from the units of the sum to the union. *)
LEMMA TotalOfParts ==
  ASSUME SetFacts, NEW n, NEW d, NEW f, SizesOf(f, d, n)
  PROVE  Total(f, n) = Cardinality(UNION {d[i] : i \in 1..n})
<1> DEFINE B(i) == Bijection(1..f[i], d[i])
           g == [i \in 1..n |-> CHOOSE b : b \in B(i)]
           U == UNION {{i} \X (1..f[i]) : i \in 1..n}
           D == UNION {d[i] : i \in 1..n}
           h == [u \in U |-> g[u[1]][u[2]]]
<1> USE DEF SizesOf
<1>2. \A i \in 1..n : g[i] \in B(i)
  <2> SUFFICES ASSUME NEW i \in 1..n  PROVE  g[i] \in B(i)
    BY Zenon
  <2>3. B(i) # {}
    BY Zenon DEF ExistsBijection, SetFacts, CountNumbered
  <2>4. PICK b : b \in B(i)
    BY Zenon, <2>3
  <2> HIDE DEF B
  <2>5. (CHOOSE x : x \in B(i)) \in B(i)
    BY Zenon, <2>4
  <2> QED  BY Zenon, <2>5
<1>3. \A i \in 1..n : /\ \A k \in 1..f[i] : g[i][k] \in d[i]
                      /\ \A k, l \in 1..f[i] : g[i][k] = g[i][l] => k = l
                      /\ \A x \in d[i] : \E k \in 1..f[i] : g[i][k] = x
  <2> SUFFICES ASSUME NEW i \in 1..n
               PROVE  /\ \A k \in 1..f[i] : g[i][k] \in d[i]
                      /\ \A k, l \in 1..f[i] : g[i][k] = g[i][l] => k = l
                      /\ \A x \in d[i] : \E k \in 1..f[i] : g[i][k] = x
    BY Zenon
  <2>1. g[i] \in Bijection(1..f[i], d[i])
    BY Zenon, <1>2
  <2> HIDE DEF g
  <2> QED  BY Zenon, <2>1 DEF Bijection, Injection, Surjection, IsInjective
<1> HIDE DEF g, B
<1>4. /\ \A u \in U : \E i \in 1..n : \E k \in 1..f[i] : u = <<i, k>>
      /\ \A i \in 1..n : \A k \in 1..f[i] : <<i, k>> \in U
  OBVIOUS
<1> HIDE DEF U
<1>5. \A i \in 1..n : \A k \in 1..f[i] : h[<<i, k>>] = g[i][k]
  BY Zenon, <1>4
<1>6. DOMAIN h = U /\ h = [u \in U |-> h[u]]
  BY Zenon
<1> HIDE DEF h
<1>13. ASSUME NEW i \in 1..n, NEW k \in 1..f[i]  PROVE  h[<<i, k>>] \in d[i]
  <2>1. h[<<i, k>>] = g[i][k] /\ g[i][k] \in d[i]
    BY Zenon, <1>3, <1>5
  <2> QED  BY Zenon, <2>1
<1>14. ASSUME NEW i \in 1..n, NEW k \in 1..f[i], NEW l \in 1..f[i], h[<<i, k>>] = h[<<i, l>>]
       PROVE  k = l
  <2>1. h[<<i, k>>] = g[i][k]
    BY Zenon, <1>5
  <2>2. h[<<i, l>>] = g[i][l]
    BY Zenon, <1>5
  <2>3. g[i][k] = g[i][l]
    BY Zenon, <1>14, <2>1, <2>2
  <2> QED  BY Zenon, <1>3, <2>3
<1>7. \A u \in U : h[u] \in D
  <2> SUFFICES ASSUME NEW u \in U  PROVE  h[u] \in D
    BY Zenon
  <2>1. PICK i \in 1..n : \E k \in 1..f[i] : u = <<i, k>>
    BY Zenon, <1>4
  <2>2. h[u] \in d[i]
    BY Zenon, <1>13, <2>1
  <2> QED  BY Zenon, <2>2
<1>8. \A u, v \in U : h[u] = h[v] => u = v
  <2> SUFFICES ASSUME NEW u \in U, NEW v \in U, h[u] = h[v]  PROVE  u = v
    BY Zenon
  <2>1a. PICK i \in 1..n : \E k \in 1..f[i] : u = <<i, k>>
    BY Zenon, <1>4
  <2>1. PICK k \in 1..f[i] : u = <<i, k>>
    BY Zenon, <2>1a
  <2>2a. PICK j \in 1..n : \E l \in 1..f[j] : v = <<j, l>>
    BY Zenon, <1>4
  <2>2. PICK l \in 1..f[j] : v = <<j, l>>
    BY Zenon, <2>2a
  <2>3. h[u] \in d[i] /\ h[v] \in d[j]
    BY Zenon, <1>13, <2>1, <2>2
  <2>4. i = j
    BY Zenon, <2>3
  <2>5. k = l
    BY Zenon, <1>14, <2>1, <2>2, <2>4
  <2> QED  BY Zenon, <2>1, <2>2, <2>4, <2>5
<1>9. \A x \in D : \E u \in U : h[u] = x
  <2> SUFFICES ASSUME NEW x \in D  PROVE  \E u \in U : h[u] = x
    BY Zenon
  <2>1. PICK i \in 1..n : x \in d[i]
    BY Zenon
  <2>2. PICK k \in 1..f[i] : g[i][k] = x
    BY Zenon, <1>3, <2>1
  <2> QED  BY Zenon, <1>4, <1>5, <2>2
<1> HIDE DEF D
<1>10. h \in Bijection(U, D)
  <2>1. h \in [U -> D]
    BY Zenon, <1>6, <1>7
  <2> QED  BY Zenon, <1>6, <1>8, <1>9, <2>1 DEF Bijection, Injection, Surjection, IsInjective
<1>11. Cardinality(D) = Cardinality(U)
  <2>1. IsFiniteSet(U)
    BY Zenon, TotalNat DEF U
  <2>2. ExistsBijection(U, D)
    BY Zenon, <1>10 DEF ExistsBijection
  <2> QED  BY Zenon, <2>1, <2>2 DEF SetFacts, CountBijection
<1>12. Total(f, n) = Cardinality(U)
  BY Zenon DEF Total, U
<1> QED  BY Zenon, <1>11, <1>12 DEF D

(* drive_dial: DialsExact, from the invariant and the books. *)
LEMMA DialsAdd ==
  ASSUME SetFacts, IInv, Books
  PROVE  DialsExact
<1> SUFFICES ASSUME NEW w \in Workers
             PROVE  LET s == worker[w]
                        share == SplitEven(NumConns, NumWorkers)[w] IN
                    /\ s.len <= share
                    /\ s.phase.kind = "Dial" =>
                         /\ s.phase.active = s.starts + Len(s.retries)
                                               + Cardinality(InState(s, "connecting"))
                         /\ s.phase.active <= s.phase.concurrency
                         /\ share > 0 => s.phase.concurrency > 0
                         /\ s.phase.remaining + s.phase.active + s.phase.ok + s.phase.failed = share
  BY Zenon DEF DialsExact
<1> DEFINE s == worker[w]
<1>1. s \in WorkerState /\ DialsInv(s, 0) /\ DialPage(s, Share(w))
  <2>1. WorkerInv(s) /\ Page(s, Account(w))
    BY Zenon, PageOf DEF Held
  <2> QED  BY Zenon, <2>1, AccountIs DEF WorkerInv, Inv, Page
<1> HIDE DEF s
<1>2. ASSUME s.phase.kind = "Dial"
      PROVE  s.phase.active = s.starts + Len(s.retries) + Cardinality(InState(s, "connecting"))
  <2>1. s.phase.active = s.starts + Dials(s) + 0
    BY Zenon, <1>1, <1>2 DEF DialsInv
  <2>2. s.starts \in Nat /\ Len(s.retries) \in Nat
    <3>1. s.starts \in Nat /\ s.retries \in Seq(Job)
      BY Zenon, <1>1 DEF WorkerState
    <3> QED  BY <3>1
  <2>3. Cardinality(InState(s, "connecting")) \in Nat
    <3>1. IsFiniteSet(Slots)
      BY WorkerAssumption DEF Slots, SetFacts, CountInterval
    <3>2. InState(s, "connecting") \in SUBSET Slots
      BY Zenon DEF InState
    <3> QED  BY Zenon, <3>1, <3>2 DEF SetFacts, CountSubset, CountIsNat
  <2>4. PICK n \in Nat, r \in Nat, c \in Nat :
          n = s.starts /\ r = Len(s.retries) /\ c = Cardinality(InState(s, "connecting"))
    BY Zenon, <2>2, <2>3
  <2>5. Dials(s) = r + c \/ Dials(s) = c + r
    BY Zenon, <2>4 DEF Dials
  <2>6. s.phase.active = n + r + c
    BY <2>1, <2>4, <2>5
  <2> QED  BY Zenon, <2>4, <2>6
<1> QED  BY Zenon, <1>1, <1>2 DEF DialPage, Share, s

(* drive_echo: DrawsPartition, from the books. *)
LEMMA DrawsShared ==
  ASSUME Books
  PROVE  DrawsPartition
<1>1. ASSUME NEW w \in Workers, worker[w].phase.kind = "Echo", worker[w].phase.measure
      PROVE  Cardinality(drawn[w])
               = worker[w].phase.in_flight + worker[w].phase.ok + worker[w].phase.failed
  <2>1. EchoPage(worker[w], Account(w)) /\ Account(w).drawn = drawn[w]
    BY Zenon, AccountIs DEF Books, Pages, Page
  <2> QED  BY Zenon, <1>1, <2>1 DEF EchoPage
<1> QED  BY Zenon, <1>1 DEF Books, DrawBooks, DrawsPartition

(* rate_tick and multiplex_done: RateWindow, from the books. *)
LEMMA WindowHeld ==
  ASSUME Books
  PROVE  RateWindow
<1>1. ASSUME NEW w \in Workers  PROVE  RatePage(worker[w], Account(w)) /\ Account(w).most = Most
  BY Zenon, AccountIs DEF Books, Pages, Page
<1> QED  BY Zenon, <1>1 DEF RatePage, InFlight, RateWindow, Most

(* BenchEcho ends with as many results as -en asks for. *)
LEMMA AllSpent ==
  ASSUME SetFacts, IInv, Books
  PROVE  BudgetSpent
<1> SUFFICES ASSUME main.bench = "Echo", main.pc = "wait", main.pending = 0
             PROVE  Total([w \in Workers |-> main.outcomes[w].ok + main.outcomes[w].failed],
                          NumWorkers) = EchoTimes
  BY Zenon DEF BudgetSpent
<1>1. \A w \in Workers : Resting(w) /\ ~Reported(w) /\ rx[w] = <<>>
  BY Zenon, NobodyOwes
<1>2. \A w \in Workers : ~ToAsk(w)
  BY DEF ToAsk
<1>3. \A w \in Workers : Through(w)
  BY Zenon, <1>1, <1>2 DEF Through, NotBegun
<1>4. \A w \in Workers :
        main.outcomes[w].ok + main.outcomes[w].failed = Cardinality(drawn[w])
  BY Zenon, <1>1, <1>3 DEF Books, ReportBooks
<1>5. job.issued >= job.times /\ job.times = EchoTimes
  BY Zenon, <1>3 DEF Books, StaffBooks
<1>6. /\ UNION {drawn[w] : w \in Workers} = 0..(EchoTimes - 1)
      /\ \A v, w \in Workers : v # w => drawn[v] \cap drawn[w] = {}
  <2>1. job.issued \in Nat /\ EchoTimes \in Nat
    BY Zenon, EngineAssumption DEF IInv, TypeOK, EchoJob
  <2>2. (IF job.issued < job.times THEN job.issued ELSE job.times) = EchoTimes
    BY <1>5, <2>1
  <2> QED  BY Zenon, <2>2 DEF Books, DrawBooks
<1>7. IsFiniteSet(0..(EchoTimes - 1)) /\ Cardinality(0..(EchoTimes - 1)) = EchoTimes
  <2>1. EchoTimes \in Nat
    BY Zenon, EngineAssumption
  <2> QED  BY <2>1 DEF SetFacts, CountInterval
<1>8. \A w \in Workers : IsFiniteSet(drawn[w])
  <2> SUFFICES ASSUME NEW w \in Workers  PROVE  IsFiniteSet(drawn[w])
    BY Zenon
  <2>1. PICK D : D = 0..(EchoTimes - 1)
    BY Zenon
  <2>2. IsFiniteSet(D)
    BY Zenon, <1>7, <2>1
  <2>3. drawn[w] \in SUBSET D
    BY Zenon, <1>6, <2>1
  <2> QED  BY Zenon, <2>2, <2>3 DEF SetFacts, CountSubset
<1> DEFINE f == [w \in Workers |-> main.outcomes[w].ok + main.outcomes[w].failed]
<1>9. f \in [1..NumWorkers -> Nat] /\ \A w \in 1..NumWorkers : f[w] = Cardinality(drawn[w])
  <2>1. \A w \in Workers : Cardinality(drawn[w]) \in Nat
    BY Zenon, <1>8 DEF SetFacts, CountIsNat
  <2> QED  BY Zenon, <1>4, <2>1 DEF Workers
<1> HIDE DEF f
<1>10. NumWorkers \in Nat
  BY Zenon, EngineAssumption
<1>11. Total(f, NumWorkers) = Cardinality(UNION {drawn[w] : w \in 1..NumWorkers})
  <2>1. SizesOf(f, drawn, NumWorkers)
    BY Zenon, <1>6, <1>8, <1>9, <1>10 DEF SizesOf, Workers
  <2> QED  BY <2>1, TotalOfParts
<1> QED  BY Zenon, <1>6, <1>7, <1>11 DEF Workers, f
=============================================================================
