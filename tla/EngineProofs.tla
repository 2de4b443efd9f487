---------------------------- MODULE EngineProofs ----------------------------
(***************************************************************************)
(* The safety of the load generator, for any number of workers,            *)
(* connections, dials, round trips, retries and faults: IInv and the books *)
(* (EInv of module Ledger) are inductive, through every step of a worker   *)
(* thread, of the network and of main, and the properties the runs check   *)
(* on small instances follow from them.  They assume that no error of      *)
(* registering a socket occurs (Registers), without which they do not      *)
(* hold: see the run of RegisterUnwrap.cfg.                                *)
(***************************************************************************)
EXTENDS WorkerProofs, PageProofs, LedgerProofs, FiniteSetTheorems, WellFoundedInduction

-----------------------------------------------------------------------------
(* What the lemmas take as a hypothesis. *)

(* The order of the naturals is well-founded. *)
LEMMA LeastNatHolds == LeastNat
<1> SUFFICES ASSUME NEW S \in SUBSET Nat, S # {}
             PROVE  \E x \in S : \A y \in S : x <= y
  BY DEF LeastNat
<1> DEFINE Less == OpToRel(<, Nat)
<1>2. IsWellFoundedOn(Less, Nat)
  BY Zenon, NatLessThanWellFounded
<1>3. \A x, y \in Nat : y < x => <<y, x>> \in Less
  BY DEF OpToRel
<1> HIDE DEF Less
<1>4. PICK x \in S : \A y \in S : ~(<<y, x>> \in Less)
  BY Zenon, <1>2, WFMin
<1>5. x \in Nat /\ \A y \in S : y \in Nat /\ ~(y < x)
  BY Zenon, <1>3, <1>4
<1>6. \A y \in S : x <= y
  BY <1>5
<1> QED  BY <1>6

(* The library of theorems about finite sets. *)
LEMMA SetFactsHold == SetFacts
<1>1. CountIsNat /\ CountNumbered
  BY Zenon, FS_CardinalityType DEF CountIsNat, CountNumbered
<1>2. CountEmpty
  BY Zenon, FS_EmptySet DEF CountEmpty
<1>3. CountAdd
  BY Zenon, FS_AddElement DEF CountAdd
<1>4. CountRemove
  BY Zenon, FS_RemoveElement DEF CountRemove
<1>5. CountSubset
  BY Zenon, FS_Subset DEF CountSubset
<1>6. CountInterval
  BY Zenon, FS_Interval DEF CountInterval
<1>7. CountSingle
  BY Zenon, FS_Singleton DEF CountSingle
<1>8. CountProduct
  BY Zenon, FS_Product DEF CountProduct
<1>9. CountUNION
  BY Zenon, FS_UNION DEF CountUNION
<1>10. CountSurjection
  BY Zenon, FS_Surjection DEF CountSurjection
<1>11. CountBijection
  BY Zenon, FS_Bijection DEF CountBijection
<1>12. CountUnion
  BY Zenon, FS_Union, FS_Intersection DEF CountUnion
<1> QED  BY Zenon, <1>1, <1>2, <1>3, <1>4, <1>5, <1>6, <1>7, <1>8, <1>9, <1>10,
            <1>11, <1>12, LeastNatHolds DEF SetFacts

(* The steps of a worker keep its promises. *)
LEMMA Premises == SetFacts /\ WorkerKeeps /\ PageKeeps
BY Zenon, SetFactsHold, WorkerHolds, PagesHold

-----------------------------------------------------------------------------
(* The division of the work, and the engine. *)

(* split_by gives no worker more than it holds, and none a negative share:
   the doc comment of split_by ("no more than it holds"). *)
THEOREM SplitByCapped ==
  ASSUME NEW total \in Nat, NEW n \in Nat, NEW holds \in [1..n -> Nat], NEW i \in 1..n
  PROVE  SplitBy(total, holds, n)[i] \in 0..holds[i]
BY Zenon, Premises, SplitByCap

(* The invariant holds in every reachable state, whatever the number of
   workers, connections, retries, round trips and faults, as long as no
   socket fails to register with its poller. *)
THEOREM Inductive ==
  ASSUME Registers
  PROVE  Spec => []IInv
<1>1. Init => IInv
  BY Premises, InitInv
<1>2. IInv /\ [Next]_vars => IInv'
  BY Premises, NextInv
<1> QED  BY <1>1, <1>2, PTL DEF Spec

(* Every variable keeps its type: no counter of engine.rs is decremented
   below zero, whichever order the handlers, timers and main run in. *)
THEOREM TypeCorrect ==
  ASSUME Registers
  PROVE  Spec => []TypeOK
<1>1. IInv => TypeOK
  BY DEF IInv
<1> QED  BY <1>1, Inductive, PTL

(* drive_echo: a connection carries one round trip or is idle, and never
   both, through failures, redials and retries; in_flight counts exactly the
   ones that carry one, and stays within the worker's share of -ec. *)
THEOREM EchoIsExact ==
  ASSUME Registers
  PROVE  Spec => []EchoExact
<1>1. IInv => EchoExact
  BY Premises, EchoFollows
<1> QED  BY <1>1, Inductive, PTL

(* Engine::ready_counts reads exactly the connections that are up, so the
   concurrency main splits by it is never more than they are. *)
THEOREM ReadyIsExact ==
  ASSUME Registers
  PROVE  Spec => []ReadyExact
<1>1. IInv => ReadyExact
  BY ReadyFollows
<1> QED  BY <1>1, Inductive, PTL

(* alloc_slot and dial_failed: the free list holds every vacant slot once. *)
THEOREM FreeIsExact ==
  ASSUME Registers
  PROVE  Spec => []FreeExact
<1>1. IInv => FreeExact
  BY FreeFollows
<1> QED  BY <1>1, Inductive, PTL

(* finish: a benchmark leaves no dial, retry, queued or open request of its
   own for the next one to meet. *)
THEOREM LeavesNothing ==
  ASSUME Registers
  PROVE  Spec => []NothingLeftBehind
<1>1. IInv => NothingLeftBehind
  BY NothingFollows
<1> QED  BY <1>1, Inductive, PTL

(* send_queued takes one request from a queue that never holds more. *)
THEOREM QueueIsBounded ==
  ASSUME Registers
  PROVE  Spec => []QueueBound
<1>1. IInv => QueueBound
  BY QueueFollows
<1> QED  BY <1>1, Inductive, PTL

(* Engine::run and Engine::stop keep all workers in the same benchmark,
   whatever their number and whatever fails: the engine implements Rounds.
   IInv says what each worker owes main; StopInv adds what is known of the
   last round. *)
THEOREM RunsRounds ==
  ASSUME Registers
  PROVE  Spec => RunsInRounds
<1>1. Init /\ IInv => R!Init /\ StopInv
  BY RoundInit
<1>2. IInv /\ IInv' /\ StopInv /\ [Next]_vars => [R!Next]_R!vars /\ StopInv'
  BY Premises, RoundStep
<1> QED  BY <1>1, <1>2, Inductive, PTL DEF Spec, RunsInRounds, R!Spec

-----------------------------------------------------------------------------
(* What the counters add up to. *)

(* The books of the workers and of main balance between any two steps, in every
   reachable state: IInv says where each job, slot and outcome is, StopInv
   where main is in the last round, and Books what the counters of the
   benchmarks, the numbers drawn and the outcomes on their way add up to. *)
THEOREM BooksBalance ==
  ASSUME Registers
  PROVE  Spec => []EInv
<1>1. Init => EInv
  <2> SUFFICES ASSUME Init  PROVE  EInv
    OBVIOUS
  <2>1. IInv
    BY Zenon, Premises, InitInv
  <2>2. StopInv
    BY Zenon, <2>1, RoundInit
  <2>3. Books
    BY Zenon, Premises, InitBooks
  <2> QED  BY Zenon, <2>1, <2>2, <2>3 DEF EInv
<1>2. EInv /\ [Next]_vars => EInv'
  <2> SUFFICES ASSUME EInv, [Next]_vars  PROVE  EInv'
    OBVIOUS
  <2>1. IInv /\ StopInv /\ Books
    BY Zenon DEF EInv
  <2>2. IInv'
    BY Zenon, <2>1, Premises, NextInv
  <2>3. StopInv'
    BY Zenon, <2>1, <2>2, Premises, RoundStep
  <2>4. Books'
    BY Zenon, <2>1, Premises, NextBooks
  <2> QED  BY Zenon, <2>2, <2>3, <2>4 DEF EInv
<1> QED  BY <1>1, <1>2, PTL DEF Spec

(* BenchDial: the dials to come, under way, made and given up are the -c that
   were asked for, and each is counted once, through failures and retries. *)
THEOREM DialsAreExact ==
  ASSUME Registers
  PROVE  Spec => []DialsExact
<1>1. EInv => DialsExact
  BY Zenon, Premises, DialsAdd DEF EInv
<1> QED  BY <1>1, BooksBalance, PTL

(* drive_echo: the shared counter hands every number out once, to one worker. *)
THEOREM DrawsAreShared ==
  ASSUME Registers
  PROVE  Spec => []DrawsPartition
<1>1. EInv => DrawsPartition
  BY Zenon, Premises, DrawsShared DEF EInv
<1> QED  BY <1>1, BooksBalance, PTL

(* rate_tick opens no more on a connection than MAX_BATCHES_IN_FLIGHT batches. *)
THEOREM WindowIsHeld ==
  ASSUME Registers
  PROVE  Spec => []RateWindow
<1>1. EInv => RateWindow
  BY Zenon, Premises, WindowHeld DEF EInv
<1> QED  BY <1>1, BooksBalance, PTL

(* BenchEcho ends with every round trip of -en counted once, by some worker,
   as done or as failed. *)
THEOREM BudgetIsSpent ==
  ASSUME Registers
  PROVE  Spec => []BudgetSpent
<1>1. EInv => BudgetSpent
  BY Zenon, Premises, AllSpent DEF EInv
<1> QED  BY <1>1, BooksBalance, PTL

(* try_dial takes down no connection that is up or that is being dialed. *)
THEOREM DialsBroken ==
  ASSUME Registers
  PROVE  Spec => DialsOnlyBroken
<1>1. EInv /\ [Next]_vars =>
        [\A w \in Workers, i \in Slots :
           worker'[w].slots[i].state = "connecting" =>
             \/ worker[w].slots[i].state # "ready"
                /\ worker[w].slots[i].state # "connecting"
             \/ UNCHANGED worker[w].slots[i].dial /\ worker[w].slots[i].state = "connecting"]_vars
  <2> SUFFICES ASSUME EInv, [Next]_vars, NEW w \in Workers, NEW i \in Slots,
                      worker'[w].slots[i].state = "connecting"
               PROVE  \/ worker[w].slots[i].state # "ready"
                         /\ worker[w].slots[i].state # "connecting"
                      \/ UNCHANGED worker[w].slots[i].dial /\ worker[w].slots[i].state = "connecting"
    BY Zenon
  <2>1. OnlyBroken
    BY Zenon, Premises, NextBooks DEF EInv
  <2>2. \/ worker[w].slots[i].state = "connecting"
           /\ worker'[w].slots[i].dial = worker[w].slots[i].dial
        \/ worker[w].slots[i].state \in {"vacant", "broken"}
    BY Zenon, <2>1 DEF OnlyBroken, DialsVacant, NoNewDial
  <2> QED  BY Zenon, <2>2, "vacant" # "ready", "vacant" # "connecting", "broken" # "ready",
              "broken" # "connecting"
<1> QED  BY <1>1, BooksBalance, PTL DEF Spec, DialsOnlyBroken
=============================================================================
