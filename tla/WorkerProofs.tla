---------------------------- MODULE WorkerProofs ----------------------------
(***************************************************************************)
(* A worker keeps its promises (WorkerKeeps of module WorkerSteps): the    *)
(* commands, the retries and the iterations of the loops of drive,         *)
(* drive_echo and rate_tick keep the worker's invariant, and with the      *)
(* handlers (HandlerProofs) they make up the worker's steps.               *)
(***************************************************************************)
EXTENDS HandlerProofs, WorkerSteps

-----------------------------------------------------------------------------
(* Commands and the steps of the benchmarks: start, finish, close_all, the
   retries, and the loops. *)

(* A worker whose connections and retries stay as they are. *)

Same(s, t) ==
  /\ t \in WorkerState /\ t.slots = s.slots /\ t.free = s.free /\ t.len = s.len
  /\ t.ready = s.ready /\ t.retries = s.retries

(* Workers with the same slots, lists and counters have the same invariants of
   the slots. *)
LEMMA SameFacts ==
  ASSUME SetFacts, NEW s \in WorkerState, NEW t, Same(s, t)
  PROVE  /\ SlotsInv(s) => SlotsInv(t)
         /\ Dials(t) = Dials(s) /\ Dials(s) \in Nat
         /\ \A p : DialsFor(t, p) <=> DialsFor(s, p)
         /\ \A i : Retried(t, i) <=> Retried(s, i)
         /\ \A i \in Slots : Busy(t, i) <=> Busy(s, i)
         /\ BusySlots(t) = BusySlots(s)
         /\ \A st : InState(t, st) = InState(s, st)
         /\ NoEcho(t) <=> NoEcho(s)
<1>1. SlotsInv(s) => SlotsInv(t)
  BY DEF Same, SlotsInv, FreeInv, InState
<1>2. \A st : InState(t, st) = InState(s, st)
  BY DEF Same, InState
<1>3. Dials(t) = Dials(s)
  BY Zenon, <1>2 DEF Same, Dials
<1>4. Dials(s) \in Nat
  <2>1. InState(s, "connecting") \in SUBSET Slots /\ Len(s.retries) \in Nat
    BY Zenon, WorkerTypes, SeqLen DEF InState
  <2> QED  BY SMTT(30), <2>1, SlotsFinite DEF Dials
<1>5. \A p : DialsFor(t, p) <=> DialsFor(s, p)
  BY DEF Same, DialsFor
<1>6. \A i : Retried(t, i) <=> Retried(s, i)
  BY DEF Same, Retried
<1>7. \A i \in Slots : Busy(t, i) <=> Busy(s, i)
  BY <1>6 DEF Same, Busy
<1>8. BusySlots(t) = BusySlots(s)
  BY <1>7 DEF BusySlots
<1>9. NoEcho(t) <=> NoEcho(s)
  BY Zenon DEF Same, NoEcho
<1> QED  BY Zenon, <1>1, <1>2, <1>3, <1>4, <1>5, <1>6, <1>7, <1>8, <1>9

(* The counters of a phase that was just set. *)
LEMMA IdlePhase ==
  /\ Idle \in Phase
  /\ Idle.kind = "Idle" /\ Idle.active = 0 /\ Idle.in_flight = 0 /\ Idle.idle = <<>>
BY SMTT(30) DEF Idle, Phase

(* A worker that no dial is under way or waits in. *)
LEMMA NoDials ==
  ASSUME SetFacts, NEW s \in WorkerState
  PROVE  /\ Dials(s) = 0 <=> s.retries = <<>> /\ InState(s, "connecting") = {}
         /\ Dials(s) = 0 => \A i : ~Retried(s, i)
         /\ Dials(s) = 0 => \A p : DialsFor(s, p)
<1>1. /\ InState(s, "connecting") \in SUBSET Slots /\ IsFiniteSet(InState(s, "connecting"))
      /\ Cardinality(InState(s, "connecting")) \in Nat
  BY SlotsFinite DEF InState
<1>2. s.retries \in Seq(Job) /\ Len(s.retries) \in Nat
  BY WorkerTypes
<1>3. Cardinality(InState(s, "connecting")) = 0 <=> InState(s, "connecting") = {}
  BY <1>1 DEF SetFacts, CountEmpty
<1>4. Len(s.retries) = 0 <=> s.retries = <<>>
  BY <1>2
<1>5. Dials(s) = 0 <=> s.retries = <<>> /\ InState(s, "connecting") = {}
  BY SMTT(30), <1>1, <1>2, <1>3, <1>4 DEF Dials
<1>6. ASSUME Dials(s) = 0  PROVE  1..Len(s.retries) = {}
  BY SMTT(30), <1>2, <1>4, <1>5, <1>6
<1>7. Dials(s) = 0 => \A i : ~Retried(s, i)
  BY Zenon, <1>6 DEF Retried
<1>8. Dials(s) = 0 => \A p : DialsFor(s, p)
  BY Zenon, <1>5, <1>6 DEF DialsFor, InState
<1> QED  BY Zenon, <1>5, <1>7, <1>8

(* A worker between two benchmarks. *)
LEMMA RestingFacts ==
  ASSUME SetFacts, NEW s, WorkerInv(s), s.phase.kind = "Idle", s.at # "redialing"
  PROVE  /\ s \in WorkerState /\ Dials(s) = 0 /\ NoEcho(s) /\ s.starts = 0
         /\ BusySlots(s) = {}
<1>1. /\ s \in WorkerState /\ DialsInv(s, 0) /\ ControlInv(s) /\ NoEcho(s)
      /\ s.starts \in Nat /\ s.phase \in Phase
  BY Zenon, WorkerTypes DEF WorkerInv, Inv
<1>2. s.starts = 0
  BY SMTT(30), <1>1 DEF ControlInv
<1>3. Dials(s) = 0
  BY Zenon, <1>1, NoDials DEF DialsInv, Quiet
<1>4. BusySlots(s) = {}
  <2>1. \A i : ~Retried(s, i)
    BY Zenon, <1>1, <1>3, NoDials
  <2>2. InState(s, "connecting") = {}
    BY Zenon, <1>1, <1>3, NoDials
  <2>3. \A i \in Slots : ~Carries(s.slots[i])
    BY <1>1, <2>2 DEF NoEcho, InState, Carries
  <2> QED  BY Zenon, <2>1, <2>3 DEF BusySlots, Busy
<1> QED  BY Zenon, <1>1, <1>2, <1>3, <1>4

(* A new phase for a worker that rests. *)
LEMMA PhaseSet ==
  ASSUME NEW s \in WorkerState, NEW p \in Phase
  PROVE  /\ Same(s, WithPhase(s, p)) /\ WithPhase(s, p).phase = p
         /\ WithPhase(s, p).at = s.at /\ WithPhase(s, p).starts = s.starts
         /\ WithPhase(s, p).todo = s.todo /\ WithPhase(s, p).broken = s.broken
BY Zenon DEF WithPhase, Same, WorkerState

(* start, for Command::Dial. *)
LEMMA StartDialInv ==
  ASSUME SetFacts, NEW s, WorkerInv(s), s.phase.kind = "Idle", s.at = "poll",
         NEW count \in Nat, NEW concurrency \in Nat
  PROVE  WorkerInv(StartDial(s, count, concurrency))
<1> DEFINE p == [Idle EXCEPT !.kind = "Dial", !.remaining = count, !.concurrency = concurrency]
           t == WithPhase(s, p)
<1>1. s \in WorkerState /\ Dials(s) = 0 /\ NoEcho(s) /\ s.starts = 0 /\ SlotsInv(s)
  BY RestingFacts DEF WorkerInv, Inv
<1>2. p \in Phase /\ p.kind = "Dial" /\ p.active = 0
  BY Zenon, IdlePhase DEF Phase
<1>3. StartDial(s, count, concurrency) = t
  BY DEF StartDial, WithPhase
<1> HIDE DEF p
<1>4. Same(s, t) /\ t.phase = p /\ t.at = s.at /\ t.starts = s.starts
  BY Zenon, <1>1, <1>2, PhaseSet
<1> HIDE DEF t
<1>5. SlotsInv(t) /\ Dials(t) = 0 /\ NoEcho(t) /\ DialsFor(t, "New")
  BY Zenon, <1>1, <1>4, SameFacts, NoDials
<1>6. DialsInv(t, 0)
  BY SMTT(30), <1>1, <1>2, <1>4, <1>5 DEF DialsInv, Redialing, Quiet
<1>7. ControlInv(t)
  BY SMTT(30), <1>1, <1>2, <1>4 DEF ControlInv
<1>8. WorkerInv(t)
  BY Zenon, <1>2, <1>4, <1>5, <1>6, <1>7 DEF WorkerInv, Inv, Same
<1> QED  BY <1>3, <1>8

(* start, for Command::Echo. *)
LEMMA StartEchoInv ==
  ASSUME SetFacts, NEW s, WorkerInv(s), s.phase.kind = "Idle", s.at = "poll",
         NEW idle \in [1..Cardinality(Occupied(s)) -> Occupied(s)], Lists(idle, Occupied(s)),
         NEW concurrency \in Nat, NEW measure \in BOOLEAN
  PROVE  WorkerInv(StartEcho(s, idle, concurrency, measure))
<1>1. s \in WorkerState /\ Dials(s) = 0 /\ NoEcho(s) /\ s.starts = 0 /\ SlotsInv(s) /\ BusySlots(s) = {}
  BY Zenon, RestingFacts DEF WorkerInv, Inv
<1>2. Occupied(s) \in SUBSET Slots /\ Cardinality(Occupied(s)) \in Nat
  BY SlotsFinite DEF Occupied
<1>3. idle \in Seq(Slots) /\ Len(idle) \in Nat
  <2>1. idle \in [1..Cardinality(Occupied(s)) -> Slots]
    BY <1>2
  <2>2. idle \in Seq(Slots)
    BY SMTT(30), <1>2, <2>1
  <2> QED  BY <2>2
<1>4. IsInjective(idle)
  <2>1. \A m \in 1..Cardinality(Occupied(s)) : m \in Int /\ idle[m] \in Int
    BY <1>2 DEF Slots
  <2>2. DOMAIN idle = 1..Cardinality(Occupied(s))
    OBVIOUS
  <2>3. ASSUME NEW m \in DOMAIN idle, NEW n \in DOMAIN idle, idle[m] = idle[n]  PROVE  m = n
    <3>1. CASE m < n
      BY SMTT(30), <2>1, <2>2, <2>3, <3>1 DEF Lists
    <3>2. CASE n < m
      BY SMTT(30), <2>1, <2>2, <2>3, <3>2 DEF Lists
    <3> QED  BY SMTT(30), <2>1, <2>2, <3>1, <3>2
  <2> QED  BY <2>3 DEF IsInjective
<1>5. PICK slots \in Nat : slots = IF concurrency < Len(idle) THEN concurrency ELSE Len(idle)
  BY <1>3
<1> DEFINE p == [Idle EXCEPT !.kind = "Echo", !.slots = slots, !.idle = idle,
                             !.exhausted = (slots = 0), !.measure = measure]
           t == WithPhase(s, p)
<1>6. /\ p \in Phase /\ p.kind = "Echo" /\ p.in_flight = 0 /\ p.idle = idle /\ p.slots = slots
  BY Zenon, <1>3, IdlePhase DEF Phase
<1>7. StartEcho(s, idle, concurrency, measure) = t
  BY <1>5 DEF StartEcho, WithPhase
<1> HIDE DEF p
<1>8. Same(s, t) /\ t.phase = p /\ t.at = s.at /\ t.starts = s.starts
  BY Zenon, <1>1, <1>6, PhaseSet
<1> HIDE DEF t
<1>9. SlotsInv(t) /\ Dials(t) = 0 /\ DialsFor(t, "RedialEcho") /\ BusySlots(t) = {}
  BY Zenon, <1>1, <1>8, SameFacts, NoDials
<1>10. DialsInv(t, 0)
  BY Zenon, <1>6, <1>8, <1>9 DEF DialsInv, Redialing, Quiet
<1>11. ControlInv(t)
  BY SMTT(30), <1>1, <1>6, <1>8 DEF ControlInv
<1>12. EchoInv(t, {})
  <2>1. \A i \in Slots : ~Busy(t, i)
    BY Zenon, <1>9 DEF BusySlots
  <2>2. \A i \in Slots : i \in Range(t.phase.idle)
                           <=> t.slots[i].state # "vacant" /\ ~Busy(t, i) /\ i \notin {}
    BY Zenon, <1>6, <1>8, <2>1 DEF Lists, Occupied, InState, Same
  <2>3. Cardinality(BusySlots(t) \cup {}) = 0
    BY Zenon, <1>9 DEF SetFacts, CountEmpty
  <2> QED  BY SMTT(30), <1>4, <1>5, <1>6, <1>8, <2>2, <2>3 DEF EchoInv
<1>13. WorkerInv(t)
  BY Zenon, <1>6, <1>8, <1>9, <1>10, <1>11, <1>12 DEF WorkerInv, Inv, Same
<1> QED  BY Zenon, <1>7, <1>13

(* start, for Command::Rate: before the redials. *)
LEMMA StartRateInv ==
  ASSUME SetFacts, NEW s, WorkerInv(s), s.phase.kind = "Idle", s.at = "poll"
  PROVE  WorkerInv(StartRate(s))
<1> DEFINE t == StartRate(s)
           B == InState(s, "broken")
<1>1. s \in WorkerState /\ Dials(s) = 0 /\ NoEcho(s) /\ s.starts = 0 /\ SlotsInv(s)
  BY RestingFacts DEF WorkerInv, Inv
<1>2. B \in SUBSET Slots /\ Cardinality(B) \in Nat
  BY SlotsFinite DEF InState
<1>3. t = [s EXCEPT !.at = "redialing", !.todo = B, !.broken = Cardinality(B)]
  BY DEF StartRate
<1> HIDE DEF B, t
<1>4. /\ Same(s, t) /\ t.phase = s.phase /\ t.at = "redialing" /\ t.todo = B
      /\ t.broken = Cardinality(B) /\ t.starts = s.starts
  BY Zenon, <1>1, <1>2, <1>3 DEF WorkerState, Same
<1>5. SlotsInv(t) /\ Dials(t) = 0 /\ NoEcho(t) /\ DialsFor(t, "RedialRate") /\ InState(t, "broken") = B
  BY SMTT(30), <1>1, <1>4, SameFacts, NoDials DEF B
<1>6. DialsInv(t, 0)
  <2>1. \A i : ~Retried(t, i)
    BY Zenon, <1>4, <1>5, NoDials DEF Same
  <2> QED  BY SMTT(30), <1>2, <1>4, <1>5, <2>1 DEF DialsInv, Redialing, Quiet
<1>7. ControlInv(t)
  BY SMTT(30), <1>1, <1>4 DEF ControlInv
<1>8. WorkerInv(t)
  BY Zenon, <1>4, <1>5, <1>6, <1>7 DEF WorkerInv, Inv, Same
<1> QED  BY Zenon, <1>8 DEF t

(* start, for Command::Rate: after the redials. *)
LEMMA EndRedialsInv ==
  ASSUME SetFacts, NEW s, WorkerInv(s), s.at = "redialing", s.todo = {}
  PROVE  WorkerInv(EndRedials(s))
<1> DEFINE t == EndRedials(s)
           p == [Idle EXCEPT !.kind = "RatePrep", !.redials = s.broken]
<1>1. /\ s \in WorkerState /\ NoEcho(s) /\ SlotsInv(s) /\ DialsInv(s, 0) /\ ControlInv(s)
      /\ s.broken \in Nat /\ s.starts \in Nat
  BY Zenon, WorkerTypes DEF WorkerInv, Inv, ControlInv
<1>2. DialsFor(s, "RedialRate") /\ s.broken >= Dials(s)
  <2>1. Cardinality(s.todo) = 0
    BY Zenon DEF SetFacts, CountEmpty
  <2>2. Dials(s) \in Nat
    BY <1>1, SameFacts DEF Same
  <2> QED  BY SMTT(30), <1>1, <2>1, <2>2 DEF DialsInv, Redialing
<1>3. p \in Phase /\ p.kind = "RatePrep" /\ p.redials = s.broken
  <2>1. PICK b \in Nat : b = s.broken
    BY <1>1
  <2> QED  BY Zenon, <2>1, IdlePhase DEF Phase
<1>4. t = [s EXCEPT !.at = "poll", !.broken = 0, !.phase = p]
  BY DEF EndRedials
<1> HIDE DEF p, t
<1>5. Same(s, t) /\ t.phase = p /\ t.at = "poll" /\ t.starts = s.starts
  BY Zenon, <1>1, <1>3, <1>4 DEF WorkerState, Same
<1>6. SlotsInv(t) /\ Dials(t) = Dials(s) /\ NoEcho(t) /\ DialsFor(t, "RedialRate") /\ Dials(s) \in Nat
  BY Zenon, <1>1, <1>2, <1>5, SameFacts
<1>7. DialsInv(t, 0)
  BY SMTT(60), <1>1, <1>2, <1>3, <1>5, <1>6 DEF DialsInv, Redialing, Quiet
<1>8. ControlInv(t)
  BY Zenon, <1>1, <1>3, <1>5 DEF ControlInv
<1>9. WorkerInv(t)
  BY Zenon, <1>3, <1>5, <1>6, <1>7, <1>8 DEF WorkerInv, Inv, Same
<1> QED  BY Zenon, <1>9 DEF t

(* A worker with no dial and no round trip may rest. *)
LEMMA RestInv ==
  ASSUME SetFacts, NEW t \in WorkerState, SlotsInv(t), Dials(t) = 0, NoEcho(t), t.starts = 0,
         t.phase.kind = "Idle", t.at \in {"poll", "exited"}
  PROVE  WorkerInv(t)
<1>1. DialsInv(t, 0)
  BY NoDials DEF DialsInv, Redialing, Quiet
<1>2. ControlInv(t)
  BY DEF ControlInv
<1> QED  BY Zenon, <1>1, <1>2 DEF WorkerInv, Inv

(* finish is called when the benchmark has nothing under way any more. *)
LEMMA FinishInv ==
  ASSUME SetFacts, NEW s, WorkerInv(s), s.at \in {"poll", "echoing"},
         \/ s.phase.kind = "Dial" /\ s.phase.active = 0
         \/ s.phase.kind = "Echo" /\ s.phase.in_flight = 0
         \/ s.phase.kind = "Rate"
  PROVE  WorkerInv(Finish(s))
<1> DEFINE t == Finish(s)
<1>1. /\ s \in WorkerState /\ SlotsInv(s) /\ DialsInv(s, 0) /\ ControlInv(s)
      /\ IF s.phase.kind = "Echo" THEN EchoInv(s, {}) ELSE NoEcho(s)
  BY Zenon DEF WorkerInv, Inv
<1>2. s.starts \in Nat /\ Dials(s) \in Nat /\ s.phase \in Phase
  BY Zenon, <1>1, WorkerTypes, SameFacts DEF Same
<1>3. s.starts = 0
  BY SMTT(30), <1>1, <1>2 DEF ControlInv
<1>4. Dials(s) = 0 /\ NoEcho(s)
  <2>1. CASE s.phase.kind = "Dial" /\ s.phase.active = 0
    BY SMTT(30), <1>1, <1>2, <1>3, <2>1 DEF DialsInv
  <2>2. CASE s.phase.kind = "Rate"
    BY Zenon, <1>1, <2>2, NoDials DEF DialsInv, Quiet
  <2>3. CASE s.phase.kind = "Echo" /\ s.phase.in_flight = 0
    <3>1. EchoInv(s, {}) /\ DialsFor(s, "RedialEcho")
      BY Zenon, <1>1, <2>3 DEF DialsInv
    <3>2. BusySlots(s) = {}
      <4>1. BusySlots(s) \in SUBSET Slots /\ IsFiniteSet(BusySlots(s))
        BY Zenon, SlotsFinite DEF BusySlots
      <4>2. Cardinality(BusySlots(s)) = 0
        <5>1. BusySlots(s) \cup {} = BusySlots(s)
          OBVIOUS
        <5> QED  BY Zenon, <2>3, <3>1, <5>1 DEF EchoInv
      <4> QED  BY Zenon, <4>1, <4>2 DEF SetFacts, CountEmpty
    <3>3. \A i \in Slots : ~Carries(s.slots[i]) /\ ~Retried(s, i)
      BY Zenon, <3>2 DEF BusySlots, Busy
    <3>4. InState(s, "connecting") = {}
      BY Zenon, <3>3 DEF InState, Carries
    <3>5. s.retries = <<>>
      <4>1. s.retries \in Seq(Job) /\ Len(s.retries) \in Nat
        BY Zenon, <1>1, WorkerTypes, SeqLen
      <4>2. \A n \in 1..Len(s.retries) : FALSE
        BY Zenon, <3>1, <3>3 DEF DialsFor, Retried
      <4>3. Len(s.retries) = 0
        BY SMTT(30), <4>1, <4>2
      <4> QED  BY Zenon, <4>1, <4>3, SeqEmpty
    <3>6. NoEcho(s)
      <4> SUFFICES ASSUME NEW i \in Slots, s.slots[i].state = "ready"
                   PROVE  s.slots[i].streams["Echo"] = 0 /\ s.slots[i].queued = <<>>
        BY Zenon DEF NoEcho
      <4>1. s.slots[i].streams["Echo"] \in Nat /\ SlotInv(s.slots[i], i)
        BY Zenon, <1>1, ConnTypes DEF SlotsInv, Kinds
      <4> QED  BY SMTT(30), <3>3, <4>1 DEF SlotInv, Carries
    <3> QED  BY Zenon, <1>1, <3>4, <3>5, <3>6, NoDials
  <2> QED  BY Zenon, <1>1, <2>1, <2>2, <2>3
<1>5. /\ Same(s, t) /\ t.phase = Idle /\ t.at = "poll" /\ t.starts = s.starts
  BY Zenon, <1>1, IdlePhase DEF Finish, Same, WorkerState
<1> HIDE DEF t
<1>6. t \in WorkerState /\ SlotsInv(t) /\ Dials(t) = 0 /\ NoEcho(t)
  BY Zenon, <1>1, <1>4, <1>5, SameFacts DEF Same
<1>7. WorkerInv(t)
  BY Zenon, <1>3, <1>5, <1>6, RestInv, IdlePhase
<1> QED  BY Zenon, <1>7 DEF t

(* A worker whose connections are as they were, but for marks on them. *)
Alike(s, t) ==
  /\ t \in WorkerState /\ t.free = s.free /\ t.len = s.len
  /\ t.ready = s.ready /\ t.retries = s.retries
  /\ \A i \in Slots :
       /\ t.slots[i].state = s.slots[i].state /\ t.slots[i].dial = s.slots[i].dial
       /\ t.slots[i].streams = s.slots[i].streams /\ t.slots[i].queued = s.slots[i].queued
       /\ t.slots[i].h3 = s.slots[i].h3 /\ t.slots[i].in_flight <= s.slots[i].in_flight
       /\ s.slots[i].state = "vacant" => t.slots[i] = s.slots[i]

(* Slots that agree on what the invariant reads are counted alike. *)
LEMMA AlikeFacts ==
  ASSUME NEW s \in WorkerState, NEW t, Alike(s, t), SlotsInv(s), NoEcho(s)
  PROVE  SlotsInv(t) /\ NoEcho(t) /\ Dials(t) = Dials(s)
<1>1. \A st : InState(t, st) = InState(s, st)
  BY Zenon DEF Alike, InState
<1>2. Dials(t) = Dials(s)
  BY Zenon, <1>1 DEF Alike, Dials
<1>3. NoEcho(t)
  BY Zenon DEF Alike, NoEcho
<1>4. ASSUME NEW i \in Slots  PROVE  SlotInv(t.slots[i], i)
  <2>1. t \in WorkerState /\ SlotInv(s.slots[i], i)
    BY Zenon DEF Alike, SlotsInv
  <2>2. /\ s.slots[i].in_flight \in Nat /\ t.slots[i].in_flight \in Nat
        /\ s.slots[i].streams["Rate"] \in Nat
    BY Zenon, <2>1, ConnTypes DEF Kinds
  <2>3. CASE s.slots[i].state = "vacant"
    BY Zenon, <2>1, <2>3 DEF Alike
  <2>4. CASE s.slots[i].state # "vacant"
    <3> DEFINE b == s.slots[i]
               c == t.slots[i]
    <3>1. /\ c.state = b.state /\ c.dial = b.dial /\ c.streams = b.streams
          /\ c.queued = b.queued /\ c.h3 = b.h3 /\ c.in_flight <= b.in_flight
      BY Zenon DEF Alike
    <3>2. SlotInv(b, i) /\ b.state # "vacant" /\ c.in_flight <= b.streams["Rate"]
      <4>1. SlotInv(b, i) /\ b.state # "vacant" /\ b.in_flight <= b.streams["Rate"]
        BY Zenon, <2>1, <2>4 DEF SlotInv
      <4>2. b.in_flight \in Nat /\ c.in_flight \in Nat /\ b.streams["Rate"] \in Nat
        BY Zenon, <2>2
      <4> HIDE DEF b, c
      <4> QED  BY SMTT(30), <3>1, <4>1, <4>2
    <3> HIDE DEF b, c
    <3>3. SlotInv(c, i)
      BY Zenon, <3>1, <3>2 DEF SlotInv
    <3> QED  BY Zenon, <3>3 DEF c
  <2> QED  BY Zenon, <2>3, <2>4
<1>5. FreeInv(t)
  BY Zenon DEF Alike, SlotsInv, FreeInv
<1>6. t.ready = Cardinality(InState(t, "ready"))
  BY Zenon, <1>1 DEF Alike, SlotsInv
<1> QED  BY Zenon, <1>2, <1>3, <1>4, <1>5, <1>6 DEF SlotsInv

(* close_all closes connections and the thread ends. *)
LEMMA CloseAllInv ==
  ASSUME SetFacts, NEW s, WorkerInv(s), s.phase.kind = "Idle", s.at = "poll"
  PROVE  WorkerInv(CloseAll(s))
<1> DEFINE t == CloseAll(s)
           x == [i \in Slots |-> IF s.slots[i].state = "vacant" THEN NoConn
                                 ELSE [s.slots[i] EXCEPT !.closing = TRUE]]
<1>1. s \in WorkerState /\ Dials(s) = 0 /\ NoEcho(s) /\ s.starts = 0 /\ SlotsInv(s)
  BY Zenon, RestingFacts DEF WorkerInv, Inv
<1>2. ASSUME NEW i \in Slots
      PROVE  /\ x[i] \in Conn /\ x[i].in_flight \in Nat
             /\ x[i].state = s.slots[i].state /\ x[i].dial = s.slots[i].dial
             /\ x[i].streams = s.slots[i].streams /\ x[i].queued = s.slots[i].queued
             /\ x[i].h3 = s.slots[i].h3 /\ x[i].in_flight = s.slots[i].in_flight
             /\ s.slots[i].state = "vacant" => x[i] = s.slots[i]
  <2>1. s.slots[i] \in Conn /\ SlotInv(s.slots[i], i) /\ s.slots[i].in_flight \in Nat
    BY Zenon, <1>1, ConnTypes DEF SlotsInv
  <2>2. CASE s.slots[i].state = "vacant"
    <3>1. x[i] = NoConn /\ s.slots[i] = NoConn
      BY Zenon, <2>1, <2>2 DEF SlotInv
    <3> QED  BY Zenon, <2>1, <3>1
  <2>3. CASE s.slots[i].state # "vacant"
    <3>1. x[i] = [s.slots[i] EXCEPT !.closing = TRUE]
      BY Zenon, <2>3
    <3> HIDE DEF x
    <3> QED  BY Zenon, <2>1, <2>3, <3>1 DEF Conn
  <2> QED  BY Zenon, <2>2, <2>3
<1>3. x \in [Slots -> Conn]
  BY <1>2
<1>4. t = [s EXCEPT !.at = "exited", !.slots = x]
  BY DEF CloseAll
<1> HIDE DEF x, t
<1>5. /\ t \in WorkerState /\ t.slots = x /\ t.at = "exited" /\ t.phase = s.phase
      /\ t.starts = s.starts /\ t.free = s.free /\ t.len = s.len
      /\ t.ready = s.ready /\ t.retries = s.retries
  BY Zenon, <1>1, <1>3, <1>4 DEF WorkerState
<1>6. Alike(s, t)
  BY SMTT(30), <1>2, <1>5 DEF Alike
<1>7. SlotsInv(t) /\ NoEcho(t) /\ Dials(t) = 0
  BY Zenon, <1>1, <1>6, AlikeFacts
<1>8. WorkerInv(t)
  BY Zenon, <1>1, <1>5, <1>7, RestInv
<1> QED  BY Zenon, <1>8 DEF t

(* drive, RatePrep: with every redial ended there is no dial left. *)
LEMMA StartRateRunInv ==
  ASSUME SetFacts, NEW s, WorkerInv(s), s.at = "poll", s.phase.kind = "RatePrep",
         s.phase.redials = 0
  PROVE  WorkerInv(StartRateRun(s))
<1> DEFINE t == StartRateRun(s)
           conns == InState(s, "ready")
           p == [Idle EXCEPT !.kind = "Rate", !.conns = conns]
           x == [i \in Slots |-> IF i \in conns THEN [s.slots[i] EXCEPT !.in_flight = 0]
                                 ELSE s.slots[i]]
<1>1. /\ s \in WorkerState /\ NoEcho(s) /\ SlotsInv(s) /\ DialsInv(s, 0) /\ ControlInv(s)
      /\ s.starts \in Nat
  BY Zenon, WorkerTypes DEF WorkerInv, Inv
<1>2. Dials(s) = 0 /\ s.starts = 0
  <2>1. Dials(s) \in Nat
    BY <1>1, SameFacts DEF Same
  <2> QED  BY SMTT(30), <1>1, <2>1 DEF DialsInv, ControlInv
<1>3. p \in Phase /\ p.kind = "Rate"
  <2>1. conns \in SUBSET Slots
    BY DEF InState
  <2> HIDE DEF conns
  <2> QED  BY Zenon, <2>1, IdlePhase DEF Phase
<1>4. ASSUME NEW i \in Slots
      PROVE  /\ x[i] \in Conn
             /\ x[i].state = s.slots[i].state /\ x[i].dial = s.slots[i].dial
             /\ x[i].streams = s.slots[i].streams /\ x[i].queued = s.slots[i].queued
             /\ x[i].h3 = s.slots[i].h3 /\ x[i].in_flight <= s.slots[i].in_flight
             /\ s.slots[i].state = "vacant" => x[i] = s.slots[i]
  <2>1. s.slots[i] \in Conn /\ s.slots[i].in_flight \in Nat
    BY Zenon, <1>1, ConnTypes
  <2>2. CASE i \notin conns
    <3>1. x[i] = s.slots[i]
      BY <2>2
    <3> QED  BY <2>1, <3>1
  <2>3. CASE i \in conns
    <3>1. x[i] = [s.slots[i] EXCEPT !.in_flight = 0] /\ s.slots[i].state = "ready"
      BY <2>3 DEF InState
    <3> HIDE DEF x
    <3>2. x[i] \in Conn /\ x[i].in_flight = 0
      <4>1. PICK z \in Nat : z = 0
        OBVIOUS
      <4>2. x[i] = [s.slots[i] EXCEPT !.in_flight = z]
        BY Zenon, <3>1, <4>1
      <4> QED  BY <2>1, <4>1, <4>2, Zenon DEF Conn
    <3>3. 0 <= s.slots[i].in_flight
      BY <2>1
    <3> QED  BY Zenon, <2>1, <3>1, <3>2, <3>3 DEF Conn
  <2> QED  BY Zenon, <2>2, <2>3
<1>5. x \in [Slots -> Conn]
  BY <1>4
<1>6. t = [s EXCEPT !.phase = p, !.slots = x]
  BY DEF StartRateRun
<1> HIDE DEF x, t, p
<1>7. /\ t \in WorkerState /\ t.slots = x /\ t.at = s.at /\ t.phase = p
      /\ t.starts = s.starts /\ t.free = s.free /\ t.len = s.len
      /\ t.ready = s.ready /\ t.retries = s.retries
  BY Zenon, <1>1, <1>3, <1>5, <1>6 DEF WorkerState
<1>8. Alike(s, t)
  BY Zenon, <1>4, <1>7 DEF Alike
<1>9. SlotsInv(t) /\ NoEcho(t) /\ Dials(t) = 0
  BY Zenon, <1>1, <1>2, <1>8, AlikeFacts
<1>10. DialsInv(t, 0)
  BY Zenon, <1>3, <1>7, <1>9, NoDials DEF DialsInv, Redialing, Quiet
<1>11. ControlInv(t)
  BY SMTT(30), <1>2, <1>3, <1>7 DEF ControlInv
<1>12. WorkerInv(t)
  BY Zenon, <1>3, <1>7, <1>9, <1>10, <1>11 DEF WorkerInv, Inv
<1> QED  BY Zenon, <1>12 DEF t

(* drive, Dial: the dials of a pass are counted before they are made. *)
LEMMA DriveDialInv ==
  ASSUME SetFacts, NEW s, WorkerInv(s), s.at = "poll", s.phase.kind = "Dial", Starts(s) > 0
  PROVE  WorkerInv(DriveDial(s))
<1> DEFINE t == DriveDial(s)
           n == Starts(s)
<1>1. /\ s \in WorkerState /\ NoEcho(s) /\ SlotsInv(s) /\ DialsInv(s, 0) /\ ControlInv(s)
      /\ s.starts \in Nat /\ s.phase \in Phase
  BY Zenon, WorkerTypes DEF WorkerInv, Inv
<1>2. /\ s.phase.remaining \in Nat /\ s.phase.active \in Nat /\ s.phase.concurrency \in Nat
      /\ Dials(s) \in Nat
  BY Zenon, <1>1, PhaseTypes, SameFacts DEF Same
<1>3. n \in Nat /\ n > 0 /\ n <= s.phase.remaining
  BY SMTT(30), <1>2 DEF Starts
<1>4. s.phase.active = Dials(s) /\ s.starts = 0
  BY SMTT(30), <1>1, <1>2 DEF DialsInv, ControlInv
<1>5. t = [s EXCEPT !.at = "dialing", !.starts = n,
                    !.phase.remaining = @ - n, !.phase.active = @ + n]
  BY DEF DriveDial
<1> HIDE DEF n, t
<1>a. s.phase.remaining - n \in Nat /\ s.phase.active + n \in Nat
  BY <1>2, <1>3
<1>6. PICK a \in Nat, b \in Nat : a = s.phase.remaining - n /\ b = s.phase.active + n
  BY Zenon, <1>a
<1> DEFINE p == [s.phase EXCEPT !.remaining = a, !.active = b]
<1>7. p \in Phase /\ p.kind = "Dial" /\ p.active = b
  BY Zenon, <1>1 DEF Phase
<1>8. t = [s EXCEPT !.at = "dialing", !.starts = n, !.phase = p]
  BY Zenon, <1>1, <1>5, <1>6 DEF WorkerState, Phase
<1> HIDE DEF p
<1>9. Same(s, t) /\ t.phase = p /\ t.at = "dialing" /\ t.starts = n
  BY Zenon, <1>1, <1>3, <1>7, <1>8 DEF Same, WorkerState
<1>10. SlotsInv(t) /\ Dials(t) = Dials(s) /\ NoEcho(t) /\ DialsFor(t, "New")
  BY Zenon, <1>1, <1>9, SameFacts DEF DialsInv
<1>11. b = n + Dials(s) + 0
  BY SMTT(30), <1>2, <1>3, <1>4, <1>6
<1>12. DialsInv(t, 0)
  BY Zenon, <1>7, <1>9, <1>10, <1>11 DEF DialsInv, Redialing, Quiet
<1>13. ControlInv(t)
  BY Zenon, <1>3, <1>7, <1>9 DEF ControlInv
<1>14. WorkerInv(t)
  BY Zenon, <1>7, <1>9, <1>10, <1>12, <1>13 DEF WorkerInv, Inv, Same
<1> QED  BY Zenon, <1>14 DEF t

(* Each of them is then a dial in hand. *)
LEMMA DialNextInv ==
  ASSUME SetFacts, NEW s, WorkerInv(s), s.at = "dialing", AllocIdx(s) <= MaxSlots,
         NEW r \in {"ok", "bind", "send"}
  PROVE  WorkerInv(DialNext(s, r))
<1> DEFINE j == FirstDial("New", 0)
           t == [s EXCEPT !.starts = @ - 1, !.at = IF s.starts = 1 THEN "poll" ELSE @]
<1>1. /\ s \in WorkerState /\ NoEcho(s) /\ SlotsInv(s) /\ DialsInv(s, 0) /\ ControlInv(s)
      /\ s.starts \in Nat /\ s.phase \in Phase /\ s.phase.kind = "Dial"
  BY Zenon, WorkerTypes DEF WorkerInv, Inv, ControlInv
<1>2. s.starts > 0 /\ DialsFor(s, "New") /\ s.phase.active = s.starts + Dials(s) + 0
  BY Zenon, <1>1 DEF ControlInv, DialsInv
<1>3. PICK n \in Nat : n = s.starts - 1
  BY SMTT(30), <1>1, <1>2
<1>4. PICK a \in {"poll", "dialing"} : a = IF s.starts = 1 THEN "poll" ELSE "dialing"
  OBVIOUS
<1>5. t = [s EXCEPT !.starts = n, !.at = a]
  BY Zenon, <1>3, <1>4
<1>6. DialNext(s, r) = Dial(t, j, r)
  BY DEF DialNext
<1> HIDE DEF t
<1>7. Same(s, t) /\ t.phase = s.phase /\ t.at = a /\ t.starts = n
  BY Zenon, <1>1, <1>5 DEF Same, WorkerState
<1>8. SlotsInv(t) /\ Dials(t) = Dials(s) /\ Dials(s) \in Nat /\ NoEcho(t) /\ DialsFor(t, "New")
  BY Zenon, <1>1, <1>2, <1>7, SameFacts
<1>9. s.phase.active = n + Dials(s) + 1
  BY SMTT(30), <1>1, <1>2, <1>3, <1>8
<1>10. DialsInv(t, 1)
  BY Zenon, <1>1, <1>4, <1>7, <1>8, <1>9 DEF DialsInv, Redialing, Quiet
<1>11. n > 0 <=> a = "dialing"
  BY SMTT(30), <1>1, <1>2, <1>3, <1>4
<1>12. ControlInv(t)
  BY Zenon, <1>1, <1>4, <1>7, <1>11 DEF ControlInv
<1>13. Inv(t, {}, 1)
  BY Zenon, <1>1, <1>7, <1>8, <1>10, <1>12 DEF Inv, Same
<1>14. j \in Job /\ j.purpose = "New" /\ j.slot = 0
  BY SMTT(30), WorkerAssumption DEF FirstDial, Job, Purposes
<1> HIDE DEF j
<1>15. Holding(t, j)
  BY Zenon, <1>1, <1>7, <1>13, <1>14 DEF Holding
<1>16. AllocIdx(t) <= MaxSlots
  BY Zenon, <1>7 DEF AllocIdx, Same
<1> QED  BY Zenon, <1>6, <1>14, <1>15, <1>16, DialInv

(* fire_retries takes the retry that is due and holds it. *)
LEMMA FireRetryInv ==
  ASSUME SetFacts, NEW s, WorkerInv(s), s.at = "poll", s.retries # <<>>,
         Head(s.retries).slot = 0 => AllocIdx(s) <= MaxSlots,
         NEW r \in {"ok", "bind", "send"}
  PROVE  WorkerInv(FireRetry(s, r))
<1> DEFINE j == Head(s.retries)
           t == [s EXCEPT !.retries = Tail(@)]
<1>1. /\ s \in WorkerState /\ SlotsInv(s) /\ DialsInv(s, 0) /\ ControlInv(s)
      /\ (IF s.phase.kind = "Echo" THEN EchoInv(s, {}) ELSE NoEcho(s))
      /\ s.starts \in Nat /\ s.phase \in Phase /\ s.retries \in Seq(Job)
  BY Zenon, WorkerTypes DEF WorkerInv, Inv
<1>2. /\ Tail(s.retries) \in Seq(Job) /\ Len(s.retries) \in Nat /\ Len(s.retries) > 0
      /\ j \in Job /\ j = s.retries[1]
      /\ Len(Tail(s.retries)) = Len(s.retries) - 1
      /\ \A n \in 1..Len(Tail(s.retries)) : Tail(s.retries)[n] = s.retries[n + 1]
  <2>1. Len(s.retries) \in Nat /\ Len(s.retries) # 0
    BY Zenon, <1>1, SeqEmpty, SeqLen
  <2> QED  BY SMTT(30), <1>1, <2>1
<1>3. PICK q \in Seq(Job) : q = Tail(s.retries)
  BY Zenon, <1>2
<1>4. t = [s EXCEPT !.retries = q]
  BY <1>3
<1>5. FireRetry(s, r) = Dial(t, j, r)
  BY DEF FireRetry
<1> HIDE DEF t
<1>6. /\ t \in WorkerState /\ t.slots = s.slots /\ t.free = s.free /\ t.len = s.len
      /\ t.ready = s.ready /\ t.retries = q /\ t.phase = s.phase /\ t.at = s.at
      /\ t.starts = s.starts /\ t.todo = s.todo /\ t.broken = s.broken
  BY <1>1, <1>4, Zenon DEF WorkerState
<1>7. Len(q) \in Nat /\ Len(q) = Len(s.retries) - 1 /\ \A n \in 1..Len(q) : q[n] = s.retries[n + 1]
  BY Zenon, <1>2, <1>3, SeqLen
<1>8. \A n \in 1..Len(q) : n + 1 \in 1..Len(s.retries) /\ n + 1 # 1
  BY <1>2, <1>7
<1>9. 1 \in 1..Len(s.retries)
  BY SMTT(30), <1>2
<1> HIDE DEF j
<1>10. SlotsInv(t)
  BY Zenon, <1>1, <1>6 DEF SlotsInv, FreeInv, InState
<1>11. InState(t, "connecting") = InState(s, "connecting")
  BY <1>6 DEF InState
<1>12. Dials(s) = Dials(t) + 1 /\ Dials(t) \in Nat
  <2>1. Cardinality(InState(s, "connecting")) \in Nat
    <3>1. InState(s, "connecting") \in SUBSET Slots
      BY DEF InState
    <3> QED  BY <3>1, SlotsFinite
  <2>2. /\ Dials(s) = Len(s.retries) + Cardinality(InState(s, "connecting"))
        /\ Dials(t) = Len(q) + Cardinality(InState(s, "connecting"))
    BY Zenon, <1>6, <1>11 DEF Dials
  <2> QED  BY SMTT(30), <1>2, <1>7, <2>1, <2>2
<1>13. \A p : DialsFor(s, p) => DialsFor(t, p)
  <2> SUFFICES ASSUME NEW p, DialsFor(s, p)  PROVE  DialsFor(t, p)
    OBVIOUS
  <2>1. ASSUME NEW m \in 1..Len(q), NEW n \in 1..Len(q), q[m].slot = q[n].slot, p # "New"
        PROVE  m = n
    <3>1. m + 1 = n + 1
      BY Zenon, <1>7, <1>8, <2>1 DEF DialsFor
    <3>2. m \in Nat /\ n \in Nat
      OBVIOUS
    <3> QED  BY <3>1, <3>2
  <2>2. \A n \in 1..Len(q) :
          /\ q[n].purpose = p
          /\ p = "New" => q[n].slot = 0
          /\ p # "New" => q[n].slot \in Slots /\ s.slots[q[n].slot].state = "broken"
    BY Zenon, <1>7, <1>8 DEF DialsFor
  <2>3. \A i \in Slots : s.slots[i].state = "connecting" => s.slots[i].dial.purpose = p
    BY DEF DialsFor
  <2>4. t.slots = s.slots /\ t.retries = q
    BY Zenon, <1>6
  <2> QED  BY Zenon, <2>1, <2>2, <2>3, <2>4 DEF DialsFor
<1>14. Redialing(t) <=> Redialing(s)
  BY Zenon, <1>6 DEF Redialing
<1>15. PICK p : /\ DialsFor(s, p) /\ p = j.purpose /\ j.slot = s.retries[1].slot
                /\ \/ p = "New" /\ s.phase.kind = "Dial"
                   \/ p = "RedialEcho" /\ s.phase.kind = "Echo"
                   \/ p = "RedialRate" /\ Redialing(s)
  <2>1. s.phase.kind \in {"Idle", "Dial", "Echo", "RatePrep", "Rate"}
    BY Zenon, <1>1, PhaseTypes
  <2>2. ~Quiet(s)
    BY Zenon, <1>1 DEF DialsInv
  <2>3. CASE s.phase.kind = "Dial"
    <3>1. DialsFor(s, "New")
      BY Zenon, <1>1, <2>3 DEF DialsInv
    <3> QED  BY Zenon, <1>2, <1>9, <2>3, <3>1 DEF DialsFor
  <2>4. CASE s.phase.kind = "Echo"
    <3>1. DialsFor(s, "RedialEcho")
      BY <1>1, <2>4 DEF DialsInv
    <3> QED  BY Zenon, <1>2, <1>9, <2>4, <3>1 DEF DialsFor
  <2>5. CASE s.phase.kind = "RatePrep"
    <3>1. DialsFor(s, "RedialRate") /\ Redialing(s)
      BY Zenon, <1>1, <2>5 DEF DialsInv, Redialing
    <3> QED  BY Zenon, <1>2, <1>9, <3>1 DEF DialsFor
  <2> QED  BY Zenon, <2>1, <2>2, <2>3, <2>4, <2>5 DEF Quiet
<1>16. CASE p = "New"
  <2>1. s.phase.kind = "Dial" /\ j.slot = 0 /\ j.purpose = "New"
    BY Zenon, <1>9, <1>15, <1>16 DEF DialsFor
  <2>2. s.phase.active = s.starts + Dials(t) + 1 /\ DialsFor(t, "New")
    <3>1. s.phase.active = s.starts + Dials(s) + 0 /\ DialsFor(s, "New")
      BY Zenon, <1>1, <2>1 DEF DialsInv
    <3> QED  BY SMTT(30), <1>1, <1>12, <1>13, <3>1
  <2>3. DialsInv(t, 1)
    BY Zenon, <1>6, <2>1, <2>2 DEF DialsInv, Redialing, Quiet
  <2>4. ControlInv(t)
    BY Zenon, <1>1, <1>6 DEF ControlInv
  <2>5. NoEcho(t)
    BY Zenon, <1>1, <1>6, <2>1 DEF NoEcho
  <2>6. Holding(t, j)
    <3>1. Inv(t, {}, 1)
      BY Zenon, <1>6, <1>10, <2>1, <2>3, <2>4, <2>5 DEF Inv
    <3> QED  BY Zenon, <1>2, <1>6, <2>1, <3>1 DEF Holding
  <2>7. AllocIdx(t) <= MaxSlots
    BY Zenon, <1>6, <2>1 DEF AllocIdx, j
  <2> QED  BY Zenon, <1>5, <2>6, <2>7, DialInv
<1>17. CASE p # "New"
  <2>1. /\ j.slot \in Slots /\ s.slots[j.slot].state = "broken"
        /\ \A n \in 1..Len(s.retries) : s.retries[n].slot = j.slot => n = 1
    BY Zenon, <1>9, <1>15, <1>17 DEF DialsFor
  <2>2. ~Retried(t, j.slot)
    BY Zenon, <1>6, <1>7, <1>8, <2>1 DEF Retried
  <2>3. \A i : Retried(s, i) <=> Retried(t, i) \/ i = j.slot
    <3>1. ASSUME NEW i, Retried(t, i)  PROVE  Retried(s, i)
      BY Zenon, <1>6, <1>7, <1>8, <3>1 DEF Retried
    <3>2. Retried(s, j.slot)
      BY Zenon, <1>9, <1>15 DEF Retried
    <3>3. ASSUME NEW i, Retried(s, i), i # j.slot  PROVE  Retried(t, i)
      <4>1. PICK n \in 1..Len(s.retries) : s.retries[n].slot = i
        BY Zenon, <3>3 DEF Retried
      <4>2. n # 1
        BY Zenon, <1>15, <3>3, <4>1
      <4>3. n - 1 \in 1..Len(q) /\ (n - 1) + 1 = n
        BY SMTT(30), <1>2, <1>7, <4>2
      <4>4. q[n - 1].slot = i
        BY Zenon, <1>7, <4>1, <4>3
      <4> QED  BY Zenon, <1>6, <4>3, <4>4 DEF Retried
    <3> QED  BY Zenon, <3>1, <3>2, <3>3
  <2>4. DialsInv(t, 1)
    <3>1. s.phase.kind # "Dial" /\ ~Quiet(t) /\ t.at # "redialing"
      BY Zenon, <1>6, <1>15, <1>17 DEF Quiet, Redialing
    <3>2. s.phase.kind = "RatePrep" => s.phase.redials >= Dials(t) + 1
      <4>1. s.phase.kind = "RatePrep" => s.phase.redials >= Dials(s) + 0
        BY Zenon, <1>1 DEF DialsInv
      <4>2. s.phase.redials \in Nat
        BY Zenon, <1>1, PhaseTypes
      <4> QED  BY SMTT(30), <1>12, <4>1, <4>2
    <3>3. (s.phase.kind = "Echo" => DialsFor(s, "RedialEcho")) /\ (Redialing(s) => DialsFor(s, "RedialRate"))
      BY Zenon, <1>1 DEF DialsInv
    <3> QED  BY Zenon, <1>6, <1>13, <1>14, <3>1, <3>2, <3>3 DEF DialsInv
  <2>5. ControlInv(t)
    BY <1>1, <1>6 DEF ControlInv
  <2>6. CASE p = "RedialEcho"
    <3>1. s.phase.kind = "Echo" /\ EchoInv(s, {}) /\ j.purpose = "RedialEcho"
      BY Zenon, <1>1, <1>15, <2>6 DEF Redialing, ControlInv
    <3>2. \A i \in Slots : Busy(s, i) <=> Busy(t, i) \/ i \in {j.slot}
      BY Zenon, <1>6, <2>3 DEF Busy
    <3>3. BusySlots(s) \cup {} = BusySlots(t) \cup {j.slot}
      BY <2>1, <3>2 DEF BusySlots
    <3>4. EchoInv(t, {j.slot})
      BY Zenon, <1>6, <3>1, <3>2, <3>3 DEF EchoInv
    <3>5. Inv(t, {j.slot}, 1)
      BY Zenon, <1>6, <1>10, <2>4, <2>5, <3>1, <3>4 DEF Inv
    <3>6. Holding(t, j)
      BY Zenon, <1>2, <1>6, <2>1, <2>2, <3>1, <3>5 DEF Holding
    <3>7. j.slot # 0
      BY <2>1 DEF Slots
    <3> QED  BY Zenon, <1>5, <3>6, <3>7, DialInv
  <2>7. CASE p = "RedialRate"
    <3>1. s.phase.kind # "Echo" /\ NoEcho(s) /\ j.purpose = "RedialRate" /\ Redialing(t)
      BY Zenon, <1>1, <1>14, <1>15, <2>7 DEF Redialing, ControlInv
    <3>2. NoEcho(t)
      BY Zenon, <1>6, <3>1 DEF NoEcho
    <3>3. Inv(t, {}, 1)
      BY Zenon, <1>6, <1>10, <2>4, <2>5, <3>1, <3>2 DEF Inv
    <3>4. Holding(t, j)
      BY Zenon, <1>2, <1>6, <2>1, <2>2, <3>1, <3>3 DEF Holding
    <3>5. j.slot # 0
      BY <2>1 DEF Slots
    <3> QED  BY Zenon, <1>5, <3>4, <3>5, DialInv
  <2> QED  BY Zenon, <1>15, <1>17, <2>6, <2>7
<1> QED  BY Zenon, <1>16, <1>17

(* A round of drive_echo that issues nothing. *)
LEMMA EchoStay ==
  ASSUME SetFacts, NEW s, WorkerInv(s), s.phase.kind = "Echo", s.at \in {"poll", "echoing"},
         NEW t, Same(s, t), t.phase.kind = "Echo", t.phase.idle = s.phase.idle,
         t.phase.in_flight = s.phase.in_flight, t.phase.slots = s.phase.slots,
         t.at \in {"poll", "echoing"}, t.starts = s.starts
  PROVE  WorkerInv(t)
<1>1. s \in WorkerState /\ SlotsInv(s) /\ DialsInv(s, 0) /\ ControlInv(s) /\ EchoInv(s, {})
  BY DEF WorkerInv, Inv
<1>2. /\ SlotsInv(t) /\ DialsFor(t, "RedialEcho") /\ BusySlots(t) = BusySlots(s)
      /\ \A i \in Slots : Busy(t, i) <=> Busy(s, i)
  BY Zenon, <1>1, SameFacts DEF DialsInv
<1>3. DialsInv(t, 0)
  BY Zenon, <1>2 DEF DialsInv, Redialing, Quiet
<1>4. ControlInv(t)
  BY <1>1 DEF ControlInv
<1>5. EchoInv(t, {})
  BY Zenon, <1>1, <1>2 DEF EchoInv, Same
<1> QED  BY Zenon, <1>2, <1>3, <1>4, <1>5 DEF WorkerInv, Inv, Same

(* drive_echo takes the first idle connection: it is not vacant, and the
   worker holds its round trip. *)
LEMMA EchoTakeInv ==
  ASSUME SetFacts, NEW s, WorkerInv(s), s.phase.kind = "Echo", s.at \in {"poll", "echoing"},
         s.phase.idle # <<>>, s.phase.in_flight < s.phase.slots
  PROVE  LET t == EchoTake(s)
             idx == Head(s.phase.idle)
         IN  /\ idx \in Slots /\ Inv(t, {idx}, 1) /\ ~Busy(t, idx) /\ ~Retried(t, idx)
             /\ t.phase.kind = "Echo" /\ t.slots = s.slots /\ t.at = "echoing"
             /\ t.slots[idx].state \in {"ready", "broken"}
<1> DEFINE t == EchoTake(s)
           idx == Head(s.phase.idle)
           q == Tail(s.phase.idle)
<1>1. /\ s \in WorkerState /\ SlotsInv(s) /\ DialsInv(s, 0) /\ ControlInv(s) /\ EchoInv(s, {})
      /\ s.phase \in Phase /\ s.phase.idle \in Seq(Slots)
      /\ s.phase.in_flight \in Nat /\ s.phase.slots \in Nat
  BY Zenon, WorkerTypes, PhaseTypes DEF WorkerInv, Inv
<1>2. /\ idx \in Slots /\ q \in Seq(Slots) /\ IsInjective(q)
      /\ \A i : i \in Range(q) <=> i \in Range(s.phase.idle) /\ i # idx
      /\ idx \in Range(s.phase.idle)
  <2>1. IsInjective(s.phase.idle)
    BY <1>1 DEF EchoInv
  <2> QED  BY SMTT(30), <1>1, <2>1, RangeTail
<1>3. PICK a \in Nat : a = s.phase.in_flight + 1
  BY <1>1
<1> HIDE DEF q, idx
<1> DEFINE p == [s.phase EXCEPT !.idle = q, !.in_flight = a]
<1>4. p \in Phase /\ p.kind = "Echo" /\ p.idle = q /\ p.in_flight = a /\ p.slots = s.phase.slots
  BY <1>1, <1>2, Zenon DEF Phase
<1>5. t = [s EXCEPT !.at = "echoing", !.phase = p]
  BY <1>1, <1>3, Zenon DEF EchoTake, q, WorkerState, Phase
<1> HIDE DEF p, t
<1>6. Same(s, t) /\ t.phase = p /\ t.at = "echoing" /\ t.starts = s.starts
  BY <1>1, <1>4, <1>5, Zenon DEF Same, WorkerState
<1>7. /\ SlotsInv(t) /\ DialsFor(t, "RedialEcho") /\ BusySlots(t) = BusySlots(s)
      /\ \A i \in Slots : Busy(t, i) <=> Busy(s, i)
  BY Zenon, <1>1, <1>6, SameFacts DEF DialsInv
<1>8. DialsInv(t, 1)
  BY Zenon, <1>4, <1>6, <1>7 DEF DialsInv, Redialing, Quiet
<1>9. ControlInv(t)
  BY Zenon, <1>1, <1>4, <1>6 DEF ControlInv
<1>10. s.slots[idx].state # "vacant" /\ ~Busy(s, idx)
  BY Zenon, <1>1, <1>2 DEF EchoInv
<1>11. EchoInv(t, {idx})
  <2>1. Cardinality(BusySlots(t) \cup {idx}) = a
    <3>1. /\ BusySlots(s) \in SUBSET Slots /\ idx \notin BusySlots(s)
          /\ BusySlots(s) \cup {} = BusySlots(s)
      BY Zenon, <1>10 DEF BusySlots
    <3>2. s.phase.in_flight = Cardinality(BusySlots(s))
      BY Zenon, <1>1, <3>1 DEF EchoInv
    <3>3. Cardinality(BusySlots(s) \cup {idx}) = Cardinality(BusySlots(s)) + 1
      BY Zenon, <1>2, <3>1, CardAdd
    <3> QED  BY Zenon, <1>3, <1>7, <3>2, <3>3
  <2>2. \A i \in Slots : i \in Range(p.idle)
                           <=> t.slots[i].state # "vacant" /\ ~Busy(t, i) /\ i \notin {idx}
    <3>1. \A i \in Slots : i \in Range(s.phase.idle)
                             <=> s.slots[i].state # "vacant" /\ ~Busy(s, i)
      BY <1>1 DEF EchoInv
    <3> QED  BY Zenon, <1>2, <1>4, <1>6, <1>7, <3>1 DEF Same
  <2>3. a <= p.slots
    BY SMTT(30), <1>1, <1>3, <1>4
  <2> QED  BY Zenon, <1>2, <1>4, <1>6, <2>1, <2>2, <2>3 DEF EchoInv
<1>12. Inv(t, {idx}, 1)
  BY Zenon, <1>4, <1>6, <1>7, <1>8, <1>9, <1>11 DEF Inv, Same
<1>13. ~Busy(t, idx) /\ ~Retried(t, idx) /\ s.slots[idx].state # "connecting"
  BY <1>2, <1>7, <1>10 DEF Busy, Carries
<1>14. s.slots[idx].state \in {"ready", "broken"}
  BY Zenon, <1>1, <1>2, <1>10, <1>13, WorkerTypes DEF Conn
<1> QED  BY Zenon, <1>2, <1>4, <1>6, <1>12, <1>13, <1>14 DEF Same, t, idx

(* drive_echo: the connection is dialed again or sent a request. *)
LEMMA EchoIssueInv ==
  ASSUME SetFacts, NEW s, WorkerInv(s), s.phase.kind = "Echo", s.at \in {"poll", "echoing"},
         s.phase.idle # <<>>, s.phase.in_flight < s.phase.slots,
         NEW rd \in {"ok", "bind", "send"}, NEW rs \in {"ok", "blocked", "failed"}
  PROVE  WorkerInv(EchoIssue(s, rd, rs))
<1> DEFINE t == EchoTake(s)
           idx == Head(s.phase.idle)
           j == FirstDial("RedialEcho", idx)
<1>1. /\ idx \in Slots /\ Inv(t, {idx}, 1) /\ ~Busy(t, idx) /\ ~Retried(t, idx)
      /\ t.phase.kind = "Echo" /\ t.slots = s.slots /\ t.at = "echoing"
      /\ t.slots[idx].state \in {"ready", "broken"}
  BY Zenon, EchoTakeInv
<1>2. EchoIssue(s, rd, rs) = IF s.slots[idx].state = "broken" THEN Dial(t, j, rd)
                             ELSE SendEcho(t, idx, rs)
  BY Zenon, <1>1 DEF EchoIssue
<1>3. j \in Job /\ j.purpose = "RedialEcho" /\ j.slot = idx /\ idx # 0
  BY SMTT(30), <1>1, WorkerAssumption DEF FirstDial, Job, Purposes, Slots
<1> HIDE DEF t, idx, j
<1>4. CASE t.slots[idx].state = "broken"
  <2>1. Holding(t, j)
    BY Zenon, <1>1, <1>3, <1>4 DEF Holding
  <2>2. WorkerInv(Dial(t, j, rd))
    BY Zenon, <1>3, <2>1, DialInv
  <2> QED  BY Zenon, <1>1, <1>2, <1>4, <2>2
<1>5. CASE t.slots[idx].state = "ready"
  <2>1. WorkerInv(SendEcho(t, idx, rs))
    BY <1>1, <1>5, SendEchoInv
  <2> QED  BY Zenon, <1>1, <1>2, <1>5, <2>1
<1> QED  BY Zenon, <1>1, <1>4, <1>5

(* start, Rate: each of the broken connections is a dial in hand. *)
LEMMA RedialInv ==
  ASSUME SetFacts, NEW s, WorkerInv(s), s.at = "redialing", NEW i \in s.todo,
         NEW r \in {"ok", "bind", "send"}
  PROVE  WorkerInv(Dial([s EXCEPT !.todo = @ \ {i}], FirstDial("RedialRate", i), r))
<1> DEFINE t == [s EXCEPT !.todo = @ \ {i}]
           j == FirstDial("RedialRate", i)
<1>1. /\ s \in WorkerState /\ NoEcho(s) /\ SlotsInv(s) /\ DialsInv(s, 0) /\ ControlInv(s)
      /\ s.starts \in Nat /\ s.phase \in Phase /\ s.phase.kind = "Idle"
      /\ s.todo \in SUBSET Slots /\ s.broken \in Nat
  BY Zenon, WorkerTypes DEF WorkerInv, Inv, ControlInv
<1>2. /\ s.todo \subseteq InState(s, "broken") /\ DialsFor(s, "RedialRate")
      /\ s.broken >= Cardinality(s.todo) + Dials(s) + 0
      /\ \A k \in s.todo : ~Retried(s, k)
  BY <1>1 DEF DialsInv, Redialing
<1>3. PICK T \in SUBSET Slots : T = s.todo \ {i}
  BY Zenon, <1>1
<1>4. t = [s EXCEPT !.todo = T]
  BY <1>3
<1> HIDE DEF t
<1>5. /\ Same(s, t) /\ t.phase = s.phase /\ t.at = s.at /\ t.starts = s.starts
      /\ t.todo = T /\ t.broken = s.broken
  BY <1>1, <1>4, Zenon DEF Same, WorkerState
<1>6. /\ SlotsInv(t) /\ Dials(t) = Dials(s) /\ Dials(s) \in Nat /\ NoEcho(t)
      /\ DialsFor(t, "RedialRate") /\ InState(t, "broken") = InState(s, "broken")
      /\ \A k : Retried(t, k) <=> Retried(s, k)
  BY Zenon, <1>1, <1>2, <1>5, SameFacts
<1>7. Cardinality(s.todo) = Cardinality(T) + 1 /\ Cardinality(T) \in Nat /\ i \notin T /\ i \in Slots
  <2>1. /\ i \in Slots /\ i \notin T /\ s.todo = T \cup {i}
    BY Zenon, <1>1, <1>3
  <2> QED  BY Zenon, <2>1, CardAdd, SlotsFinite
<1>8. s.broken >= Cardinality(T) + Dials(s) + 1
  BY SMTT(30), <1>1, <1>2, <1>6, <1>7
<1>9. DialsInv(t, 1)
  <2>1. T \subseteq InState(t, "broken") /\ \A k \in T : ~Retried(t, k)
    BY Zenon, <1>2, <1>3, <1>6
  <2> QED  BY Zenon, <1>1, <1>5, <1>6, <1>8, <2>1 DEF DialsInv, Redialing, Quiet
<1>10. ControlInv(t)
  BY <1>1, <1>5 DEF ControlInv
<1>11. Inv(t, {}, 1)
  BY Zenon, <1>1, <1>5, <1>6, <1>9, <1>10 DEF Inv, Same
<1>12. j \in Job /\ j.purpose = "RedialRate" /\ j.slot = i /\ i # 0
  BY <1>7, WorkerAssumption DEF FirstDial, Job, Purposes, Slots
<1> HIDE DEF j
<1>13. t.slots[i].state = "broken" /\ ~Retried(t, i) /\ i \notin t.todo /\ Redialing(t)
  BY Zenon, <1>2, <1>5, <1>6, <1>7 DEF InState, Redialing, Same
<1>14. Holding(t, j)
  BY Zenon, <1>7, <1>11, <1>12, <1>13 DEF Holding
<1>15. WorkerInv(Dial(t, j, r))
  BY Zenon, <1>12, <1>14, DialInv
<1> QED  BY Zenon, <1>15 DEF t, j

(* drive_rate: what changes neither a connection nor a dial. *)
LEMMA RateStay ==
  ASSUME SetFacts, NEW s, WorkerInv(s), s.phase.kind = "Rate", s.at \in {"poll", "ticking"},
         NEW t, Same(s, t), t.phase.kind = "Rate", t.at \in {"poll", "ticking"},
         t.starts = s.starts
  PROVE  WorkerInv(t)
<1>1. s \in WorkerState /\ SlotsInv(s) /\ DialsInv(s, 0) /\ ControlInv(s) /\ NoEcho(s)
  BY Zenon DEF WorkerInv, Inv
<1>2. SlotsInv(t) /\ NoEcho(t) /\ InState(t, "connecting") = InState(s, "connecting")
  BY <1>1, SameFacts
<1>3. DialsInv(t, 0)
  BY Zenon, <1>1, <1>2 DEF DialsInv, Redialing, Quiet, Same
<1>4. ControlInv(t)
  BY Zenon, <1>1 DEF ControlInv
<1> QED  BY Zenon, <1>2, <1>3, <1>4 DEF WorkerInv, Inv, Same

(* rate_tick on one connection. *)
LEMMA TickConnInv ==
  ASSUME SetFacts, NEW s, WorkerInv(s), s.phase.kind = "Rate", s.at \in {"poll", "ticking"},
         NEW idx \in Slots, s.slots[idx].state = "ready", NEW n \in Nat,
         NEW r \in {"ok", "blocked", "failed"}
  PROVE  WorkerInv(TickConn(s, idx, n, r))
<1> DEFINE b == s.slots[idx]
           x == [b.streams EXCEPT !["Rate"] = @ + n]
           d == [b EXCEPT !.streams = x]
           v == [s EXCEPT !.slots[idx].streams["Rate"] = @ + n]
           u == [s EXCEPT !.slots[idx].streams["Rate"] = @ + n, !.slots[idx].in_flight = @ + n]
           t == [s EXCEPT !.slots[idx].streams["Rate"] = @ + n,
                          !.slots[idx].in_flight = @ + n, !.phase.send_times = @ + n]
<1>1. /\ s \in WorkerState /\ Inv(s, {}, 0) /\ b \in Conn /\ SlotInv(b, idx)
      /\ b.streams \in [Kinds -> Nat] /\ b.in_flight \in Nat /\ s.phase \in Phase
  BY Zenon, ConnTypes, WorkerTypes DEF WorkerInv, Inv, SlotsInv
<1>2. PICK y \in Nat : y = b.in_flight + n
  BY SMTT(30), <1>1
<1>3. /\ x \in [Kinds -> Nat] /\ x["Echo"] = b.streams["Echo"] /\ x["Dial"] = b.streams["Dial"]
      /\ y <= x["Rate"]
  <2>1. b.in_flight <= b.streams["Rate"] /\ b.streams["Rate"] \in Nat
    BY Zenon, <1>1 DEF SlotInv, Kinds
  <2>2. x \in [Kinds -> Nat] /\ x["Rate"] = b.streams["Rate"] + n
    <3> HIDE DEF b
    <3> QED  BY <1>1, <2>1 DEF Kinds
  <2> HIDE DEF b
  <2> QED  BY SMTT(30), <1>1, <1>2, <2>1, <2>2 DEF Kinds
<1> DEFINE c == [d EXCEPT !.in_flight = y]
<1>4. v = WithSlot(s, idx, d) /\ v.slots[idx] = d /\ d.in_flight = b.in_flight
  BY Zenon, <1>1, WorkerTypes DEF WithSlot, WorkerState, Conn
<1>5. u = [v EXCEPT !.slots[idx].in_flight = @ + n]
  BY Zenon
<1> HIDE DEF x
<1>6. /\ c \in Conn /\ c.streams = x /\ c.state = b.state /\ c.dial = b.dial
      /\ c.h3 = b.h3 /\ c.queued = b.queued /\ c.in_flight = y
  BY <1>1, <1>3, Zenon DEF Conn
<1> HIDE DEF d, v
<1>7. u = WithSlot(s, idx, c)
  <2>1. u = WithSlot(v, idx, c)
    BY Zenon, <1>2, <1>4, <1>5 DEF WithSlot
  <2> HIDE DEF u, c
  <2> QED  BY Zenon, <1>1, <1>4, <2>1, WorkerTypes DEF WithSlot, WorkerState
<1>8. t = [u EXCEPT !.phase.send_times = @ + n]
  OBVIOUS
<1> HIDE DEF c, u, t
<1>9. SlotInv(c, idx) /\ (Carries(c) <=> Carries(b))
  BY Zenon, <1>1, <1>3, <1>6 DEF SlotInv, Carries
<1>10. Becomes(b, c, idx, {}, {})
  BY Zenon, <1>6, <1>9 DEF Becomes
<1>11. WorkerInv(u) /\ SlotOnly(s, u, idx, c) /\ u.slots[idx] = c
  BY Zenon, <1>1, <1>6, <1>7, <1>9, <1>10, SlotChange DEF WorkerInv
<1>12. PICK m \in Nat : m = u.phase.send_times + n
  BY <1>1, <1>11, PhaseTypes DEF SlotOnly
<1> DEFINE p == [u.phase EXCEPT !.send_times = m]
<1>13. p \in Phase /\ p.kind = "Rate" /\ u \in WorkerState
  BY <1>1, <1>11, Zenon DEF SlotOnly, Phase
<1>14. t = WithPhase(u, p)
  BY <1>8, <1>12, <1>13, Zenon DEF WithPhase, WorkerState
<1> HIDE DEF p
<1>15. Same(u, t) /\ t.phase = p /\ t.at = u.at /\ t.starts = u.starts
  BY Zenon, <1>13, <1>14, PhaseSet
<1>16. WorkerInv(t)
  <2>1. u.phase.kind = "Rate" /\ u.at \in {"poll", "ticking"}
    BY Zenon, <1>11 DEF SlotOnly
  <2> QED  BY Zenon, <1>11, <1>13, <1>15, <2>1, RateStay
<1>17. t.slots[idx] = c
  BY <1>11, <1>15 DEF Same
<1>18. TickConn(s, idx, n, r) = IF r = "ok" THEN t ELSE TrySend(t, idx, "Rate", r)
  BY DEF TickConn, t
<1>19. CASE r = "failed" /\ c.h3
  <2> DEFINE e == [c EXCEPT !.closing = TRUE]
  <2>1. Marked(c, e)
    BY <1>6, <1>19, Zenon DEF Marked, Conn
  <2>2. WorkerInv(WithSlot(t, idx, e))
    BY Zenon, <1>16, <1>17, <2>1, MarkInv
  <2>3. TrySend(t, idx, "Rate", r) = WithSlot(t, idx, e)
    BY Zenon, <1>17, <1>19 DEF TrySend, WithSlot
  <2> QED  BY Zenon, <1>18, <1>19, <2>2, <2>3
<1>20. CASE ~(r = "failed" /\ c.h3)
  <2>1. TickConn(s, idx, n, r) = t
    BY Zenon, <1>17, <1>18, <1>20 DEF TrySend
  <2> QED  BY <1>16, <2>1
<1> QED  BY Zenon, <1>19, <1>20

-----------------------------------------------------------------------------
(* The steps of a worker, one kind after the other: each keeps the invariant,
   and only a command and finish end and begin its rest. *)

(* The request at the head of a queue. *)
LEMMA QueueHead ==
  ASSUME NEW s, NEW idx \in Slots, WorkerInv(s)
  PROVE  s.slots[idx].queued # <<>> => Head(s.slots[idx].queued) \in Kinds
<1>1. s.slots[idx].queued \in Seq(Kinds)
  BY ConnTypes DEF WorkerInv, Inv
<1> QED  BY <1>1

(* process, when the handshake completes, stays in its benchmark. *)
LEMMA EstablishedKeeps ==
  ASSUME SetFacts, NEW s, NEW idx \in Slots, WorkerInv(s), s.slots[idx].state = "connecting",
         ~s.slots[idx].h3, NEW r \in SentAs, NEW rq \in SentAs
  PROVE  WorkerInv(Established(s, idx, r, rq)) /\ Keeps(s, Established(s, idx, r, rq))
<1> DEFINE c == [s.slots[idx] EXCEPT !.h3 = TRUE]
           v == WithSlot(s, idx, c)
           u == SendRequest(v, idx, "Dial", r)
           t == SendDial(v, idx, r)
<1>1. /\ WorkerInv(t) /\ Established(s, idx, r, rq) = SendQueued(t, idx, rq)
      /\ WorkerInv(Established(s, idx, r, rq))
  BY EstablishedInv DEF SentAs
<1>2. Shaped(s)
  BY WorkerShaped DEF WorkerInv, Inv
<1>3. Keeps(s, v)
  BY Zenon, <1>2, KeepsField DEF WithSlot
<1> HIDE DEF c, v
<1>4. Keeps(s, u)
  <2>1. Shaped(v)
    BY <1>3 DEF Keeps
  <2>2. Keeps(v, u)
    BY <2>1, SendRequestKeeps
  <2> QED  BY <1>3, <2>2, KeepsTrans
<1> HIDE DEF u
<1>5. Keeps(s, DialFailed(u, idx))
  <2>1. Shaped(u)
    BY <1>4 DEF Keeps
  <2>2. Keeps(u, DialFailed(u, idx))
    BY <2>1, DialFailedKeeps
  <2> QED  BY <1>4, <2>2, KeepsTrans
<1>6. Keeps(s, t)
  <2>1. t \in {u, DialFailed(u, idx)}
    BY DEF SendDial, u
  <2> HIDE DEF t
  <2> QED  BY <1>4, <1>5, <2>1
<1> HIDE DEF t
<1>7. t.slots[idx].queued # <<>> => Head(t.slots[idx].queued) \in Kinds
  BY <1>1, QueueHead
<1>8. Shaped(t)
  BY <1>6 DEF Keeps
<1>9. Keeps(t, SendQueued(t, idx, rq))
  BY <1>7, <1>8, SendQueuedKeeps
<1>10. Keeps(s, SendQueued(t, idx, rq))
  BY <1>6, <1>9, KeepsTrans
<1> QED  BY <1>1, <1>10

(* process, when a stream ends, stays in its benchmark. *)
LEMMA StreamDoneKeeps ==
  ASSUME SetFacts, NEW s, NEW idx \in Slots, WorkerInv(s), NEW k \in Kinds,
         s.slots[idx].streams[k] > 0, NEW res \in {"ok", "bad", "err"},
         NEW r \in SentAs, NEW rq \in SentAs
  PROVE  WorkerInv(StreamDone(s, idx, k, res, r, rq)) /\ Keeps(s, StreamDone(s, idx, k, res, r, rq))
<1> DEFINE v == [s EXCEPT !.slots[idx].streams[k] = @ - 1]
           t == Response(v, idx, k, res, r)
<1>1. WorkerInv(t) /\ WorkerInv(StreamDone(s, idx, k, res, r, rq))
  BY StreamDoneInv DEF SentAs
<1>2. Shaped(s)
  BY WorkerShaped DEF WorkerInv, Inv
<1>3. Keeps(s, v)
  BY <1>2, KeepsField, Zenon
<1> HIDE DEF v
<1>4. Keeps(s, t)
  <2>1. Shaped(v)
    BY <1>3 DEF Keeps
  <2>2. Keeps(v, t)
    BY <2>1, ResponseKeeps
  <2> QED  BY <1>3, <2>2, KeepsTrans
<1> HIDE DEF t
<1>5. t.slots[idx].queued # <<>> => Head(t.slots[idx].queued) \in Kinds
  BY <1>1, QueueHead
<1>6. Shaped(t)
  BY <1>4 DEF Keeps
<1>7. Keeps(t, SendQueued(t, idx, rq))
  BY <1>5, <1>6, SendQueuedKeeps
<1>8. Keeps(s, SendQueued(t, idx, rq))
  BY <1>4, <1>7, KeepsTrans
<1> QED  BY <1>1, <1>8 DEF StreamDone, t, v

(* GOAWAY and a protocol error mark the connection. *)
LEMMA MarksInv ==
  ASSUME SetFacts, NEW s, NEW i \in Slots, WorkerInv(s), s.slots[i].h3,
         NEW c \in {[s.slots[i] EXCEPT !.goaway = TRUE], [s.slots[i] EXCEPT !.closing = TRUE]}
  PROVE  WorkerInv([s EXCEPT !.slots[i] = c]) /\ Keeps(s, [s EXCEPT !.slots[i] = c])
<1>1. s \in WorkerState /\ Shaped(s)
  BY WorkerShaped DEF WorkerInv, Inv
<1>2. s.slots[i] \in Conn /\ s.slots[i].state # "vacant"
  <2>1. SlotInv(s.slots[i], i)
    BY DEF WorkerInv, Inv, SlotsInv
  <2>2. s.slots[i].state = "vacant" => s.slots[i] = NoConn
    BY <2>1 DEF SlotInv
  <2>3. ~NoConn.h3
    BY Zenon DEF NoConn
  <2>4. s.slots[i] \in Conn
    BY <1>1, ConnTypes
  <2> QED  BY Zenon, <2>2, <2>3, <2>4
<1>3. Marked(s.slots[i], c)
  <2>1. CASE c = [s.slots[i] EXCEPT !.goaway = TRUE]
    BY <1>2, <2>1, Zenon DEF Marked, Conn
  <2>2. CASE c = [s.slots[i] EXCEPT !.closing = TRUE]
    BY <1>2, <2>2, Zenon DEF Marked, Conn
  <2> QED  BY <2>1, <2>2
<1>4. [s EXCEPT !.slots[i] = c] = WithSlot(s, i, c)
  BY DEF WithSlot
<1>5. WorkerInv(WithSlot(s, i, c))
  BY <1>3, MarkInv
<1>6. Keeps(s, WithSlot(s, i, c))
  BY Zenon, <1>1, KeepsField DEF WithSlot
<1> QED  BY <1>4, <1>5, <1>6

(* What the network and the timers make of a connection. *)
LEMMA NetStepInv ==
  ASSUME SetFacts, NEW s, WorkerInv(s), NEW i \in Slots, NEW t, NetStep(s, t, i)
  PROVE  WorkerInv(t) /\ Keeps(s, t)
<1>0. Shaped(s)
  BY WorkerShaped DEF WorkerInv, Inv
<1>1. ASSUME s.slots[i].state = "connecting", ~s.slots[i].h3, NEW r \in SentAs, NEW rq \in SentAs,
             t = Established(s, i, r, rq)
      PROVE  WorkerInv(t) /\ Keeps(s, t)
  BY <1>1, EstablishedKeeps
<1>2. ASSUME NEW k \in Kinds, NEW res \in {"ok", "bad", "err"}, NEW r \in SentAs, NEW rq \in SentAs,
             s.slots[i].streams[k] > 0, t = StreamDone(s, i, k, res, r, rq)
      PROVE  WorkerInv(t) /\ Keeps(s, t)
  BY Zenon, <1>2, StreamDoneKeeps
<1>3. ASSUME NEW rq \in {"ok", "failed"}, t = SendQueued(s, i, rq)
      PROVE  WorkerInv(t) /\ Keeps(s, t)
  <2>1. WorkerInv(SendQueued(s, i, rq))
    BY SendQueuedInv
  <2>2. Keeps(s, SendQueued(s, i, rq))
    BY <1>0, QueueHead, SendQueuedKeeps
  <2> QED  BY <1>3, <2>1, <2>2
<1>4. CASE t = Closed(s, i)
  BY <1>0, <1>4, ClosedInv, ClosedKeeps
<1>5. ASSUME NEW c \in {[s.slots[i] EXCEPT !.goaway = TRUE], [s.slots[i] EXCEPT !.closing = TRUE]},
             s.slots[i].h3, t = [s EXCEPT !.slots[i] = c]
      PROVE  WorkerInv(t) /\ Keeps(s, t)
  BY Zenon, <1>5, MarksInv
<1>6. CASE s.slots[i].state = "connecting" /\ t = DialFailed(s, i)
  BY <1>0, <1>6, DialFailedInv, DialFailedKeeps
<1>7. CASE s.slots[i].h3 /\ t = [s EXCEPT !.slots[i].goaway = TRUE]
  BY Zenon, <1>5, <1>7
<1>8. CASE s.slots[i].h3 /\ t = [s EXCEPT !.slots[i].closing = TRUE]
  BY Zenon, <1>5, <1>8
<1> QED  BY Zenon, <1>1, <1>2, <1>3, <1>4, <1>6, <1>7, <1>8 DEF NetStep

(* What the steps in between make of the rest. *)
LEMMA KeepsRests ==
  ASSUME NEW s, NEW t, Keeps(s, t)
  PROVE  Rests(t) <=> Rests(s)
BY DEF Keeps, Rests

(* A dial. *)
LEMMA DialStepInv ==
  ASSUME SetFacts, NEW s, WorkerInv(s), NEW t, DialStep(s, t)
  PROVE  WorkerInv(t) /\ (Rests(t) <=> Rests(s))
<1>0. s \in WorkerState /\ Shaped(s)
  BY WorkerShaped DEF WorkerInv, Inv
<1>1. PICK r \in DialedAs :
        \/ /\ s.at = "poll" /\ s.retries # <<>>
           /\ Head(s.retries).slot = 0 => AllocIdx(s) <= MaxSlots
           /\ t = FireRetry(s, r)
        \/ s.at = "dialing" /\ AllocIdx(s) <= MaxSlots /\ t = DialNext(s, r)
        \/ /\ s.at = "redialing"
           /\ \E i \in s.todo : t = Dial([s EXCEPT !.todo = @ \ {i}], FirstDial("RedialRate", i), r)
  BY Zenon DEF DialStep
<1>2. r \in {"ok", "bind", "send"}
  BY DEF DialedAs
<1>3. CASE /\ s.at = "poll" /\ s.retries # <<>>
           /\ Head(s.retries).slot = 0 => AllocIdx(s) <= MaxSlots
           /\ t = FireRetry(s, r)
  <2>1. WorkerInv(t)
    BY <1>2, <1>3, FireRetryInv
  <2> DEFINE u == [s EXCEPT !.retries = Tail(@)]
  <2>2. Keeps(s, u)
    BY Zenon, <1>0, KeepsField
  <2> HIDE DEF u
  <2>3. Shaped(u)
    BY <2>2 DEF Keeps
  <2>4. Keeps(u, Dial(u, Head(s.retries), r))
    BY <1>2, <2>3, DialKeeps
  <2>5. Keeps(s, Dial(u, Head(s.retries), r))
    BY <2>2, <2>4, KeepsTrans
  <2>6. Keeps(s, t)
    BY <1>3, <2>5 DEF FireRetry, u
  <2> QED  BY <2>1, <2>6, KeepsRests
<1>4. CASE s.at = "dialing" /\ AllocIdx(s) <= MaxSlots /\ t = DialNext(s, r)
  <2>1. WorkerInv(t)
    BY <1>2, <1>4, DialNextInv
  <2>2. s.phase.kind = "Dial"
    BY <1>4 DEF WorkerInv, Inv, ControlInv
  <2> DEFINE u == [s EXCEPT !.starts = @ - 1, !.at = IF s.starts = 1 THEN "poll" ELSE @]
  <2>3. Shaped(u) /\ u.phase.kind = "Dial"
    BY <1>0, <2>2, Zenon DEF Shaped
  <2> HIDE DEF u
  <2>4. Keeps(u, Dial(u, FirstDial("New", 0), r))
    BY <1>2, <2>3, DialKeeps
  <2>5. t.phase.kind = "Dial"
    BY <1>4, <2>3, <2>4 DEF DialNext, Keeps, u
  <2> QED  BY <2>1, <2>2, <2>5 DEF Rests
<1>5. ASSUME NEW i \in s.todo, s.at = "redialing",
             t = Dial([s EXCEPT !.todo = @ \ {i}], FirstDial("RedialRate", i), r)
      PROVE  WorkerInv(t) /\ (Rests(t) <=> Rests(s))
  <2> DEFINE u == [s EXCEPT !.todo = @ \ {i}]
             j == FirstDial("RedialRate", i)
  <2>1. WorkerInv(Dial(u, j, r))
    BY <1>2, <1>5, RedialInv
  <2>2. Shaped(u) /\ u.at = "redialing"
    BY Zenon, <1>0, <1>5 DEF Shaped
  <2> HIDE DEF u, j
  <2>3. Dial(u, j, r).at = "redialing"
    BY <1>2, <2>2, DialKeeps DEF Keeps
  <2>4. t = Dial(u, j, r)
    BY <1>5 DEF u, j
  <2> QED  BY <1>5, <2>1, <2>3, <2>4 DEF Rests
<1> QED  BY Zenon, <1>1, <1>3, <1>4, <1>5

(* A worker that only moves within its loop has what it had. *)
LEMMA SameSelf ==
  ASSUME NEW s \in WorkerState, NEW t \in WorkerState, t.slots = s.slots, t.free = s.free,
         t.len = s.len, t.ready = s.ready, t.retries = s.retries
  PROVE  Same(s, t)
BY DEF Same

(* Two states with the same connections, lists and timers. *)
Stays(s, t) ==
  /\ t \in WorkerState /\ t.slots = s.slots /\ t.free = s.free /\ t.len = s.len
  /\ t.ready = s.ready /\ t.retries = s.retries /\ t.starts = s.starts

(* A step of drive_rate that only moves its clock. *)
LEMMA RateStays ==
  ASSUME SetFacts, NEW s, WorkerInv(s), s.phase.kind = "Rate", s.at \in {"poll", "ticking"},
         NEW t, Stays(s, t), t.phase.kind = "Rate", t.at \in {"poll", "ticking"}
  PROVE  WorkerInv(t) /\ (Rests(t) <=> Rests(s))
<1>1. s \in WorkerState
  BY DEF WorkerInv, Inv
<1>2. Same(s, t)
  BY <1>1, SameSelf DEF Stays
<1>3. WorkerInv(t)
  BY <1>2, RateStay DEF Stays
<1> QED  BY <1>3 DEF Rests

(* One of drive_echo that only leaves or enters its loop. *)
LEMMA EchoStays ==
  ASSUME SetFacts, NEW s, WorkerInv(s), s.phase.kind = "Echo", s.at \in {"poll", "echoing"},
         NEW t, Stays(s, t), t.phase.kind = "Echo", t.phase.idle = s.phase.idle,
         t.phase.in_flight = s.phase.in_flight, t.phase.slots = s.phase.slots,
         t.at \in {"poll", "echoing"}
  PROVE  WorkerInv(t) /\ ~Rests(t)
<1>1. s \in WorkerState
  BY DEF WorkerInv, Inv
<1>2. Same(s, t)
  BY <1>1, SameSelf DEF Stays
<1>3. WorkerInv(t)
  BY <1>2, EchoStay DEF Stays
<1> QED  BY <1>3 DEF Rests

(* drive, from one part of a benchmark to the next. *)
LEMMA TurnStepInv ==
  ASSUME SetFacts, NEW s, WorkerInv(s), NEW t, TurnStep(s, t)
  PROVE  WorkerInv(t) /\ (Rests(t) <=> Rests(s))
<1>0. s \in WorkerState /\ s.phase \in Phase
  BY WorkerTypes DEF WorkerInv, Inv
<1>1. CASE s.at = "poll" /\ s.phase.kind = "Dial" /\ Starts(s) > 0 /\ t = DriveDial(s)
  <2>1. WorkerInv(t)
    BY <1>1, DriveDialInv
  <2>2. t.at = "dialing"
    BY <1>0, <1>1, Zenon DEF DriveDial, WorkerState
  <2> QED  BY <1>1, <2>1, <2>2 DEF Rests
<1>2. CASE s.at = "redialing" /\ s.todo = {} /\ t = EndRedials(s)
  <2>1. WorkerInv(t)
    BY <1>2, EndRedialsInv
  <2>2. t.phase.kind = "RatePrep"
    BY Zenon, <1>0, <1>2, IdlePhase DEF EndRedials, WorkerState, Phase
  <2> QED  BY <1>2, <2>1, <2>2 DEF Rests
<1>3. CASE s.at = "poll" /\ s.phase.kind = "RatePrep" /\ s.phase.redials = 0 /\ t = StartRateRun(s)
  <2>1. WorkerInv(t)
    BY <1>3, StartRateRunInv
  <2>2. t.phase.kind = "Rate"
    BY Zenon, <1>0, <1>3, IdlePhase DEF StartRateRun, WorkerState, Phase
  <2> QED  BY <1>3, <2>1, <2>2 DEF Rests
<1>4. CASE s.at \in {"echoing", "ticking"} /\ t = [s EXCEPT !.at = "poll"]
  <2>1. Stays(s, t) /\ t.phase = s.phase /\ t.at = "poll"
    BY Zenon, <1>0, <1>4 DEF WorkerState, Stays
  <2>2. /\ s.at = "echoing" => s.phase.kind = "Echo"
        /\ s.at = "ticking" => s.phase.kind = "Rate"
    BY DEF WorkerInv, Inv, ControlInv
  <2>3. CASE s.at = "echoing"
    BY <2>1, <2>2, <2>3, EchoStays DEF Rests
  <2>4. CASE s.at = "ticking"
    BY <2>1, <2>2, <2>4, RateStays
  <2> QED  BY <1>4, <2>3, <2>4
<1>5. CASE /\ s.at = "poll" /\ s.phase.kind = "Rate"
           /\ t = [s EXCEPT !.at = "ticking", !.todo = s.phase.conns, !.phase.ticks = @ + 1]
  <2>1. s.phase.ticks \in Nat
    BY Zenon, <1>0 DEF Phase
  <2>2. PICK k \in Nat : k = s.phase.ticks + 1
    BY <2>1
  <2> DEFINE p == [s.phase EXCEPT !.ticks = k]
  <2>3. t = [s EXCEPT !.at = "ticking", !.todo = s.phase.conns, !.phase = p]
    BY Zenon, <1>0, <1>5, <2>2 DEF WorkerState
  <2>4. p \in Phase /\ s.phase.conns \in SUBSET Slots /\ p.kind = s.phase.kind
    BY Zenon, <1>0 DEF Phase
  <2> HIDE DEF p
  <2>5. Stays(s, t) /\ t.phase = p /\ t.at = "ticking"
    BY Zenon, <1>0, <2>3, <2>4 DEF WorkerState, Stays
  <2> QED  BY Zenon, <1>5, <2>4, <2>5, RateStays
<1>6. CASE s.at = "poll" /\ s.phase.kind = "Rate" /\ t = [s EXCEPT !.phase.grace = TRUE]
  <2> DEFINE p == [s.phase EXCEPT !.grace = TRUE]
  <2>1. t = [s EXCEPT !.phase = p]
    BY Zenon, <1>0, <1>6 DEF WorkerState
  <2>2. p \in Phase /\ p.kind = s.phase.kind
    BY Zenon, <1>0 DEF Phase
  <2> HIDE DEF p
  <2>3. Stays(s, t) /\ t.phase = p /\ t.at = s.at
    BY Zenon, <1>0, <2>1, <2>2 DEF WorkerState, Stays
  <2> QED  BY Zenon, <1>6, <2>2, <2>3, RateStays
<1> QED  BY Zenon, <1>1, <1>2, <1>3, <1>4, <1>5, <1>6 DEF TurnStep

(* rate_tick. *)
LEMMA TickStepInv ==
  ASSUME SetFacts, NEW s, WorkerInv(s), NEW t, NEW most, TickStep(s, t, most)
  PROVE  WorkerInv(t) /\ (Rests(t) <=> Rests(s))
<1>0. s \in WorkerState /\ s.at = "ticking" /\ s.phase.kind = "Rate" /\ s.todo \subseteq Slots
  <2>1. s \in WorkerState /\ s.at = "ticking"
    BY DEF WorkerInv, Inv, TickStep
  <2>2. s.phase.kind = "Rate"
    BY <2>1 DEF WorkerInv, Inv, ControlInv
  <2> QED  BY Zenon, <2>1, <2>2 DEF WorkerState
<1>1. PICK i \in s.todo :
        \/ t = [s EXCEPT !.todo = @ \ {i}]
        \/ \E n \in Nat, r \in SentAs :
             s.slots[i].state = "ready" /\ t = TickConn([s EXCEPT !.todo = @ \ {i}], i, n, r)
  BY Zenon DEF TickStep
<1>2. PICK S \in SUBSET Slots : S = s.todo \ {i}
  BY Zenon, <1>0
<1> DEFINE u == [s EXCEPT !.todo = S]
<1>3. \/ t = u
      \/ \E n \in Nat, r \in SentAs : s.slots[i].state = "ready" /\ t = TickConn(u, i, n, r)
  BY Zenon, <1>1, <1>2
<1>4. Stays(s, u) /\ u.phase = s.phase /\ u.at = s.at
  BY Zenon, <1>0 DEF WorkerState, Stays
<1> HIDE DEF u
<1>5. WorkerInv(u) /\ (Rests(u) <=> Rests(s))
  BY <1>0, <1>4, RateStays
<1>6. ASSUME NEW n \in Nat, NEW r \in SentAs, s.slots[i].state = "ready", t = TickConn(u, i, n, r)
      PROVE  WorkerInv(t) /\ (Rests(t) <=> Rests(s))
  <2>1. i \in Slots /\ u.slots[i].state = "ready" /\ r \in {"ok", "blocked", "failed"}
    BY <1>0, <1>4, <1>6 DEF SentAs, Stays
  <2>2. WorkerInv(TickConn(u, i, n, r))
    BY <1>0, <1>4, <1>5, <2>1, TickConnInv
  <2>3. TickConn(u, i, n, r).at = u.at
    BY Zenon, <1>4 DEF TickConn, TrySend, WorkerState, Stays
  <2> QED  BY <1>0, <1>4, <1>6, <2>2, <2>3 DEF Rests
<1> QED  BY Zenon, <1>3, <1>5, <1>6

(* drive_echo with a number of the shared counter. *)
LEMMA IssuesInv ==
  ASSUME SetFacts, NEW s, WorkerInv(s), NEW t, Issues(s, t) \/ Exhausts(s, t)
  PROVE  WorkerInv(t) /\ ~Rests(t)
<1>0. /\ s \in WorkerState /\ s.phase \in Phase /\ Shaped(s)
      /\ s.phase.kind = "Echo" /\ s.at \in {"poll", "echoing"} /\ s.phase.idle # <<>>
      /\ s.phase.in_flight < s.phase.slots
  BY WorkerTypes, WorkerShaped DEF WorkerInv, Inv, Issues, Exhausts, Ready
<1>1. ASSUME NEW rd \in DialedAs, NEW rs \in SentAs, t = EchoIssue(s, rd, rs)
      PROVE  WorkerInv(t) /\ ~Rests(t)
  <2>1. rd \in {"ok", "bind", "send"} /\ rs \in {"ok", "blocked", "failed"}
    BY DEF DialedAs, SentAs
  <2>2. WorkerInv(t)
    BY <1>0, <1>1, <2>1, EchoIssueInv
  <2>3. t.phase.kind = "Echo"
    BY <1>0, <1>1, <2>1, EchoIssueKind
  <2> QED  BY <2>2, <2>3 DEF Rests
<1>2. CASE t = [s EXCEPT !.phase.exhausted = TRUE, !.at = "echoing"]
  <2> DEFINE p == [s.phase EXCEPT !.exhausted = TRUE]
  <2>1. t = [s EXCEPT !.phase = p, !.at = "echoing"]
    BY Zenon, <1>0, <1>2 DEF WorkerState
  <2>2. p \in Phase
    BY Zenon, <1>0 DEF Phase
  <2>3. /\ p.kind = s.phase.kind /\ p.idle = s.phase.idle /\ p.in_flight = s.phase.in_flight
        /\ p.slots = s.phase.slots
    BY Zenon, <1>0 DEF Phase
  <2> HIDE DEF p
  <2>4. Stays(s, t) /\ t.phase = p /\ t.at = "echoing"
    BY Zenon, <1>0, <2>1, <2>2 DEF WorkerState, Stays
  <2> QED  BY <1>0, <2>3, <2>4, EchoStays
<1> QED  BY Zenon, <1>1, <1>2 DEF Issues, Exhausts

(* finish. *)
LEMMA FinishesInv ==
  ASSUME SetFacts, NEW s, WorkerInv(s), Finishes(s)
  PROVE  WorkerInv(Finish(s)) /\ Rests(Finish(s))
<1>1. WorkerInv(Finish(s))
  BY FinishInv DEF Finishes
<1>2. s \in WorkerState
  BY DEF WorkerInv, Inv
<1>3. Rests(Finish(s))
  BY <1>2, IdlePhase, Zenon DEF Finish, WorkerState, Rests
<1> QED  BY <1>1, <1>3

(* start: every command leaves the worker with something to do, or ended. *)
LEMMA BeginsInv ==
  ASSUME SetFacts, NEW s, WorkerInv(s), NEW cmd, cmd.count \in Nat, cmd.concurrency \in Nat,
         NEW t, Begins(s, t, cmd)
  PROVE  WorkerInv(t) /\ ~Rests(t)
<1>0. s \in WorkerState /\ s.phase.kind = "Idle" /\ s.at = "poll"
  BY DEF WorkerInv, Inv, Begins, Rests
<1>1. CASE t = StartDial(s, cmd.count, cmd.concurrency)
  <2>1. WorkerInv(t)
    BY <1>0, <1>1, StartDialInv
  <2>2. t.phase.kind = "Dial"
    BY Zenon, <1>0, <1>1, IdlePhase DEF StartDial, WorkerState, Phase
  <2> QED  BY <2>1, <2>2 DEF Rests
<1>2. ASSUME NEW idle \in [1..Cardinality(Occupied(s)) -> Occupied(s)], Lists(idle, Occupied(s)),
             t = StartEcho(s, idle, cmd.concurrency, cmd.kind = "Echo")
      PROVE  WorkerInv(t) /\ ~Rests(t)
  <2>1. WorkerInv(t)
    BY Zenon, <1>0, <1>2, StartEchoInv
  <2>2. t.phase.kind = "Echo"
    BY Zenon, <1>0, <1>2, IdlePhase DEF StartEcho, WorkerState, Phase
  <2> QED  BY <2>1, <2>2 DEF Rests
<1>3. CASE t = StartRate(s)
  <2>1. WorkerInv(t)
    BY <1>0, <1>3, StartRateInv
  <2>2. t.at = "redialing"
    BY Zenon, <1>0, <1>3 DEF StartRate, WorkerState
  <2> QED  BY <2>1, <2>2 DEF Rests
<1>4. CASE t = CloseAll(s)
  <2>1. WorkerInv(t)
    BY <1>0, <1>4, CloseAllInv
  <2>2. t.at = "exited"
    BY Zenon, <1>0, <1>4 DEF CloseAll, WorkerState
  <2> QED  BY <2>1, <2>2 DEF Rests
<1> QED  BY Zenon, <1>1, <1>2, <1>3, <1>4 DEF Begins

(* Worker::new: no slot, no connection, nothing to do. *)
LEMMA NewWorkerInv ==
  ASSUME SetFacts
  PROVE  WorkerInv(NewWorker) /\ Rests(NewWorker)
<1> DEFINE s == NewWorker
<1>1. /\ \A i \in Slots : s.slots[i] = NoConn
      /\ s.len = 0 /\ s.free = <<>> /\ s.retries = <<>> /\ s.ready = 0 /\ s.phase = Idle
      /\ s.at = "poll" /\ s.starts = 0 /\ s.todo = {} /\ s.broken = 0
  BY Zenon DEF NewWorker
<1>2. NoConn \in Conn /\ NoConn.state = "vacant"
  BY EmptyConns
<1>3. Idle \in Phase /\ Idle.kind = "Idle"
  BY IdlePhase
<1>4. s \in WorkerState
  <2>1. PICK x \in [Slots -> Conn] : x = [i \in Slots |-> NoConn]
    BY Zenon, <1>2
  <2>2. PICK z \in Nat : z = 0
    OBVIOUS
  <2>3. PICK l \in 0..MaxSlots : l = 0
    BY WorkerAssumption
  <2>0. <<>> \in Seq(Slots) /\ <<>> \in Seq(Job)
    OBVIOUS
  <2>4. PICK q \in Seq(Slots) : q = <<>>
    BY Zenon, <2>0
  <2>5. PICK r \in Seq(Job) : r = <<>>
    BY Zenon, <2>0
  <2>6. PICK p \in Phase : p = Idle
    BY <1>3
  <2>7. PICK e \in SUBSET Slots : e = {}
    BY Zenon
  <2>8. s = [slots |-> x, len |-> l, free |-> q, retries |-> r, ready |-> z, phase |-> p,
             at |-> "poll", starts |-> z, todo |-> e, broken |-> z]
    BY Zenon, <2>1, <2>2, <2>3, <2>4, <2>5, <2>6, <2>7 DEF NewWorker
  <2> HIDE DEF s
  <2> QED  BY Zenon, <2>8 DEF WorkerState
<1> HIDE DEF s
<1>5. \A i \in Slots : s.slots[i].state = "vacant"
  BY <1>1, <1>2
<1>6. InState(s, "ready") = {} /\ InState(s, "connecting") = {}
  BY <1>5 DEF InState
<1>7. SlotsInv(s)
  <2>1. \A i \in Slots : SlotInv(s.slots[i], i)
    BY <1>1, EmptyConns
  <2>2. FreeInv(s)
    <3>1. IsInjective(<<>>) /\ Range(<<>>) = {}
      BY DEF IsInjective, Range
    <3>2. \A i \in Slots : ~(i <= 0)
      BY WorkerAssumption DEF Slots
    <3> QED  BY <1>1, <1>5, <3>1, <3>2 DEF FreeInv
  <2>3. Cardinality({}) = 0
    BY DEF SetFacts, CountEmpty
  <2> QED  BY Zenon, <1>1, <1>6, <2>1, <2>2, <2>3 DEF SlotsInv
<1>8. DialsInv(s, 0)
  BY <1>1, <1>3, <1>6 DEF DialsInv, Redialing, Quiet
<1>9. ControlInv(s)
  BY <1>1, <1>3 DEF ControlInv
<1>10. NoEcho(s)
  BY <1>5 DEF NoEcho
<1>11. WorkerInv(s) /\ Rests(s)
  BY <1>1, <1>3, <1>4, <1>7, <1>8, <1>9, <1>10 DEF WorkerInv, Inv, Rests
<1> QED  BY <1>11 DEF s

(* engine.rs, Worker: what every step of a worker keeps. *)
LEMMA WorkerHolds ==
  ASSUME SetFacts
  PROVE  WorkerKeeps
<1>1. HandlesKeeps
  <2> SUFFICES ASSUME NEW s, NEW t, NEW most, WorkerInv(s), Handles(s, t, most)
               PROVE  WorkerInv(t) /\ (Rests(t) <=> Rests(s))
    BY Zenon DEF HandlesKeeps
  <2>1. CASE \E i \in Slots : NetStep(s, t, i)
    BY Zenon, <2>1, NetStepInv, KeepsRests
  <2>2. CASE DialStep(s, t)
    BY Zenon, <2>2, DialStepInv
  <2>3. CASE TurnStep(s, t)
    BY Zenon, <2>3, TurnStepInv
  <2>4. CASE TickStep(s, t, most)
    BY Zenon, <2>4, TickStepInv
  <2> QED  BY Zenon, <2>1, <2>2, <2>3, <2>4 DEF Handles
<1>2. IssuesKeeps
  BY Zenon, IssuesInv DEF IssuesKeeps
<1>3. FinishesKeeps
  BY Zenon, FinishesInv DEF FinishesKeeps
<1>4. BeginsKeeps
  BY Zenon, BeginsInv DEF BeginsKeeps
<1>5. NewKeeps
  BY Zenon, NewWorkerInv DEF NewKeeps
<1>6. OneInPlace
  BY Zenon, OnePlace DEF OneInPlace
<1> QED  BY Zenon, <1>1, <1>2, <1>3, <1>4, <1>5, <1>6 DEF WorkerKeeps
=============================================================================
