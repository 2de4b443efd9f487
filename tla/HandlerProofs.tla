---------------------------- MODULE HandlerProofs ----------------------------
(***************************************************************************)
(* Every handler of a worker keeps the worker's invariant (module          *)
(* WorkerInvariant): one lemma for each method of engine.rs that the       *)
(* network and the timers call and that changes the slots, the lists or    *)
(* the counters.  WorkerProofs has the commands and the loops.             *)
(*                                                                         *)
(* A method is often called while a job is in nobody's hands: taken off a  *)
(* connection or a list and not yet put anywhere.  Holding(s, j) is the    *)
(* invariant of a worker in the middle of a handler that holds job j.      *)
(***************************************************************************)
EXTENDS WorkerInvariant, SetFacts, TLAPS

-----------------------------------------------------------------------------
(* Sets of slots and sequences without repetition. *)

(* The slots of a worker, and so every set of them, are finite. *)
LEMMA SlotsFinite ==
  ASSUME SetFacts, NEW S \in SUBSET Slots
  PROVE  IsFiniteSet(S) /\ Cardinality(S) \in Nat
<1>1. IsFiniteSet(Slots)
  BY WorkerAssumption DEF Slots, SetFacts, CountInterval
<1> QED  BY <1>1 DEF SetFacts, CountSubset, CountIsNat

(* A finite set grows by one with a new element: the step of a counter. *)
LEMMA CardAdd ==
  ASSUME SetFacts, NEW S \in SUBSET Slots, NEW i \in Slots, i \notin S
  PROVE  Cardinality(S \cup {i}) = Cardinality(S) + 1
BY SlotsFinite DEF SetFacts, CountAdd

(* A finite set shrinks by one when it loses an element. *)
LEMMA CardDel ==
  ASSUME SetFacts, NEW S \in SUBSET Slots, NEW i \in S
  PROVE  Cardinality(S \ {i}) = Cardinality(S) - 1
BY SlotsFinite DEF SetFacts, CountRemove

(* The length of a list, and what is in it. *)
LEMMA SeqLen ==
  ASSUME NEW S, NEW q \in Seq(S)
  PROVE  /\ Len(q) \in Nat /\ DOMAIN q = 1..Len(q)
         /\ \A i \in 1..Len(q) : q[i] \in S
OBVIOUS

(* The list of nothing. *)
LEMMA SeqEmpty ==
  ASSUME NEW S, NEW q \in Seq(S)
  PROVE  <<>> \in Seq(S) /\ Len(<<>>) = 0 /\ (Len(q) = 0 => q = <<>>)
OBVIOUS

(* push_back. *)
LEMMA SeqAppend ==
  ASSUME NEW S, NEW q \in Seq(S), NEW e \in S
  PROVE  Append(q, e) \in Seq(S) /\ Len(Append(q, e)) = Len(q) + 1
OBVIOUS

(* push_back of a slot that is not listed keeps a list without repetitions. *)
LEMMA RangeAppend ==
  ASSUME NEW S, NEW q \in Seq(S), NEW e \in S
  PROVE  /\ Append(q, e) \in Seq(S) /\ Len(Append(q, e)) = Len(q) + 1
         /\ Range(Append(q, e)) = Range(q) \cup {e}
         /\ IsInjective(q) /\ e \notin Range(q) => IsInjective(Append(q, e))
<1>1. /\ DOMAIN q = 1..Len(q) /\ Len(q) \in Nat
      /\ DOMAIN Append(q, e) = 1..(Len(q) + 1)
      /\ Append(q, e) \in Seq(S) /\ Len(Append(q, e)) = Len(q) + 1
  OBVIOUS
<1>2. /\ \A i \in 1..Len(q) : Append(q, e)[i] = q[i]
      /\ Append(q, e)[Len(q) + 1] = e
  OBVIOUS
<1>3. Range(Append(q, e)) = Range(q) \cup {e}
  BY <1>1, <1>2 DEF Range
<1>4. ASSUME IsInjective(q), e \notin Range(q)
      PROVE  IsInjective(Append(q, e))
  <2> SUFFICES ASSUME NEW a \in 1..(Len(q) + 1), NEW b \in 1..(Len(q) + 1),
                      Append(q, e)[a] = Append(q, e)[b]
               PROVE  a = b
    BY <1>1 DEF IsInjective
  <2>1. CASE a \in 1..Len(q) /\ b \in 1..Len(q)
    BY <1>1, <1>2, <1>4, <2>1 DEF IsInjective
  <2>2. CASE a = Len(q) + 1 /\ b \in 1..Len(q)
    BY <1>1, <1>2, <1>4, <2>2 DEF Range
  <2>3. CASE b = Len(q) + 1 /\ a \in 1..Len(q)
    BY <1>1, <1>2, <1>4, <2>3 DEF Range
  <2> QED  BY <1>1, <2>1, <2>2, <2>3
<1> QED  BY <1>1, <1>3, <1>4

(* pop_front takes one slot off a list without repetitions. *)
LEMMA RangeTail ==
  ASSUME NEW S, NEW q \in Seq(S), q # <<>>
  PROVE  /\ Tail(q) \in Seq(S) /\ Len(Tail(q)) = Len(q) - 1 /\ Len(q) \in Nat
         /\ Head(q) \in S /\ Head(q) \in Range(q)
         /\ IsInjective(q) => /\ IsInjective(Tail(q))
                              /\ Range(Tail(q)) = Range(q) \ {Head(q)}
<1>1. /\ DOMAIN q = 1..Len(q) /\ Len(q) \in Nat \ {0}
      /\ Head(q) \in S /\ Head(q) = q[1]
      /\ Tail(q) \in Seq(S) /\ Len(Tail(q)) = Len(q) - 1
      /\ \A i \in 1..(Len(q) - 1) : Tail(q)[i] = q[i + 1]
  OBVIOUS
<1>2. DOMAIN Tail(q) = 1..(Len(q) - 1)
  BY <1>1
<1>3. ASSUME IsInjective(q)
      PROVE  IsInjective(Tail(q)) /\ Range(Tail(q)) = Range(q) \ {Head(q)}
  <2>1. IsInjective(Tail(q))
    BY <1>1, <1>2, <1>3 DEF IsInjective
  <2>2. \A i \in 1..Len(q) : i = 1 \/ (i - 1 \in 1..(Len(q) - 1) /\ Tail(q)[i - 1] = q[i])
    BY <1>1
  <2>3. \A i \in 1..(Len(q) - 1) : q[i + 1] # q[1]
    BY <1>1, <1>3 DEF IsInjective
  <2>4. ASSUME NEW x \in Range(Tail(q))  PROVE  x \in Range(q) \ {Head(q)}
    <3>1. PICK i \in 1..(Len(q) - 1) : x = q[i + 1]
      BY <1>1, <1>2 DEF Range
    <3> QED  BY <1>1, <2>3, <3>1 DEF Range
  <2>5. ASSUME NEW x \in Range(q), x # Head(q)  PROVE  x \in Range(Tail(q))
    <3>1. PICK i \in 1..Len(q) : x = q[i]
      BY <1>1 DEF Range
    <3> QED  BY Zenon, <1>1, <1>2, <2>2, <2>5, <3>1 DEF Range
  <2> QED  BY <2>1, <2>4, <2>5
<1>4. Head(q) \in Range(q)
  <2>1. 1 \in DOMAIN q
    BY <1>1
  <2> QED  BY <1>1, <2>1 DEF Range
<1> QED  BY <1>1, <1>3, <1>4

(* pop, of the free list, takes its last slot off. *)
LEMMA RangeFront ==
  ASSUME NEW S, NEW q \in Seq(S), q # <<>>, IsInjective(q)
  PROVE  /\ SubSeq(q, 1, Len(q) - 1) \in Seq(S)
         /\ q[Len(q)] \in S /\ q[Len(q)] \in Range(q)
         /\ IsInjective(SubSeq(q, 1, Len(q) - 1))
         /\ Range(SubSeq(q, 1, Len(q) - 1)) = Range(q) \ {q[Len(q)]}
<1> DEFINE f == SubSeq(q, 1, Len(q) - 1)
<1>1. /\ DOMAIN q = 1..Len(q) /\ Len(q) \in Nat \ {0}
      /\ \A i \in 1..Len(q) : q[i] \in S
  OBVIOUS
<1>2. /\ f \in Seq(S) /\ Len(f) = Len(q) - 1
      /\ \A i \in 1..(Len(q) - 1) : f[i] = q[i]
  BY <1>1
<1>3. DOMAIN f = 1..(Len(q) - 1)
  BY <1>2
<1> HIDE DEF f
<1>4. IsInjective(f)
  BY <1>1, <1>2, <1>3 DEF IsInjective
<1>0. Len(q) \in Nat
  BY <1>1
<1>5. \A i \in 1..Len(q) : i \in 1..(Len(q) - 1) \/ i = Len(q)
  BY <1>0
<1>6. Len(q) \in DOMAIN q
  BY <1>1
<1>7. \A i \in 1..(Len(q) - 1) : q[i] # q[Len(q)]
  <2> TAKE i \in 1..(Len(q) - 1)
  <2>1. i \in 1..Len(q) /\ i # Len(q)
    BY <1>0
  <2> QED  BY Zenon, <1>1, <1>6, <2>1 DEF IsInjective
<1>8. ASSUME NEW x \in Range(f)  PROVE  x \in Range(q) \ {q[Len(q)]}
  <2>1. PICK i \in 1..(Len(q) - 1) : x = q[i]
    BY <1>2, <1>3 DEF Range
  <2> QED  BY <1>1, <1>7, <2>1 DEF Range
<1>9. ASSUME NEW x \in Range(q), x # q[Len(q)]  PROVE  x \in Range(f)
  <2>1. PICK i \in 1..Len(q) : x = q[i]
    BY <1>1 DEF Range
  <2> QED  BY Zenon, <1>2, <1>3, <1>5, <1>9, <2>1 DEF Range
<1>10. q[Len(q)] \in Range(q)
  BY <1>6 DEF Range
<1> QED  BY <1>1, <1>2, <1>4, <1>6, <1>8, <1>9, <1>10 DEF f

-----------------------------------------------------------------------------
(* The types of a worker's fields. *)

(* The types of the fields of a worker. *)
LEMMA WorkerTypes ==
  ASSUME NEW s \in WorkerState
  PROVE  /\ s.slots \in [Slots -> Conn] /\ s.len \in 0..MaxSlots
         /\ s.free \in Seq(Slots) /\ s.retries \in Seq(Job) /\ s.phase \in Phase
         /\ s.starts \in Nat /\ s.todo \in SUBSET Slots /\ s.broken \in Nat
         /\ s.ready \in Nat
BY DEF WorkerState

(* The phase stays typed when a dial of Connections ends. *)
LEMMA PhaseDial ==
  ASSUME NEW p \in Phase, NEW a \in Nat, NEW b \in Nat, NEW c \in Nat
  PROVE  /\ [p EXCEPT !.active = a, !.ok = b, !.failed = c] \in Phase
         /\ [p EXCEPT !.active = a, !.ok = b, !.failed = c].kind = p.kind
         /\ [p EXCEPT !.active = a, !.ok = b, !.failed = c].active = a
BY Zenon DEF Phase

(* The types of the fields of a phase. *)
LEMMA PhaseTypes ==
  ASSUME NEW p \in Phase
  PROVE  /\ p.ok \in Nat /\ p.failed \in Nat /\ p.active \in Nat /\ p.redials \in Nat
         /\ p.in_flight \in Nat /\ p.slots \in Nat /\ p.idle \in Seq(Slots)
         /\ p.remaining \in Nat /\ p.concurrency \in Nat /\ p.conns \in SUBSET Slots
         /\ p.answered \in Nat /\ p.recv_times \in Nat /\ p.send_times \in Nat
         /\ p.kind \in {"Idle", "Dial", "Echo", "RatePrep", "Rate"} /\ p.ticks \in Nat
BY DEF Phase

(* A vacant slot and a broken connection satisfy what is asked of a slot. *)
LEMMA EmptyConns ==
  /\ NoConn \in Conn /\ NoConn.state = "vacant"
  /\ BrokenConn \in Conn /\ BrokenConn.state = "broken"
  /\ \A i \in Slots : SlotInv(NoConn, i) /\ SlotInv(BrokenConn, i)
<1>1. NoConn \in Conn /\ NoConn.state = "vacant" /\ NoConn.dial = NoJob
      /\ NoConn.streams = NoStreams /\ NoConn.queued = <<>> /\ NoConn.in_flight = 0
  BY DEF NoConn, Conn, NoStreams, NoJob, Kinds
<1>2. BrokenConn \in Conn /\ BrokenConn.state = "broken" /\ BrokenConn.dial = NoJob
      /\ BrokenConn.streams = NoStreams /\ BrokenConn.queued = <<>> /\ BrokenConn.in_flight = 0
  BY <1>1 DEF BrokenConn, Conn
<1>3. \A k \in Kinds : NoStreams[k] = 0
  BY DEF NoStreams
<1>4. \A i \in Slots : SlotInv(NoConn, i)
  BY <1>1, <1>3 DEF SlotInv, Kinds
<1>5. \A i \in Slots : SlotInv(BrokenConn, i)
  BY <1>2, <1>3 DEF SlotInv, Kinds
<1> QED  BY <1>1, <1>2, <1>4, <1>5

(* The phase stays typed when a redial of BenchMultiplex ends. *)
LEMMA PhaseRedials ==
  ASSUME NEW p \in Phase, NEW a \in Nat
  PROVE  LET q == [p EXCEPT !.redials = a]
         IN  q \in Phase /\ q.kind = p.kind /\ q.redials = a
BY Zenon DEF Phase

(* The phase stays typed when a round trip ends. *)
LEMMA PhaseEcho ==
  ASSUME NEW p \in Phase, NEW a \in Nat, NEW b \in Seq(Slots), NEW c \in Nat, NEW d \in Nat
  PROVE  [p EXCEPT !.in_flight = a, !.idle = b, !.ok = c, !.failed = d] \in Phase
BY Zenon DEF Phase

-----------------------------------------------------------------------------
(* The ends of a round trip. *)

WithPhase(s, p) == [s EXCEPT !.phase = p]

EchoPhase(p, idx, ok) ==
  [p EXCEPT !.in_flight = @ - 1, !.idle = Append(@, idx),
            !.ok = IF p.measure /\ ok THEN @ + 1 ELSE @,
            !.failed = IF p.measure /\ ~ok THEN @ + 1 ELSE @]

(* In BenchEcho, echo_done changes nothing but the phase. *)
LEMMA EchoDonePhase ==
  ASSUME NEW s \in WorkerState, s.phase.kind = "Echo", NEW idx, NEW ok
  PROVE  EchoDone(s, idx, ok) = WithPhase(s, EchoPhase(s.phase, idx, ok))
<1>1. s.phase \in Phase
  BY WorkerTypes
<1> QED  BY Zenon, <1>1 DEF Phase, WorkerState, EchoDone, EchoPhase, WithPhase

(* The retries stay, and their slots stay broken; dials under way are for p. *)
DialsKept(s, t, p) ==
  /\ t.retries = s.retries
  /\ \A i \in Slots : t.slots[i].state = "connecting" => t.slots[i].dial.purpose = p
  /\ \A i \in Slots : s.slots[i].state = "broken" /\ Retried(s, i) => t.slots[i].state = "broken"

(* Then the dials are for p as before. *)
LEMMA DialsForKept ==
  ASSUME NEW s, NEW t, NEW p, DialsFor(s, p), DialsKept(s, t, p)
  PROVE  DialsFor(t, p)
<1>1. p # "New" => \A n \in 1..Len(s.retries) :
        s.retries[n].slot \in Slots /\ t.slots[s.retries[n].slot].state = "broken"
  BY Zenon DEF DialsFor, Retried, DialsKept
<1> QED  BY <1>1 DEF DialsFor, DialsKept

(* echo_done for a round trip that is nowhere else any more keeps the
   invariant: its slot is idle again. *)
LEMMA EchoDoneInv ==
  ASSUME SetFacts, NEW s, NEW idx \in Slots, NEW ok \in BOOLEAN, NEW n, Inv(s, {idx}, n),
         s.phase.kind = "Echo", ~Busy(s, idx), s.slots[idx].state # "vacant"
  PROVE  WorkerInv(EchoDone(s, idx, ok))
<1> DEFINE t == EchoDone(s, idx, ok)
<1>1. s \in WorkerState /\ s.phase \in Phase /\ s.phase.idle \in Seq(Slots)
      /\ s.phase.in_flight \in Nat /\ s.phase.slots \in Nat
  BY Zenon DEF Inv, WorkerState, Phase
<1>2. EchoInv(s, {idx})
  BY DEF Inv
<1>3. s.phase.in_flight >= 1 /\ Cardinality(BusySlots(s)) = s.phase.in_flight - 1
  <2>1. BusySlots(s) \in SUBSET Slots /\ idx \notin BusySlots(s)
    BY DEF BusySlots
  <2>2. s.phase.in_flight = Cardinality(BusySlots(s) \cup {idx})
    BY <1>2 DEF EchoInv
  <2> QED  BY <2>1, <2>2, CardAdd, SlotsFinite
<1>4. t \in WorkerState
  <2> DEFINE a == IF s.phase.measure /\ ok THEN s.phase.ok + 1 ELSE s.phase.ok
             b == IF s.phase.measure /\ ~ok THEN s.phase.failed + 1 ELSE s.phase.failed
             p == EchoPhase(s.phase, idx, ok)
  <2>1. Append(s.phase.idle, idx) \in Seq(Slots) /\ s.phase.in_flight - 1 \in Nat
    BY <1>1, <1>3
  <2>2. a \in Nat /\ b \in Nat
    <3>1. s.phase.ok \in Nat /\ s.phase.failed \in Nat
      BY Zenon, <1>1 DEF Phase
    <3> QED  BY <3>1
  <2>3. p \in Phase
    BY Zenon, <1>1, <2>1, <2>2, PhaseEcho DEF EchoPhase
  <2>4. t = WithPhase(s, p)
    BY <1>1, EchoDonePhase
  <2> HIDE DEF p, t
  <2>5. s \in WorkerState
    BY <1>1
  <2> QED  BY Zenon, <2>3, <2>4, <2>5 DEF WorkerState, WithPhase
<1>5. /\ t.slots = s.slots /\ t.retries = s.retries /\ t.free = s.free /\ t.len = s.len
      /\ t.ready = s.ready /\ t.at = s.at /\ t.starts = s.starts
      /\ t.phase.kind = "Echo" /\ t.phase.in_flight = s.phase.in_flight - 1
      /\ t.phase.idle = Append(s.phase.idle, idx) /\ t.phase.slots = s.phase.slots
  BY Zenon, <1>1 DEF WorkerState, Phase, EchoDone
<1> HIDE DEF t
<1>6. \A i \in Slots : Busy(t, i) <=> Busy(s, i)
  BY <1>5 DEF Busy, Retried
<1>7. EchoInv(t, {})
  <2>1. BusySlots(t) \cup {} = BusySlots(s)
    BY <1>6 DEF BusySlots
  <2>2. idx \notin Range(s.phase.idle)
    BY <1>2 DEF EchoInv
  <2>3. IsInjective(t.phase.idle) /\ Range(t.phase.idle) = Range(s.phase.idle) \cup {idx}
    BY <1>1, <1>2, <1>5, <2>2, RangeAppend DEF EchoInv
  <2>4. \A i \in Slots : i \in Range(t.phase.idle)
                           <=> t.slots[i].state # "vacant" /\ ~Busy(t, i) /\ i \notin {}
    BY <1>2, <1>5, <1>6, <2>3 DEF EchoInv
  <2>5. t.phase.in_flight = Cardinality(BusySlots(t) \cup {}) /\ t.phase.in_flight <= t.phase.slots
    BY <1>1, <1>2, <1>3, <1>5, <2>1 DEF EchoInv
  <2> QED  BY <2>3, <2>4, <2>5 DEF EchoInv
<1>8. SlotsInv(t)
  BY <1>5 DEF Inv, SlotsInv, FreeInv, InState
<1>9. DialsInv(t, 0)
  <2>1. DialsInv(s, n) /\ ControlInv(s)
    BY DEF Inv
  <2>2. DialsFor(s, "RedialEcho") /\ s.at # "redialing"
    BY Zenon, <1>1, <2>1 DEF DialsInv, ControlInv
  <2>3. DialsFor(t, "RedialEcho")
    <3>1. \A i \in Slots : s.slots[i].state = "connecting" => s.slots[i].dial.purpose = "RedialEcho"
      BY Zenon, <2>2 DEF DialsFor
    <3>2. DialsKept(s, t, "RedialEcho")
      BY Zenon, <1>5, <3>1 DEF DialsKept
    <3> QED  BY Zenon, <2>2, <3>2, DialsForKept
  <2> QED  BY Zenon, <1>5, <2>2, <2>3 DEF DialsInv, Redialing, Quiet
<1>10. ControlInv(t)
  BY <1>5 DEF Inv, ControlInv
<1>11. WorkerInv(t)
  BY <1>4, <1>5, <1>7, <1>8, <1>9, <1>10 DEF WorkerInv, Inv
<1> QED  BY <1>11 DEF t

-----------------------------------------------------------------------------
(* One slot changes. *)

One(c, st) == IF c.state = st THEN 1 ELSE 0

(* How the number of connections in a state changes when one slot changes. *)
LEMMA CardInState ==
  ASSUME SetFacts, NEW s \in WorkerState, NEW t, NEW idx \in Slots, NEW c, NEW st,
         t.slots = [s.slots EXCEPT ![idx] = c]
  PROVE  /\ InState(t, st) = IF c.state = st THEN InState(s, st) \cup {idx}
                             ELSE InState(s, st) \ {idx}
         /\ Cardinality(InState(t, st))
              = Cardinality(InState(s, st)) + One(c, st) - One(s.slots[idx], st)
         /\ Cardinality(InState(t, st)) \in Nat /\ Cardinality(InState(s, st)) \in Nat
<1>1. s.slots \in [Slots -> Conn]
  BY WorkerTypes
<1>2. InState(t, st) = IF c.state = st THEN InState(s, st) \cup {idx}
                       ELSE InState(s, st) \ {idx}
  BY <1>1 DEF InState
<1>3. /\ InState(s, st) \in SUBSET Slots /\ InState(t, st) \in SUBSET Slots
      /\ idx \in InState(s, st) <=> s.slots[idx].state = st
  BY DEF InState
<1>4. Cardinality(InState(t, st)) \in Nat /\ Cardinality(InState(s, st)) \in Nat
  BY <1>3, SlotsFinite
<1>5. CASE c.state = st /\ s.slots[idx].state = st
  <2>1. InState(t, st) = InState(s, st)
    BY <1>2, <1>3, <1>5
  <2>2. One(c, st) = One(s.slots[idx], st) /\ One(c, st) \in Nat
    BY <1>5 DEF One
  <2>3. Cardinality(InState(t, st))
          = Cardinality(InState(s, st)) + One(c, st) - One(s.slots[idx], st)
    BY SMTT(30), <1>4, <2>1, <2>2
  <2> QED  BY Zenon, <1>2, <1>4, <2>3
<1>6. CASE c.state = st /\ s.slots[idx].state # st
  <2>1. InState(t, st) = InState(s, st) \cup {idx}
    BY <1>2, <1>6
  <2>2. Cardinality(InState(t, st)) = Cardinality(InState(s, st)) + 1
    BY <1>3, <1>6, <2>1, CardAdd
  <2> QED  BY <1>2, <1>4, <1>6, <2>2 DEF One
<1>7. CASE c.state # st /\ s.slots[idx].state = st
  <2>1. InState(t, st) = InState(s, st) \ {idx}
    BY <1>2, <1>7
  <2>2. Cardinality(InState(t, st)) = Cardinality(InState(s, st)) - 1
    BY <1>3, <1>7, <2>1, CardDel
  <2> QED  BY <1>2, <1>4, <1>7, <2>2 DEF One
<1>8. CASE c.state # st /\ s.slots[idx].state # st
  <2>1. InState(t, st) = InState(s, st)
    BY <1>2, <1>3, <1>8
  <2>2. One(c, st) = One(s.slots[idx], st) /\ One(c, st) \in Nat
    BY <1>8 DEF One
  <2>3. Cardinality(InState(t, st))
          = Cardinality(InState(s, st)) + One(c, st) - One(s.slots[idx], st)
    BY SMTT(30), <1>4, <2>1, <2>2
  <2> QED  BY Zenon, <1>2, <1>4, <2>3
<1> QED  BY <1>5, <1>6, <1>7, <1>8

(* The slots keep their invariant when an occupied one is replaced and the ready
   counter follows. *)
LEMMA SlotsInvUpdate ==
  ASSUME SetFacts, NEW s \in WorkerState, SlotsInv(s), NEW t, NEW idx \in Slots, NEW c,
         SlotInv(c, idx), s.slots[idx].state # "vacant", c.state # "vacant",
         t.slots = [s.slots EXCEPT ![idx] = c], t.free = s.free, t.len = s.len,
         t.ready = s.ready + One(c, "ready") - One(s.slots[idx], "ready")
  PROVE  SlotsInv(t)
<1>1. s.slots \in [Slots -> Conn]
  BY WorkerTypes
<1>2. \A i \in Slots : SlotInv(t.slots[i], i)
  BY <1>1 DEF SlotsInv
<1>3. FreeInv(t)
  BY <1>1 DEF SlotsInv, FreeInv
<1>4. t.ready = Cardinality(InState(t, "ready"))
  BY CardInState DEF SlotsInv
<1> QED  BY <1>2, <1>3, <1>4 DEF SlotsInv

-----------------------------------------------------------------------------
(* Dials. *)

(* dial_failed_job, when attempts are left: the job waits among the retries. *)
LEMMA RetryLater ==
  ASSUME SetFacts, NEW s, NEW j, Holding(s, j), j.attempt < DialRetries
  PROVE  WorkerInv([s EXCEPT !.retries = Append(@, [j EXCEPT !.attempt = @ + 1])])
<1> DEFINE k == [j EXCEPT !.attempt = @ + 1]
           t == [s EXCEPT !.retries = Append(@, k)]
           H == IF j.purpose = "RedialEcho" THEN {j.slot} ELSE {}
<1>1. /\ k \in Job /\ k.purpose = j.purpose /\ k.slot = j.slot
  BY WorkerAssumption DEF Holding, Job
<1>2. Inv(s, H, 1) /\ s \in WorkerState /\ s.retries \in Seq(Job)
  BY WorkerTypes DEF Holding, Inv
<1>3. /\ Append(s.retries, k) \in Seq(Job) /\ Len(s.retries) \in Nat
      /\ Len(t.retries) = Len(s.retries) + 1
      /\ \A m \in 1..Len(s.retries) : t.retries[m] = s.retries[m]
      /\ t.retries[Len(s.retries) + 1] = k
  BY <1>1, <1>2 DEF WorkerState
<1>4. t \in WorkerState
  BY Zenon, <1>2, <1>3 DEF WorkerState
<1>5. /\ t.slots = s.slots /\ t.free = s.free /\ t.len = s.len /\ t.ready = s.ready
      /\ t.at = s.at /\ t.starts = s.starts /\ t.phase = s.phase /\ t.todo = s.todo
      /\ t.broken = s.broken
  BY <1>2 DEF WorkerState
<1> HIDE DEF k, t
<1>6. \A i : Retried(t, i) <=> Retried(s, i) \/ i = j.slot
  <2> TAKE i
  <2>1. \A m \in 1..Len(t.retries) : m \in 1..Len(s.retries) \/ m = Len(s.retries) + 1
    BY <1>3
  <2>2. /\ \A m \in 1..Len(s.retries) : m \in 1..Len(t.retries)
        /\ Len(s.retries) + 1 \in 1..Len(t.retries)
    BY <1>3
  <2> QED  BY Zenon, <1>1, <1>3, <2>1, <2>2 DEF Retried
<1>7. SlotsInv(t)
  BY <1>2, <1>5 DEF Inv, SlotsInv, FreeInv, InState
<1>8. Dials(t) = Dials(s) + 1
  <2>1. InState(s, "connecting") \in SUBSET Slots /\ InState(t, "connecting") = InState(s, "connecting")
    BY <1>5 DEF InState
  <2> QED  BY <1>3, <2>1, SlotsFinite DEF Dials
<1>9. DialsFor(s, j.purpose) /\ (j.purpose # "New" => ~Retried(s, j.slot))
  BY Zenon, <1>2 DEF Holding, Inv, DialsInv
<1>10. DialsFor(t, j.purpose)
  <2>1. \A m \in 1..Len(t.retries) : m \in 1..Len(s.retries) \/ m = Len(s.retries) + 1
    BY <1>3
  <2>2. \A m \in 1..Len(t.retries) : t.retries[m].purpose = j.purpose
    BY Zenon, <1>1, <1>3, <1>9, <2>1 DEF DialsFor
  <2>3. j.purpose = "New" => \A m \in 1..Len(t.retries) : t.retries[m].slot = 0
    BY Zenon, <1>1, <1>3, <1>9, <2>1 DEF DialsFor, Holding
  <2>4. ASSUME j.purpose # "New", NEW m \in 1..Len(t.retries)
        PROVE  t.retries[m].slot \in Slots /\ t.slots[t.retries[m].slot].state = "broken"
    <3>1. CASE m \in 1..Len(s.retries)
      BY Zenon, <1>3, <1>5, <1>9, <2>4, <3>1 DEF DialsFor
    <3>2. CASE m = Len(s.retries) + 1
      BY Zenon, <1>1, <1>3, <1>5, <2>4, <3>2 DEF Holding
    <3> QED  BY <2>1, <3>1, <3>2
  <2>5. ASSUME j.purpose # "New", NEW m \in 1..Len(t.retries), NEW n \in 1..Len(t.retries),
               t.retries[m].slot = t.retries[n].slot
        PROVE  m = n
    <3>1. CASE m \in 1..Len(s.retries) /\ n \in 1..Len(s.retries)
      BY Zenon, <1>3, <1>9, <2>5, <3>1 DEF DialsFor
    <3>2. CASE m = Len(s.retries) + 1 /\ n \in 1..Len(s.retries)
      BY Zenon, <1>1, <1>3, <1>9, <2>5, <3>2 DEF Retried
    <3>3. CASE n = Len(s.retries) + 1 /\ m \in 1..Len(s.retries)
      BY Zenon, <1>1, <1>3, <1>9, <2>5, <3>3 DEF Retried
    <3> QED  BY <2>1, <3>1, <3>2, <3>3
  <2> QED  BY Zenon, <1>5, <1>9, <2>2, <2>3, <2>4, <2>5 DEF DialsFor
<1>11. DialsInv(t, 0)
  <2>1. /\ Dials(s) \in Nat /\ s.starts \in Nat /\ s.broken \in Nat /\ s.phase.redials \in Nat
        /\ Cardinality(s.todo) \in Nat /\ ~Quiet(s)
    <3>1. InState(s, "connecting") \in SUBSET Slots
      BY DEF InState
    <3>2. Dials(s) \in Nat
      BY <1>3, <3>1, SlotsFinite DEF Dials
    <3>3. s.starts \in Nat /\ s.broken \in Nat /\ s.phase \in Phase /\ s.todo \in SUBSET Slots
      BY <1>2, WorkerTypes
    <3>4. s.phase.redials \in Nat /\ Cardinality(s.todo) \in Nat
      BY Zenon, <3>3, SlotsFinite DEF Phase
    <3>5. ~Quiet(s)
      BY <1>2 DEF Holding, Quiet, Redialing, Inv, ControlInv
    <3> QED  BY <3>2, <3>3, <3>4, <3>5
  <2>2. DialsInv(s, 1) /\ ControlInv(s)
    BY <1>2 DEF Inv
  <2>3. s.phase.kind = "Dial" => j.purpose = "New" /\ s.phase.active = s.starts + Dials(s) + 1
    BY <2>2 DEF Holding, DialsInv, Redialing, ControlInv
  <2>4. s.phase.kind = "Echo" => j.purpose = "RedialEcho"
    BY <2>2 DEF Holding, Redialing, ControlInv
  <2>5. Redialing(s) => j.purpose = "RedialRate"
    BY <2>2 DEF Holding, Redialing, ControlInv
  <2>6. s.at = "redialing" => /\ t.todo \subseteq InState(t, "broken")
                              /\ \A i \in t.todo : ~Retried(t, i)
    BY <1>5, <1>6, <2>2, <2>5 DEF DialsInv, InState, Holding, Redialing
  <2> QED  BY SMTT(30), <1>5, <1>8, <1>10, <2>1, <2>2, <2>3, <2>4, <2>5, <2>6 DEF DialsInv, Redialing, Quiet
<1>12. t.phase.kind = "Echo" => EchoInv(t, {})
  <2> SUFFICES ASSUME s.phase.kind = "Echo"  PROVE  EchoInv(t, {})
    BY <1>5
  <2>1. EchoInv(s, {j.slot}) /\ ControlInv(s) /\ j.slot \in Slots /\ j.purpose = "RedialEcho"
    BY <1>2 DEF Inv, Holding, ControlInv, Redialing
  <2>2. \A i \in Slots : Busy(t, i) <=> Busy(s, i) \/ i = j.slot
    BY <1>5, <1>6 DEF Busy
  <2>3. BusySlots(t) \cup {} = BusySlots(s) \cup {j.slot}
    BY <2>1, <2>2 DEF BusySlots
  <2> QED  BY Zenon, <1>5, <2>1, <2>2, <2>3 DEF EchoInv
<1>13. t.phase.kind # "Echo" => NoEcho(t)
  BY <1>2, <1>5 DEF Inv, NoEcho
<1>14. ControlInv(t)
  BY <1>2, <1>5 DEF Inv, ControlInv
<1>15. WorkerInv(t)
  BY <1>4, <1>7, <1>11, <1>12, <1>13, <1>14 DEF WorkerInv, Inv
<1> QED  BY <1>15 DEF t, k

(* A change of the phase's counters alone, outside BenchEcho. *)
LEMMA PhaseOnly ==
  ASSUME SetFacts, NEW s, NEW H, NEW n, Inv(s, H, n), NEW p \in Phase, NEW t,
         t = [s EXCEPT !.phase = p],
         p.kind = s.phase.kind, p.kind # "Echo",
         p.kind = "Dial" => p.active = s.starts + Dials(s),
         p.kind = "RatePrep" => p.redials >= Dials(s),
         n \in Nat
  PROVE  WorkerInv(t)
<1>1. s \in WorkerState /\ s.phase.kind # "Echo"
  BY DEF Inv
<1>2. t \in WorkerState
  BY <1>1 DEF WorkerState
<1>3. /\ t.slots = s.slots /\ t.free = s.free /\ t.len = s.len /\ t.ready = s.ready
      /\ t.at = s.at /\ t.starts = s.starts /\ t.phase = p /\ t.todo = s.todo
      /\ t.broken = s.broken /\ t.retries = s.retries
  BY <1>1 DEF WorkerState
<1>4. SlotsInv(t)
  BY <1>3 DEF Inv, SlotsInv, FreeInv, InState
<1>5. NoEcho(t) /\ ControlInv(t)
  BY <1>1, <1>3 DEF Inv, NoEcho, ControlInv
<1>6. Dials(t) = Dials(s) /\ Dials(s) \in Int /\ s.broken \in Nat /\ Cardinality(s.todo) \in Nat
  <2>1. InState(s, "connecting") \in SUBSET Slots /\ InState(t, "connecting") = InState(s, "connecting")
    BY <1>3 DEF InState
  <2>2. Len(s.retries) \in Nat
    BY <1>1, WorkerTypes
  <2> QED  BY <1>1, <1>3, <2>1, <2>2, SlotsFinite, WorkerTypes DEF Dials
<1>7. \A q : DialsFor(t, q) <=> DialsFor(s, q)
  BY <1>3 DEF DialsFor
<1>8. \A i : Retried(t, i) <=> Retried(s, i)
  BY <1>3 DEF Retried
<1>9. DialsInv(s, n)
  BY DEF Inv
<1>10. DialsInv(t, 0)
  <2>1. t.phase.kind = "Dial" => DialsFor(t, "New") /\ t.phase.active = t.starts + Dials(t) + 0
    <3>1. t.phase.kind = "Dial" => DialsFor(t, "New")
      BY <1>3, <1>7, <1>9 DEF DialsInv
    <3>2. s.starts \in Nat
      BY <1>1, WorkerTypes
    <3> QED  BY <1>3, <1>6, <3>1, <3>2
  <2>2. /\ Redialing(t) => DialsFor(t, "RedialRate")
        /\ Quiet(t) => t.retries = <<>> /\ InState(t, "connecting") = {}
    BY <1>3, <1>7, <1>9 DEF DialsInv, Redialing, Quiet, InState
  <2>3. t.phase.kind = "RatePrep" => t.phase.redials >= Dials(t) + 0
    BY <1>3, <1>6
  <2>4. t.at = "redialing" =>
          /\ t.todo \subseteq InState(t, "broken") /\ \A i \in t.todo : ~Retried(t, i)
          /\ t.broken >= Cardinality(t.todo) + Dials(t) + 0
    BY <1>3, <1>6, <1>8, <1>9 DEF DialsInv, InState
  <2> QED  BY <1>1, <1>3, <2>1, <2>2, <2>3, <2>4 DEF DialsInv
<1> QED  BY <1>1, <1>2, <1>3, <1>4, <1>5, <1>10 DEF WorkerInv, Inv

(* dial_failed_job keeps the invariant, for a job that is held nowhere else. *)
LEMMA DialFailedJobInv ==
  ASSUME SetFacts, NEW s, NEW j, Holding(s, j)
  PROVE  WorkerInv(DialFailedJob(s, j))
<1> DEFINE H == IF j.purpose = "RedialEcho" THEN {j.slot} ELSE {}
<1>0. /\ Inv(s, H, 1) /\ s \in WorkerState /\ s.phase \in Phase /\ DialsInv(s, 1)
      /\ Dials(s) \in Nat /\ s.starts \in Nat
  <2>1. Inv(s, H, 1) /\ s \in WorkerState /\ DialsInv(s, 1)
    BY DEF Holding, Inv
  <2>2. InState(s, "connecting") \in SUBSET Slots /\ Len(s.retries) \in Nat
    BY <2>1, WorkerTypes DEF InState
  <2>3. Cardinality(InState(s, "connecting")) \in Nat
    BY Zenon, <2>2, SlotsFinite
  <2>4. s.phase \in Phase /\ s.starts \in Nat
    BY Zenon, <2>1, WorkerTypes
  <2>5. Dials(s) \in Nat
    BY <2>2, <2>3 DEF Dials
  <2> QED  BY Zenon, <2>1, <2>4, <2>5
<1>1. CASE j.attempt < DialRetries
  BY <1>1, RetryLater DEF DialFailedJob
<1>2. CASE ~(j.attempt < DialRetries) /\ j.purpose = "New"
  <2> DEFINE p == [s.phase EXCEPT !.active = @ - 1, !.failed = @ + 1]
  <2>1. s.phase.kind = "Dial" /\ s.phase.active = s.starts + Dials(s) + 1
    BY <1>0, <1>2 DEF Holding, DialsInv
  <2>2. p \in Phase /\ p.kind = "Dial" /\ p.active = s.starts + Dials(s)
    <3>1. s.phase.active - 1 = s.starts + Dials(s) /\ s.phase.active - 1 \in Nat
      BY <1>0, <2>1
    <3>2. PICK a \in Nat : a = s.phase.active - 1
      BY <3>1
    <3>3. PICK b \in Nat : b = s.phase.failed + 1
      BY SMTT(30), <1>0 DEF Phase
    <3>4. p = [s.phase EXCEPT !.active = a, !.failed = b] /\ s.phase \in Phase
      BY <1>0, <3>2, <3>3
    <3> HIDE DEF p
    <3> QED  BY Zenon, <2>1, <3>1, <3>2, <3>4 DEF Phase
  <2>3. DialFailedJob(s, j) = [s EXCEPT !.phase = p]
    BY Zenon, <1>0, <1>2, <2>1 DEF DialFailedJob, WorkerState, Phase
  <2> HIDE DEF p
  <2> QED  BY SMTT(30), <1>0, <2>1, <2>2, <2>3, PhaseOnly
<1>3. CASE ~(j.attempt < DialRetries) /\ j.purpose = "RedialEcho"
  <2>1. /\ s.phase.kind = "Echo" /\ j.slot \in Slots /\ s.slots[j.slot].state = "broken"
        /\ ~Retried(s, j.slot) /\ Inv(s, {j.slot}, 1)
    BY <1>3 DEF Holding
  <2>2. DialFailedJob(s, j) = EchoDone(s, j.slot, FALSE)
    <3>1. j.slot # 0
      BY <2>1 DEF Slots
    <3> QED  BY <1>3, <3>1 DEF DialFailedJob
  <2>3. ~Busy(s, j.slot)
    BY <2>1 DEF Busy, Carries
  <2> QED  BY Zenon, <2>1, <2>2, <2>3, EchoDoneInv
<1>4. CASE ~(j.attempt < DialRetries) /\ j.purpose = "RedialRate" /\ s.phase.kind = "RatePrep"
  <2> DEFINE p == [s.phase EXCEPT !.redials = @ - 1]
  <2>1. s.phase.redials \in Nat /\ s.phase.redials >= Dials(s) + 1
    BY <1>0, <1>4 DEF DialsInv, Phase
  <2>2. p \in Phase /\ p.kind = "RatePrep" /\ p.redials >= Dials(s)
    <3>1. s.phase.redials - 1 \in Nat /\ s.phase.redials - 1 >= Dials(s)
      BY <1>0, <2>1
    <3> QED  BY <1>0, <1>4, <3>1, PhaseRedials
  <2>3. DialFailedJob(s, j) = [s EXCEPT !.phase = p]
    BY <1>0, <1>4 DEF DialFailedJob, WorkerState, Phase
  <2> HIDE DEF p
  <2> QED  BY <1>0, <1>4, <2>2, <2>3, PhaseOnly
<1>5. CASE ~(j.attempt < DialRetries) /\ j.purpose = "RedialRate" /\ s.phase.kind # "RatePrep"
  <2>1. s.at = "redialing" /\ s.phase.kind = "Idle"
    BY <1>0, <1>5 DEF Holding, Redialing, Inv, ControlInv
  <2>2. DialFailedJob(s, j) = s
    BY <1>5, <2>1 DEF DialFailedJob
  <2>3. s = [s EXCEPT !.phase = s.phase]
    BY <1>0 DEF WorkerState
  <2> QED  BY SMTT(30), <1>0, <2>1, <2>2, <2>3, PhaseOnly
<1>6. j.purpose \in {"New", "RedialEcho", "RedialRate"}
  BY DEF Holding
<1> QED  BY <1>1, <1>2, <1>3, <1>4, <1>5, <1>6

(* A connection stops being dialed: the handler holds its dial. *)
LEMMA LeaveConnecting ==
  ASSUME SetFacts, NEW s, WorkerInv(s), NEW idx \in Slots, s.slots[idx].state = "connecting",
         NEW t \in WorkerState, SlotsInv(t), NEW c, t.slots = [s.slots EXCEPT ![idx] = c],
         c.state # "connecting",
         c.state = "ready" => c.streams["Echo"] = 0 /\ c.queued = <<>>,
         t.retries = s.retries, t.phase = s.phase, t.at = s.at, t.starts = s.starts,
         t.todo = s.todo, t.broken = s.broken
  PROVE  /\ Inv(t, {idx}, 1) /\ ~Retried(t, idx) /\ ~Busy(t, idx)
         /\ s.at = "redialing" => idx \notin t.todo
<1>1. /\ s \in WorkerState /\ DialsInv(s, 0) /\ ControlInv(s)
      /\ s.slots \in [Slots -> Conn] /\ s.phase \in Phase
      /\ s.phase.kind \in {"Idle", "Dial", "Echo", "RatePrep", "Rate"}
  BY Zenon, WorkerTypes DEF WorkerInv, Inv, Phase
<1>2. ~Quiet(s) /\ \E p \in Purposes : DialsFor(s, p)
  BY <1>1 DEF DialsInv, Redialing, Quiet, InState, Purposes
<1>3. ~Retried(s, idx)
  <2>1. PICK p \in Purposes : DialsFor(s, p)
    BY <1>2
  <2>2. 0 \notin Slots
    BY DEF Slots
  <2> QED  BY <2>1, <2>2 DEF DialsFor, Retried
<1>4. s.at = "redialing" => idx \notin t.todo
  BY <1>1 DEF DialsInv, InState
<1>5. \A i : Retried(t, i) <=> Retried(s, i)
  BY DEF Retried
<1>6. \A p : DialsFor(s, p) => DialsFor(t, p)
  <2> SUFFICES ASSUME NEW p, DialsFor(s, p)  PROVE  DialsFor(t, p)
    OBVIOUS
  <2>1. t.slots[idx] = c /\ \A i \in Slots : i # idx => t.slots[i] = s.slots[i]
    BY Zenon, <1>1
  <2>2. \A i \in Slots : t.slots[i].state = "connecting" => t.slots[i].dial.purpose = p
    BY Zenon, <2>1 DEF DialsFor
  <2>3. \A i \in Slots : s.slots[i].state = "broken" /\ Retried(s, i)
                         => t.slots[i].state = "broken"
    BY Zenon, <1>3, <2>1
  <2>4. DialsKept(s, t, p)
    BY Zenon, <2>2, <2>3 DEF DialsKept
  <2> QED  BY Zenon, <2>4, DialsForKept
<1>7. Dials(t) = Dials(s) - 1 /\ Dials(s) \in Nat
  <2>1. Len(s.retries) \in Nat
    BY <1>1, WorkerTypes
  <2>2. One(c, "connecting") = 0 /\ One(s.slots[idx], "connecting") = 1
    BY DEF One
  <2> QED  BY SMTT(30), <1>1, <2>1, <2>2, CardInState DEF Dials
<1>8. DialsInv(t, 1)
  <2>1. /\ s.phase.kind = "Dial" => DialsFor(t, "New") /\ t.phase.active = t.starts + Dials(t) + 1
        /\ s.phase.kind = "RatePrep" => t.phase.redials >= Dials(t) + 1
    <3>1. s.starts \in Nat /\ s.phase.redials \in Nat
      BY <1>1, WorkerTypes DEF Phase
    <3> QED  BY SMTT(30), <1>1, <1>6, <1>7, <3>1 DEF DialsInv
  <2>2. s.at = "redialing" => /\ t.todo \subseteq InState(t, "broken")
                              /\ \A i \in t.todo : ~Retried(t, i)
    BY Zenon, <1>1, <1>4, <1>5 DEF DialsInv, InState
  <2>3. s.at = "redialing" => t.broken >= Cardinality(t.todo) + Dials(t) + 1
    <3>1. s.broken \in Nat /\ Cardinality(s.todo) \in Nat
      BY <1>1, WorkerTypes, SlotsFinite
    <3> QED  BY <1>1, <1>7, <3>1 DEF DialsInv
  <2>4. ~Quiet(t)
    BY <1>2 DEF Quiet
  <2> QED  BY Zenon, <1>1, <1>6, <2>1, <2>2, <2>3, <2>4 DEF DialsInv, Redialing
<1>9. ~Busy(t, idx) /\ \A i \in Slots \ {idx} : Busy(t, i) <=> Busy(s, i)
  BY <1>1, <1>3, <1>5 DEF Busy, Carries
<1>10. s.phase.kind = "Echo" => EchoInv(t, {idx})
  <2> SUFFICES ASSUME s.phase.kind = "Echo"  PROVE  EchoInv(t, {idx})
    OBVIOUS
  <2>1. EchoInv(s, {})
    BY DEF WorkerInv, Inv
  <2>2. Busy(s, idx)
    BY DEF Busy, Carries
  <2>3. BusySlots(t) \cup {idx} = BusySlots(s) \cup {}
    BY <1>9, <2>2 DEF BusySlots
  <2>4. \A i \in Slots : i \in Range(t.phase.idle)
                           <=> t.slots[i].state # "vacant" /\ ~Busy(t, i) /\ i \notin {idx}
    BY Zenon, <1>1, <1>9, <2>1, <2>2 DEF EchoInv
  <2> QED  BY Zenon, <2>1, <2>3, <2>4 DEF EchoInv
<1>11. s.phase.kind # "Echo" => NoEcho(t)
  BY <1>1 DEF WorkerInv, Inv, NoEcho
<1>12. ControlInv(t)
  BY <1>1 DEF ControlInv
<1> QED  BY Zenon, <1>3, <1>4, <1>5, <1>8, <1>9, <1>10, <1>11, <1>12 DEF Inv

(* A slot that becomes vacant is on the free list once. *)
LEMMA SlotFreed ==
  ASSUME NEW s \in WorkerState, SlotsInv(s), NEW t, NEW idx \in Slots,
         s.slots[idx].state = "connecting",
         t.slots = [s.slots EXCEPT ![idx] = NoConn], t.free = Append(s.free, idx),
         t.len = s.len, t.ready = s.ready
  PROVE  SlotsInv(t)
<1>1. s.slots \in [Slots -> Conn] /\ s.free \in Seq(Slots) /\ s.len \in 0..MaxSlots
  BY WorkerTypes
<1>2. \A i \in Slots : SlotInv(t.slots[i], i)
  BY <1>1, EmptyConns DEF SlotsInv
<1>3. FreeInv(t)
  <2>1. idx \notin Range(s.free) /\ idx <= s.len /\ FreeInv(s)
    BY <1>1 DEF SlotsInv, FreeInv, Slots
  <2>2. IsInjective(t.free) /\ Range(t.free) = Range(s.free) \cup {idx}
    BY <1>1, <2>1, RangeAppend DEF FreeInv
  <2>3. NoConn.state = "vacant"
    BY DEF NoConn
  <2> QED  BY <1>1, <2>1, <2>2, <2>3 DEF FreeInv
<1>4. t.ready = Cardinality(InState(t, "ready"))
  <2>1. InState(t, "ready") = InState(s, "ready")
    BY <1>1 DEF InState, NoConn
  <2> QED  BY <2>1 DEF SlotsInv
<1> QED  BY <1>2, <1>3, <1>4 DEF SlotsInv

(* dial_failed keeps the invariant, for a new connection and for a redial. *)
LEMMA DialFailedInv ==
  ASSUME SetFacts, NEW s, WorkerInv(s), NEW idx \in Slots, s.slots[idx].state = "connecting"
  PROVE  WorkerInv(DialFailed(s, idx))
<1> DEFINE j == s.slots[idx].dial
<1>1. /\ s \in WorkerState /\ SlotsInv(s) /\ DialsInv(s, 0) /\ ControlInv(s)
      /\ s.slots \in [Slots -> Conn] /\ s.free \in Seq(Slots) /\ s.phase \in Phase
  BY WorkerTypes DEF WorkerInv, Inv
<1>2. /\ j \in Job /\ j.slot = idx /\ j # NoJob
      /\ j.purpose \in {"New", "RedialEcho", "RedialRate"}
  <2>1. SlotInv(s.slots[idx], idx)
    BY <1>1 DEF SlotsInv
  <2>2. j \in Job /\ j.slot = idx
    BY <2>1 DEF SlotInv
  <2>3. NoJob \notin Job
    BY DEF NoJob, Job, Purposes
  <2> QED  BY <2>2, <2>3 DEF Job, Purposes
<1>3. /\ j.purpose = "New" => s.phase.kind = "Dial"
      /\ j.purpose = "RedialEcho" => s.phase.kind = "Echo"
      /\ j.purpose = "RedialRate" => Redialing(s)
  <2>1. s.phase.kind \in {"Idle", "Dial", "Echo", "RatePrep", "Rate"}
    BY <1>1 DEF Phase
  <2> QED  BY Zenon, <1>1, <1>2, <2>1 DEF DialsInv, DialsFor, Redialing, Quiet, InState
<1>4. CASE j.purpose = "New"
  <2> DEFINE k == [j EXCEPT !.slot = 0]
             t == [s EXCEPT !.slots[idx] = NoConn, !.free = Append(@, idx)]
  <2>1. k \in Job /\ k.purpose = "New" /\ k.slot = 0
    BY <1>2, <1>4, WorkerAssumption DEF Job
  <2>2. NoConn \in Conn /\ NoConn.state = "vacant"
    BY EmptyConns
  <2>3. t \in WorkerState
    <3>1. PICK x \in [Slots -> Conn] : x = [s.slots EXCEPT ![idx] = NoConn]
      BY Zenon, <1>1, <2>2
    <3>2. PICK f \in Seq(Slots) : f = Append(s.free, idx)
      BY Zenon, <1>1, SeqAppend
    <3>3. t = [s EXCEPT !.slots = x, !.free = f] /\ s \in WorkerState
      BY <1>1, <3>1, <3>2
    <3> HIDE DEF t
    <3> QED  BY Zenon, <3>3 DEF WorkerState
  <2>4. /\ t.slots = [s.slots EXCEPT ![idx] = NoConn] /\ t.free = Append(s.free, idx)
        /\ t.len = s.len /\ t.ready = s.ready /\ t.retries = s.retries /\ t.phase = s.phase
        /\ t.at = s.at /\ t.starts = s.starts /\ t.todo = s.todo /\ t.broken = s.broken
    BY <1>1 DEF WorkerState
  <2>5. DialFailed(s, idx) = DialFailedJob(t, k)
    BY <1>2, <1>4 DEF DialFailed
  <2> HIDE DEF k, t
  <2>6. SlotsInv(t)
    BY <1>1, <2>4, SlotFreed
  <2>7. Inv(t, {idx}, 1)
    BY Zenon, <2>2, <2>3, <2>4, <2>6, LeaveConnecting
  <2>8. Holding(t, k)
    BY <1>3, <1>4, <2>1, <2>4, <2>7 DEF Holding, Inv
  <2> QED  BY <2>5, <2>8, DialFailedJobInv
<1>5. CASE j.purpose # "New"
  <2> DEFINE t == [s EXCEPT !.slots[idx] = BrokenConn]
  <2>1. BrokenConn \in Conn /\ BrokenConn.state = "broken" /\ SlotInv(BrokenConn, idx)
    BY EmptyConns
  <2>2. t \in WorkerState
    <3>1. PICK x \in [Slots -> Conn] : x = [s.slots EXCEPT ![idx] = BrokenConn]
      BY Zenon, <1>1, <2>1
    <3>2. t = [s EXCEPT !.slots = x] /\ s \in WorkerState
      BY <1>1, <3>1
    <3> HIDE DEF t
    <3> QED  BY <3>2 DEF WorkerState
  <2>3. /\ t.slots = [s.slots EXCEPT ![idx] = BrokenConn] /\ t.free = s.free
        /\ t.len = s.len /\ t.ready = s.ready /\ t.retries = s.retries /\ t.phase = s.phase
        /\ t.at = s.at /\ t.starts = s.starts /\ t.todo = s.todo /\ t.broken = s.broken
    BY <1>1 DEF WorkerState
  <2>4. DialFailed(s, idx) = DialFailedJob(t, j)
    BY <1>2, <1>5 DEF DialFailed
  <2> HIDE DEF t
  <2>5. SlotsInv(t)
    <3>1. s.ready \in Nat /\ One(BrokenConn, "ready") = 0 /\ One(s.slots[idx], "ready") = 0
      BY <1>1, <2>1, WorkerTypes DEF One
    <3>2. t.ready = s.ready + One(BrokenConn, "ready") - One(s.slots[idx], "ready")
      BY <2>3, <3>1
    <3> QED  BY Zenon, <1>1, <2>1, <2>3, <3>2, SlotsInvUpdate
  <2>6. Inv(t, {idx}, 1) /\ ~Retried(t, idx) /\ (s.at = "redialing" => idx \notin t.todo)
    BY Zenon, <2>1, <2>2, <2>3, <2>5, LeaveConnecting
  <2>7. t.slots[idx].state = "broken"
    BY <1>1, <2>1, <2>3
  <2>8. Holding(t, j)
    BY Zenon, <1>2, <1>3, <1>5, <2>3, <2>6, <2>7 DEF Holding, Inv, Redialing, ControlInv
  <2> QED  BY <2>4, <2>8, DialFailedJobInv
<1> QED  BY <1>4, <1>5

(* A connection is dialed with the dial that the handler held. *)
LEMMA EnterConnecting ==
  ASSUME SetFacts, NEW s, NEW j, Holding(s, j), NEW idx \in Slots,
         j.purpose = "New" => s.slots[idx].state = "vacant",
         j.purpose # "New" => idx = j.slot,
         NEW t \in WorkerState, SlotsInv(t), NEW c, t.slots = [s.slots EXCEPT ![idx] = c],
         c.state = "connecting", c.dial.purpose = j.purpose,
         t.retries = s.retries, t.phase = s.phase, t.at = s.at, t.starts = s.starts,
         t.todo = s.todo, t.broken = s.broken
  PROVE  WorkerInv(t)
<1> DEFINE H == IF j.purpose = "RedialEcho" THEN {j.slot} ELSE {}
<1>1. /\ s \in WorkerState /\ DialsInv(s, 1) /\ ControlInv(s) /\ Inv(s, H, 1)
      /\ s.slots \in [Slots -> Conn] /\ s.phase \in Phase
      /\ j.purpose \in {"New", "RedialEcho", "RedialRate"}
  BY Zenon, WorkerTypes DEF Holding, Inv
<1>2. /\ j.purpose = "New" => s.phase.kind = "Dial"
      /\ j.purpose = "RedialEcho" => s.phase.kind = "Echo"
      /\ j.purpose = "RedialRate" => Redialing(s)
      /\ j.purpose # "New" => s.slots[idx].state = "broken" /\ ~Retried(s, idx)
      /\ s.at = "redialing" => idx \notin s.todo
  BY Zenon, <1>1 DEF Holding, ControlInv
<1>3. ~Quiet(s) /\ DialsFor(s, j.purpose)
  BY Zenon, <1>1, <1>2 DEF DialsInv, Redialing, Quiet, ControlInv
<1>4. s.slots[idx].state \in {"vacant", "broken"}
  BY <1>1, <1>2
<1>5. \A i : Retried(t, i) <=> Retried(s, i)
  BY DEF Retried
<1>s. t.slots[idx] = c /\ \A i \in Slots : i # idx => t.slots[i] = s.slots[i]
  BY Zenon, <1>1
<1>6. DialsFor(t, j.purpose)
  <2>1. \A i \in Slots : t.slots[i].state = "connecting" => t.slots[i].dial.purpose = j.purpose
    <3>1. \A i \in Slots : s.slots[i].state = "connecting" => s.slots[i].dial.purpose = j.purpose
      BY Zenon, <1>3 DEF DialsFor
    <3> QED  BY Zenon, <1>s, <3>1
  <2>2. ~Retried(s, idx)
    <3>1. 0 \notin Slots
      BY DEF Slots
    <3>2. CASE j.purpose = "New"
      BY Zenon, <1>3, <3>1, <3>2 DEF DialsFor, Retried
    <3>3. CASE j.purpose # "New"
      BY Zenon, <1>2, <3>3
    <3> QED  BY <3>2, <3>3
  <2>3. \A i \in Slots : s.slots[i].state = "broken" /\ Retried(s, i)
                         => t.slots[i].state = "broken"
    BY Zenon, <1>s, <2>2
  <2>4. DialsKept(s, t, j.purpose)
    BY Zenon, <2>1, <2>3 DEF DialsKept
  <2> QED  BY Zenon, <1>3, <2>4, DialsForKept
<1>7. Dials(t) = Dials(s) + 1 /\ Dials(s) \in Nat
  <2>1. Len(s.retries) \in Nat
    BY Zenon, <1>1, WorkerTypes, SeqLen
  <2>2. One(c, "connecting") = 1 /\ One(s.slots[idx], "connecting") = 0
    BY Zenon, <1>4 DEF One
  <2>3. /\ Cardinality(InState(t, "connecting"))
             = Cardinality(InState(s, "connecting")) + One(c, "connecting")
                 - One(s.slots[idx], "connecting")
        /\ Cardinality(InState(s, "connecting")) \in Nat
    BY <1>1, CardInState
  <2>4. Dials(t) = Len(s.retries) + Cardinality(InState(t, "connecting"))
    BY Zenon DEF Dials
  <2> QED  BY <2>1, <2>2, <2>3, <2>4 DEF Dials
<1>8. DialsInv(t, 0)
  <2>1. /\ s.phase.kind = "Dial" => DialsFor(t, "New") /\ t.phase.active = t.starts + Dials(t) + 0
        /\ s.phase.kind = "RatePrep" => t.phase.redials >= Dials(t) + 0
    <3>1. s.starts \in Nat /\ s.phase.redials \in Nat
      BY Zenon, <1>1, WorkerTypes DEF Phase
    <3>2. s.phase.kind = "Dial" => j.purpose = "New"
      BY <1>1, <1>2 DEF Redialing, ControlInv
    <3>3. /\ s.phase.kind = "Dial" => s.phase.active = s.starts + Dials(s) + 1
          /\ s.phase.kind = "RatePrep" => s.phase.redials >= Dials(s) + 1
      BY Zenon, <1>1 DEF DialsInv
    <3>4. /\ s.phase.kind = "Dial" => s.phase.active = s.starts + Dials(t) + 0
          /\ s.phase.kind = "RatePrep" => s.phase.redials >= Dials(t) + 0
      BY <1>7, <3>1, <3>3
    <3> QED  BY Zenon, <1>6, <3>2, <3>4
  <2>2. s.at = "redialing" => /\ t.todo \subseteq InState(t, "broken")
                              /\ \A i \in t.todo : ~Retried(t, i)
    <3> SUFFICES ASSUME s.at = "redialing", NEW i \in t.todo
                 PROVE  i \in InState(t, "broken") /\ ~Retried(t, i)
      BY Zenon
    <3>1. i \in InState(s, "broken") /\ ~Retried(s, i) /\ i # idx
      BY Zenon, <1>1, <1>2 DEF DialsInv
    <3> QED  BY Zenon, <1>5, <1>s, <3>1 DEF InState
  <2>3. s.at = "redialing" => t.broken >= Cardinality(t.todo) + Dials(t) + 0
    <3>1. s.broken \in Nat /\ Cardinality(s.todo) \in Nat
      BY <1>1, WorkerTypes, SlotsFinite
    <3> QED  BY SMTT(30), <1>1, <1>7, <3>1 DEF DialsInv
  <2>4. ~Quiet(t)
    BY <1>3 DEF Quiet
  <2>5. /\ t.phase.kind = "Echo" => DialsFor(t, "RedialEcho")
        /\ Redialing(t) => DialsFor(t, "RedialRate")
    BY Zenon, <1>1, <1>2, <1>6 DEF Redialing, ControlInv
  <2> QED  BY Zenon, <2>1, <2>2, <2>3, <2>4, <2>5 DEF DialsInv
<1>9. Busy(t, idx) /\ \A i \in Slots \ {idx} : Busy(t, i) <=> Busy(s, i)
  BY <1>1, <1>5 DEF Busy, Carries
<1>10. s.phase.kind = "Echo" => EchoInv(t, {})
  <2> SUFFICES ASSUME s.phase.kind = "Echo"  PROVE  EchoInv(t, {})
    OBVIOUS
  <2>1. j.purpose = "RedialEcho" /\ idx = j.slot
    BY <1>1, <1>2 DEF Redialing, ControlInv
  <2>2. EchoInv(s, {idx})
    BY <1>1, <2>1 DEF Inv
  <2>3. BusySlots(t) \cup {} = BusySlots(s) \cup {idx}
    BY <1>9 DEF BusySlots
  <2>4. \A i \in Slots : i \in Range(t.phase.idle)
                           <=> t.slots[i].state # "vacant" /\ ~Busy(t, i) /\ i \notin {}
    BY Zenon, <1>1, <1>9, <2>2 DEF EchoInv
  <2> QED  BY Zenon, <2>2, <2>3, <2>4 DEF EchoInv
<1>11. s.phase.kind # "Echo" => NoEcho(t)
  BY <1>1 DEF Inv, NoEcho
<1>12. ControlInv(t)
  BY <1>1 DEF ControlInv
<1> QED  BY Zenon, <1>8, <1>10, <1>11, <1>12 DEF Inv, WorkerInv

(* What a connection that try_dial has just made looks like. *)
LEMMA NewConnFacts ==
  ASSUME NEW j \in Job
  PROVE  /\ NewConn(j) \in Conn /\ NewConn(j).state = "connecting" /\ NewConn(j).dial = j
         /\ SlotInv(NewConn(j), j.slot)
<1>1. /\ NewConn(j) \in Conn /\ NewConn(j).state = "connecting" /\ NewConn(j).dial = j
      /\ NewConn(j).streams = NoStreams /\ NewConn(j).queued = <<>> /\ NewConn(j).in_flight = 0
  <2>1. NoConn \in Conn /\ NoConn.streams = NoStreams /\ NoConn.queued = <<>> /\ NoConn.in_flight = 0
    BY EmptyConns DEF NoConn
  <2> QED  BY Zenon, <2>1 DEF NewConn, Conn
<1>2. \A k \in Kinds : NoStreams[k] = 0
  BY DEF NoStreams
<1> QED  BY <1>1, <1>2 DEF SlotInv, Kinds

(* alloc_slot finds a vacant slot. *)
LEMMA AllocVacant ==
  ASSUME NEW s \in WorkerState, SlotsInv(s), AllocIdx(s) <= MaxSlots
  PROVE  AllocIdx(s) \in Slots /\ s.slots[AllocIdx(s)].state = "vacant"
<1>1. s.free \in Seq(Slots) /\ s.len \in 0..MaxSlots
  BY WorkerTypes
<1>2. CASE s.free # <<>>
  <2>1. AllocIdx(s) = s.free[Len(s.free)]
    BY <1>2 DEF AllocIdx
  <2> QED  BY <1>1, <1>2, <2>1, RangeFront DEF SlotsInv, FreeInv
<1>3. CASE s.free = <<>>
  <2>1. AllocIdx(s) = s.len + 1
    BY <1>3 DEF AllocIdx
  <2>2. s.len + 1 \in Slots /\ s.len + 1 > s.len
    BY SMTT(30), <1>1, <2>1, WorkerAssumption DEF Slots
  <2> QED  BY <2>1, <2>2 DEF SlotsInv, FreeInv
<1> QED  BY <1>2, <1>3

(* try_dial puts a new connection into the slot that alloc_slot took. *)
LEMMA SlotTaken ==
  ASSUME NEW s \in WorkerState, SlotsInv(s), NEW idx \in Slots, idx = AllocIdx(s), NEW t, NEW c,
         SlotInv(c, idx), c.state = "connecting", s.slots[idx].state = "vacant",
         t.slots = [s.slots EXCEPT ![idx] = c],
         t.free = AllocSlot(s).free, t.len = AllocSlot(s).len, t.ready = s.ready
  PROVE  t.free \in Seq(Slots) /\ t.len \in 0..MaxSlots /\ SlotsInv(t)
<1>1. s.slots \in [Slots -> Conn] /\ s.free \in Seq(Slots) /\ s.len \in 0..MaxSlots
  BY WorkerTypes
<1>2. t.free \in Seq(Slots) /\ t.len \in 0..MaxSlots /\ FreeInv(t)
  <2>1. CASE s.free # <<>>
    <3>1. idx = s.free[Len(s.free)] /\ t.free = SubSeq(s.free, 1, Len(s.free) - 1) /\ t.len = s.len
      BY <2>1 DEF AllocIdx, AllocSlot, WorkerState
    <3>2. /\ t.free \in Seq(Slots) /\ idx \in Range(s.free)
          /\ IsInjective(t.free) /\ Range(t.free) = Range(s.free) \ {idx}
      BY SMTT(30), <1>1, <2>1, <3>1, RangeFront DEF SlotsInv, FreeInv
    <3>3. \A i \in Slots : i \in Range(s.free) <=> i <= s.len /\ s.slots[i].state = "vacant"
      BY DEF SlotsInv, FreeInv
    <3>4. \A i \in Slots : i \in Range(t.free) <=> i <= t.len /\ t.slots[i].state = "vacant"
      BY Zenon, <1>1, <3>1, <3>2, <3>3
    <3>5. \A i \in Slots : i > t.len => t.slots[i].state = "vacant"
      <4>1. idx <= s.len
        BY <3>2, <3>3
      <4>2. \A i \in Slots : i > s.len => i # idx /\ s.slots[i].state = "vacant"
        BY SMTT(30), <1>1, <4>1 DEF SlotsInv, FreeInv, Slots
      <4> QED  BY <1>1, <3>1, <4>2
    <3> QED  BY <1>1, <3>1, <3>2, <3>4, <3>5 DEF FreeInv
  <2>2. CASE s.free = <<>>
    <3>1. idx = s.len + 1 /\ t.free = <<>> /\ t.len = s.len + 1
      BY <2>2 DEF AllocIdx, AllocSlot, WorkerState
    <3>2. t.len \in 0..MaxSlots /\ \A i \in Slots : i \in Int
      BY SMTT(30), <1>1, <3>1, WorkerAssumption DEF Slots
    <3>3. \A i \in Slots : i \notin Range(s.free) /\ i \notin Range(t.free)
      BY <2>2, <3>1 DEF Range
    <3>4. \A i \in Slots : i <= t.len <=> i <= s.len \/ i = idx
      BY <1>1, <3>1, <3>2
    <3>5. \A i \in Slots : i > t.len => i > s.len /\ i # idx
      BY <1>1, <3>1, <3>2
    <3>6. IsInjective(t.free) /\ t.free \in Seq(Slots)
      BY <1>1, <2>2, <3>1 DEF SlotsInv, FreeInv
    <3> QED  BY Zenon, <1>1, <3>2, <3>3, <3>4, <3>5, <3>6 DEF SlotsInv, FreeInv
  <2> QED  BY Zenon, <2>1, <2>2
<1>3. \A i \in Slots : SlotInv(t.slots[i], i)
  BY <1>1 DEF SlotsInv
<1>4. t.ready = Cardinality(InState(t, "ready"))
  <2>1. InState(t, "ready") = InState(s, "ready")
    BY <1>1 DEF InState
  <2> QED  BY <2>1 DEF SlotsInv
<1> QED  BY <1>2, <1>3, <1>4 DEF SlotsInv

(* dial and try_dial, when registering the socket does not fail. *)
LEMMA DialInv ==
  ASSUME SetFacts, NEW s, NEW j, Holding(s, j), NEW r \in {"ok", "bind", "send"},
         j.slot = 0 => AllocIdx(s) <= MaxSlots
  PROVE  WorkerInv(Dial(s, j, r))
<1> DEFINE idx == IF j.slot = 0 THEN AllocIdx(s) ELSE j.slot
           k == [j EXCEPT !.slot = idx]
           t == TakeSlot(s, j)
           u == [t EXCEPT !.slots[idx] = NewConn(k)]
<1>1. /\ s \in WorkerState /\ SlotsInv(s) /\ j \in Job
      /\ s.slots \in [Slots -> Conn] /\ s.phase \in Phase
  BY WorkerTypes DEF Holding, Inv
<1>2. j.slot = 0 <=> j.purpose = "New"
  BY DEF Holding, Slots
<1>3. /\ idx \in Slots /\ (j.purpose = "New" => s.slots[idx].state = "vacant")
      /\ (j.purpose # "New" => idx = j.slot /\ s.slots[idx].state = "broken")
  BY <1>1, <1>2, AllocVacant DEF Holding
<1>4. k \in Job /\ k.slot = idx /\ k.purpose = j.purpose
  <2> HIDE DEF idx
  <2> QED  BY <1>1, <1>3 DEF Job, Slots
<1>5. /\ NewConn(k) \in Conn /\ NewConn(k).state = "connecting"
      /\ NewConn(k).dial.purpose = j.purpose /\ SlotInv(NewConn(k), idx)
  <2> HIDE DEF k
  <2> QED  BY <1>4, NewConnFacts
<1>6. /\ u.slots = [s.slots EXCEPT ![idx] = NewConn(k)] /\ u.retries = s.retries
      /\ u.phase = s.phase /\ u.at = s.at /\ u.starts = s.starts /\ u.todo = s.todo
      /\ u.broken = s.broken /\ u.ready = s.ready /\ t.ready = s.ready
      /\ DOMAIN t = DOMAIN s /\ DOMAIN u = DOMAIN s
      /\ u.free = IF j.slot = 0 THEN AllocSlot(s).free ELSE s.free
      /\ u.len = IF j.slot = 0 THEN AllocSlot(s).len ELSE s.len
  <2> HIDE DEF k
  <2>1. CASE j.slot = 0
    <3> HIDE DEF idx
    <3> QED  BY <1>1, <1>3, <2>1 DEF TakeSlot, AllocSlot, WorkerState
  <2>2. CASE j.slot # 0
    <3>1. idx = j.slot /\ s.slots[idx].state = "broken"
      BY <1>2, <1>3, <2>2
    <3> HIDE DEF idx
    <3> QED  BY Zenon, <1>1, <1>3, <2>2, <3>1 DEF TakeSlot, WorkerState
  <2> QED  BY <2>1, <2>2
<1> HIDE DEF idx, k, t
<1>7. u.free \in Seq(Slots) /\ u.len \in 0..MaxSlots /\ SlotsInv(u)
  <2> HIDE DEF u
  <2>1. CASE j.slot = 0
    <3>1. idx = AllocIdx(s) /\ s.slots[idx].state = "vacant"
      BY Zenon, <1>2, <1>3, <2>1 DEF idx
    <3> QED  BY Zenon, <1>1, <1>3, <1>5, <1>6, <2>1, <3>1, SlotTaken
  <2>2. CASE j.slot # 0
    <3>1. s.slots[idx].state = "broken"
      BY Zenon, <1>2, <1>3, <2>2
    <3>2. u.ready = s.ready + One(NewConn(k), "ready") - One(s.slots[idx], "ready")
      <4>1. s.ready \in Nat
        BY <1>1, WorkerTypes
      <4> QED  BY <1>5, <1>6, <3>1, <4>1 DEF One
    <3>3. SlotsInv(u)
      BY Zenon, <1>1, <1>3, <1>5, <1>6, <2>2, <3>1, <3>2, SlotsInvUpdate
    <3> QED  BY <1>1, <1>6, <2>2, <3>3, WorkerTypes
  <2> QED  BY <2>1, <2>2
<1>8. u \in WorkerState
  <2>1. PICK x \in [Slots -> Conn] : x = [s.slots EXCEPT ![idx] = NewConn(k)]
    BY Zenon, <1>1, <1>5
  <2>2. PICK f \in Seq(Slots) : f = u.free
    BY <1>7
  <2>3. PICK l \in 0..MaxSlots : l = u.len
    BY <1>7
  <2>4. u = [s EXCEPT !.slots = x, !.free = f, !.len = l] /\ s \in WorkerState
    BY <1>1, <1>6, <2>1, <2>2, <2>3, ZenonT(40) DEF WorkerState
  <2> HIDE DEF u
  <2> QED  BY Zenon, <2>4 DEF WorkerState
<1> HIDE DEF u
<1>9. WorkerInv(u) /\ u.slots[idx].state = "connecting"
  <2>1. u.slots[idx].state = "connecting"
    BY Zenon, <1>1, <1>3, <1>5, <1>6
  <2> QED  BY SMTT(30), <1>3, <1>5, <1>6, <1>7, <1>8, <2>1, EnterConnecting
<1>10. CASE r = "bind"
  BY <1>10, DialFailedJobInv DEF Dial
<1>11. CASE r = "ok"
  <2>1. Dial(s, j, r) = u
    BY <1>11 DEF Dial, u, t, k, idx
  <2> QED  BY <1>9, <2>1
<1>12. CASE r = "send"
  <2>1. Dial(s, j, r) = DialFailed(u, idx)
    BY <1>12 DEF Dial, u, t, k, idx
  <2> QED  BY <1>3, <1>9, <2>1, DialFailedInv
<1> QED  BY Zenon, <1>10, <1>11, <1>12

-----------------------------------------------------------------------------
(* t is s but for the connection in slot idx, which is now c. *)
SlotOnly(s, t, idx, c) ==
  /\ t \in WorkerState /\ t.slots = [s.slots EXCEPT ![idx] = c]
  /\ t.ready = s.ready + One(c, "ready") - One(s.slots[idx], "ready")
  /\ t.free = s.free /\ t.len = s.len
  /\ t.retries = s.retries /\ t.phase = s.phase /\ t.at = s.at /\ t.starts = s.starts
  /\ t.todo = s.todo /\ t.broken = s.broken

(* Connection b may become c: it is being dialed or not as before, and what it
   carries goes to the handler or comes from it. *)
Becomes(b, c, idx, H, K) ==
  /\ SlotInv(c, idx) /\ b.state # "vacant" /\ c.state # "vacant"
  /\ c.state = "connecting" <=> b.state = "connecting"
  /\ b.state = "connecting" => c.dial = b.dial
  /\ b.state = "broken" => c.state = "broken"
  /\ Carries(c) \/ idx \in K <=> Carries(b) \/ idx \in H
  /\ \A i : i # idx => (i \in H <=> i \in K)

(* The invariant is kept when one connection changes and the round trip it had,
   or was given, is handed over (H to K). *)
LEMMA SlotMove ==
  ASSUME SetFacts, NEW s, NEW H, NEW K, NEW n, Inv(s, H, n), NEW idx \in Slots,
         NEW c, Becomes(s.slots[idx], c, idx, H, K), NEW t, SlotOnly(s, t, idx, c),
         s.phase.kind # "Echo" => (Carries(c) <=> Carries(s.slots[idx]))
  PROVE  Inv(t, K, n)
<1>1. /\ s \in WorkerState /\ SlotsInv(s) /\ DialsInv(s, n) /\ ControlInv(s)
      /\ s.slots \in [Slots -> Conn]
  BY Zenon, WorkerTypes DEF Inv
<1> DEFINE b == s.slots[idx]
<1>0. /\ t \in WorkerState /\ t.slots = [s.slots EXCEPT ![idx] = c]
      /\ t.ready = s.ready + One(c, "ready") - One(s.slots[idx], "ready")
      /\ t.free = s.free /\ t.len = s.len
      /\ t.retries = s.retries /\ t.phase = s.phase /\ t.at = s.at /\ t.starts = s.starts
      /\ t.todo = s.todo /\ t.broken = s.broken
  BY DEF SlotOnly
<1>b. /\ SlotInv(c, idx) /\ b.state # "vacant" /\ c.state # "vacant"
      /\ c.state = "connecting" <=> b.state = "connecting"
      /\ b.state = "connecting" => c.dial = b.dial
      /\ b.state = "broken" => c.state = "broken"
      /\ Carries(c) \/ idx \in K <=> Carries(b) \/ idx \in H
      /\ \A i : i # idx => (i \in H <=> i \in K)
  BY DEF Becomes
<1>2. SlotsInv(t)
  BY Zenon, <1>0, <1>1, <1>b, SlotsInvUpdate
<1>3. \A i : Retried(t, i) <=> Retried(s, i)
  BY Zenon, <1>0 DEF Retried
<1>4. InState(t, "connecting") = InState(s, "connecting")
  BY Zenon, <1>0, <1>1, <1>b DEF InState
<1>5. InState(s, "broken") \subseteq InState(t, "broken")
  BY Zenon, <1>0, <1>1, <1>b DEF InState
<1>6. \A p : DialsFor(s, p) => DialsFor(t, p)
  <2> TAKE p
  <2> HAVE DialsFor(s, p)
  <2>1. \A i \in Slots : t.slots[i].state = "connecting" => t.slots[i].dial.purpose = p
    <3>1. b.state = "connecting" => b.dial.purpose = p
      BY Zenon DEF DialsFor
    <3>2. t.slots[idx] = c /\ \A i \in Slots : i # idx => t.slots[i] = s.slots[i]
      BY Zenon, <1>0, <1>1
    <3>3. c.state = "connecting" => c.dial.purpose = p
      BY Zenon, <1>b, <3>1
    <3> QED  BY Zenon, <3>2, <3>3 DEF DialsFor
  <2>2. \A i \in Slots : s.slots[i].state = "broken" => t.slots[i].state = "broken"
    BY Zenon, <1>0, <1>1, <1>b
  <2>3. t.retries = s.retries
    BY Zenon, <1>0
  <2>4. DialsKept(s, t, p)
    BY Zenon, <2>1, <2>2, <2>3 DEF DialsKept
  <2> QED  BY Zenon, <2>4, DialsForKept
<1>7. Dials(t) = Dials(s)
  BY Zenon, <1>0, <1>4 DEF Dials
<1>8. DialsInv(t, n)
  BY Zenon, <1>0, <1>1, <1>b, <1>3, <1>4, <1>5, <1>6, <1>7 DEF DialsInv, Redialing, Quiet
<1>9. \A i \in Slots : Busy(t, i) \/ i \in K <=> Busy(s, i) \/ i \in H
  <2> TAKE i \in Slots
  <2>1. CASE i = idx
    BY Zenon, <1>0, <1>1, <1>b, <1>3, <2>1 DEF Busy
  <2>2. CASE i # idx
    <3>1. i \in K <=> i \in H
      BY <1>b, <2>2
    <3> QED  BY Zenon, <1>0, <1>1, <1>b, <1>3, <2>2, <3>1 DEF Busy
  <2> QED  BY Zenon, <2>1, <2>2
<1>10. s.phase.kind = "Echo" => EchoInv(t, K)
  <2> SUFFICES ASSUME s.phase.kind = "Echo"  PROVE  EchoInv(t, K)
    BY Zenon, <1>0
  <2>1. EchoInv(s, H)
    BY DEF Inv
  <2>2. BusySlots(t) \cup K = BusySlots(s) \cup H
    <3>1. \A i : i \in BusySlots(t) \/ i \in K <=> i \in BusySlots(s) \/ i \in H
      BY <1>9, <1>b DEF BusySlots
    <3> QED  BY Zenon, <3>1
  <2>3. \A i \in Slots : i \in Range(t.phase.idle)
                           <=> t.slots[i].state # "vacant" /\ ~Busy(t, i) /\ i \notin K
    <3>1. \A i \in Slots : t.slots[i].state = "vacant" <=> s.slots[i].state = "vacant"
      BY Zenon, <1>0, <1>1, <1>b
    <3> QED  BY Zenon, <1>0, <1>9, <2>1, <3>1 DEF EchoInv
  <2> QED  BY Zenon, <1>0, <2>1, <2>2, <2>3 DEF EchoInv
<1>11. s.phase.kind # "Echo" => NoEcho(t)
  <2> SUFFICES ASSUME s.phase.kind # "Echo"  PROVE  NoEcho(t)
    BY Zenon, <1>0
  <2>1. NoEcho(s)
    BY DEF Inv
  <2>2. c.state = "ready" => c.streams["Echo"] = 0 /\ c.queued = <<>>
    <3> SUFFICES ASSUME c.state = "ready"  PROVE  c.streams["Echo"] = 0 /\ c.queued = <<>>
      BY <1>0
    <3>1. ~Carries(b)
      <4>1. b.state = "ready" => b.streams["Echo"] = 0 /\ b.queued = <<>>
        BY Zenon, <2>1 DEF NoEcho
      <4>2. b.state # "connecting"
        BY Zenon, <1>b
      <4> HIDE DEF b
      <4> QED  BY <4>1, <4>2 DEF Carries
    <3>2. t.slots[idx] = c /\ c \in Conn
      <4>1. t.slots \in [Slots -> Conn]
        BY Zenon, <1>0, WorkerTypes
      <4>2. t.slots[idx] = c
        BY Zenon, <1>0, <1>1
      <4> QED  BY Zenon, <4>1, <4>2
    <3>3. c.streams["Echo"] \in Nat /\ c.streams["Echo"] <= 1
      BY Zenon, <1>b, <3>2 DEF Conn, Kinds, SlotInv
    <3>4. c.streams["Echo"] # 1 /\ c.queued = <<>>
      BY Zenon, <1>0, <1>b, <3>1 DEF Carries
    <3> QED  BY SMTT(30), <3>3, <3>4
  <2> QED  BY Zenon, <1>0, <1>1, <1>b, <2>1, <2>2 DEF NoEcho
<1>12. ControlInv(t)
  BY Zenon, <1>0, <1>1, <1>b DEF ControlInv
<1> QED  BY Zenon, <1>0, <1>2, <1>8, <1>10, <1>11, <1>12 DEF Inv

(* The same, for the invariant of the slots alone. *)
LEMMA SlotOnlyInv ==
  ASSUME SetFacts, NEW s \in WorkerState, SlotsInv(s), NEW t, NEW idx \in Slots, NEW c,
         SlotInv(c, idx), s.slots[idx].state # "vacant", c.state # "vacant",
         SlotOnly(s, t, idx, c)
  PROVE  SlotsInv(t)
BY SlotsInvUpdate DEF SlotOnly

(* An update of one slot keeps the types and the other fields. *)
LEMMA SlotSet ==
  ASSUME NEW s \in WorkerState, NEW idx \in Slots, NEW c \in Conn, NEW x \in Nat,
         x = s.ready + One(c, "ready") - One(s.slots[idx], "ready"),
         NEW t, t = [s EXCEPT !.slots = [@ EXCEPT ![idx] = c], !.ready = x]
  PROVE  SlotOnly(s, t, idx, c)
<1>1. PICK y \in [Slots -> Conn] : y = [s.slots EXCEPT ![idx] = c]
  BY Zenon, WorkerTypes
<1>2. t = [s EXCEPT !.slots = y, !.ready = x]
  BY <1>1
<1>3. /\ t \in WorkerState /\ t.slots = y /\ t.ready = x
      /\ t.free = s.free /\ t.len = s.len
      /\ t.retries = s.retries /\ t.phase = s.phase /\ t.at = s.at /\ t.starts = s.starts
      /\ t.todo = s.todo /\ t.broken = s.broken
  BY Zenon, <1>2 DEF WorkerState
<1> QED  BY <1>1, <1>3 DEF SlotOnly

(* SlotMove, for an update that leaves the connection's state alone. *)
WithSlot(s, idx, c) == [s EXCEPT !.slots = [@ EXCEPT ![idx] = c]]

(* Replacing one connection by another in the same state keeps the invariant. *)
LEMMA SlotChange ==
  ASSUME SetFacts, NEW s, NEW H, NEW K, NEW n, Inv(s, H, n), NEW idx \in Slots,
         NEW c \in Conn, Becomes(s.slots[idx], c, idx, H, K), c.state = s.slots[idx].state,
         s.phase.kind # "Echo" => (Carries(c) <=> Carries(s.slots[idx]))
  PROVE  /\ Inv(WithSlot(s, idx, c), K, n) /\ SlotOnly(s, WithSlot(s, idx, c), idx, c)
         /\ WithSlot(s, idx, c).slots[idx] = c
<1> DEFINE t == WithSlot(s, idx, c)
<1>1. s \in WorkerState /\ s.ready \in Nat
  BY WorkerTypes DEF Inv
<1>2. t = [s EXCEPT !.slots = [@ EXCEPT ![idx] = c], !.ready = s.ready]
  BY Zenon, <1>1 DEF WorkerState, WithSlot
<1>3. s.ready = s.ready + One(c, "ready") - One(s.slots[idx], "ready")
  BY <1>1 DEF One
<1> HIDE DEF t
<1>4. SlotOnly(s, t, idx, c)
  BY Zenon, <1>1, <1>2, <1>3, SlotSet
<1>5. t.slots[idx] = c
  BY Zenon, <1>1, <1>4, WorkerTypes DEF SlotOnly
<1>6. Inv(t, K, n)
  BY <1>4, SlotMove
<1> QED  BY Zenon, <1>4, <1>5, <1>6 DEF t

(* A slot that is waited for by a retry holds a broken connection. *)
LEMMA UpNotRetried ==
  ASSUME NEW s, NEW H, NEW n, Inv(s, H, n), NEW idx \in Slots,
         s.slots[idx].state \in {"connecting", "ready"}
  PROVE  ~Retried(s, idx)
<1>1. DialsInv(s, n) /\ s.phase.kind \in {"Idle", "Dial", "Echo", "RatePrep", "Rate"}
  BY WorkerTypes DEF Inv, Phase
<1>2. CASE Quiet(s)
  BY SMTT(30), <1>1, <1>2 DEF DialsInv, Retried
<1>3. CASE ~Quiet(s)
  <2>1. PICK p \in Purposes : DialsFor(s, p)
    BY <1>1, <1>3 DEF DialsInv, Redialing, Quiet, Purposes
  <2>2. 0 \notin Slots
    BY DEF Slots
  <2> QED  BY <2>1, <2>2 DEF DialsFor, Retried
<1> QED  BY Zenon, <1>2, <1>3

(* The types of the fields of a connection. *)
LEMMA ConnTypes ==
  ASSUME NEW s \in WorkerState, NEW idx \in Slots
  PROVE  /\ s.slots[idx] \in Conn /\ s.slots[idx].streams \in [Kinds -> Nat]
         /\ s.slots[idx].queued \in Seq(Kinds) /\ s.slots[idx].in_flight \in Nat
         /\ \A k \in Kinds : s.slots[idx].streams[k] \in Nat
<1>1. s.slots[idx] \in Conn
  BY WorkerTypes
<1> QED  BY <1>1 DEF Conn

(* The fields of a connection, one of them changed. *)
LEMMA ConnStreams ==
  ASSUME NEW b \in Conn, NEW x \in [Kinds -> Nat]
  PROVE  LET c == [b EXCEPT !.streams = x]
         IN  /\ c \in Conn /\ c.streams = x /\ c.state = b.state /\ c.dial = b.dial
             /\ c.h3 = b.h3 /\ c.queued = b.queued /\ c.in_flight = b.in_flight
BY Zenon DEF Conn

(* A connection stays typed when its queue changes. *)
LEMMA ConnQueued ==
  ASSUME NEW b \in Conn, NEW x \in Seq(Kinds)
  PROVE  LET c == [b EXCEPT !.queued = x]
         IN  /\ c \in Conn /\ c.streams = b.streams /\ c.state = b.state /\ c.dial = b.dial
             /\ c.h3 = b.h3 /\ c.queued = x /\ c.in_flight = b.in_flight
BY Zenon DEF Conn

(* A connection stays typed when it is closed (q.close). *)
LEMMA ConnClosing ==
  ASSUME NEW b \in Conn
  PROVE  LET c == [b EXCEPT !.closing = TRUE]
         IN  /\ c \in Conn /\ c.streams = b.streams /\ c.state = b.state /\ c.dial = b.dial
             /\ c.h3 = b.h3 /\ c.queued = b.queued /\ c.in_flight = b.in_flight
BY Zenon DEF Conn

(* A connection stays typed when GOAWAY arrives. *)
LEMMA ConnGoAway ==
  ASSUME NEW b \in Conn
  PROVE  LET c == [b EXCEPT !.goaway = TRUE]
         IN  /\ c \in Conn /\ c.streams = b.streams /\ c.state = b.state /\ c.dial = b.dial
             /\ c.h3 = b.h3 /\ c.queued = b.queued /\ c.in_flight = b.in_flight
BY Zenon DEF Conn

(* A connection stays typed when its HTTP/3 layer comes up. *)
LEMMA ConnH3 ==
  ASSUME NEW b \in Conn
  PROVE  LET c == [b EXCEPT !.h3 = TRUE]
         IN  /\ c \in Conn /\ c.streams = b.streams /\ c.state = b.state /\ c.dial = b.dial
             /\ c.h3 = TRUE /\ c.queued = b.queued /\ c.in_flight = b.in_flight
BY Zenon DEF Conn

(* In BenchEcho the number of dials is not counted. *)
LEMMA EchoAnyDials ==
  ASSUME NEW s, NEW H, NEW n, Inv(s, H, n), s.phase.kind = "Echo"
  PROVE  Inv(s, H, 0)
<1>1. DialsInv(s, n) /\ ControlInv(s)
  BY DEF Inv
<1>2. DialsInv(s, 0)
  BY Zenon, <1>1 DEF DialsInv, ControlInv
<1> QED  BY Zenon, <1>2 DEF Inv

(* try_send of a round trip that the handler holds, or of one that is done as
   a failure. *)
LEMMA SendEchoInv ==
  ASSUME SetFacts, NEW s, NEW n, NEW idx \in Slots, Inv(s, {idx}, n), s.phase.kind = "Echo",
         s.slots[idx].state = "ready", ~Busy(s, idx), NEW r \in {"ok", "blocked", "failed"}
  PROVE  WorkerInv(SendEcho(s, idx, r))
<1> DEFINE b == s.slots[idx]
<1>1. /\ s \in WorkerState /\ b \in Conn /\ SlotInv(b, idx) /\ b.streams \in [Kinds -> Nat]
      /\ b.streams["Echo"] \in Nat /\ ~Carries(b) /\ b.state = "ready"
  BY Zenon, ConnTypes DEF Inv, SlotsInv, Busy, Kinds
<1>2. /\ b.h3 /\ b.queued = <<>> /\ b.streams["Echo"] = 0 /\ b.dial = NoJob
      /\ b.streams["Dial"] = 0 /\ b.in_flight <= b.streams["Rate"]
  <2> HIDE DEF b
  <2> QED  BY <1>1 DEF Carries, SlotInv
<1>3. CASE r = "ok"
  <2> DEFINE x == [b.streams EXCEPT !["Echo"] = @ + 1]
             c == [b EXCEPT !.streams = x]
             t == WithSlot(s, idx, c)
  <2>1. SendEcho(s, idx, r) = t
    BY Zenon, <1>2, <1>3 DEF SendEcho, SendRequest, SendRequestErr, MustQueue, TrySend, WithSlot
  <2>2. /\ x \in [Kinds -> Nat] /\ x["Echo"] = 1 /\ x["Dial"] = 0
        /\ x["Rate"] = b.streams["Rate"]
    <3> HIDE DEF b
    <3> QED  BY <1>1, <1>2 DEF Kinds
  <2> HIDE DEF x
  <2>3. /\ c \in Conn /\ c.streams = x /\ c.state = b.state /\ c.dial = b.dial
        /\ c.h3 = b.h3 /\ c.queued = b.queued /\ c.in_flight = b.in_flight
    BY Zenon, <1>1, <2>2, ConnStreams
  <2> HIDE DEF c
  <2>4. SlotInv(c, idx) /\ Carries(c)
    BY <1>2, <2>2, <2>3 DEF SlotInv, Carries
  <2>5. Becomes(b, c, idx, {idx}, {})
    BY Zenon, <2>3, <2>4 DEF Becomes
  <2>6. Inv(t, {}, n) /\ SlotOnly(s, t, idx, c)
    BY Zenon, <2>3, <2>5, SlotChange
  <2>7. WorkerInv(t)
    BY <2>6, EchoAnyDials DEF SlotOnly, WorkerInv
  <2> QED  BY <2>1, <2>7
<1>4. CASE r = "blocked"
  <2> DEFINE c == [b EXCEPT !.queued = <<"Echo">>]
             t == WithSlot(s, idx, c)
  <2>1. SendEcho(s, idx, r) = t
    BY <1>2, <1>4 DEF SendEcho, SendRequest, SendRequestErr, MustQueue, TrySend, WithSlot
  <2>2. <<"Echo">> \in Seq(Kinds)
    BY DEF Kinds
  <2>3. /\ c \in Conn /\ c.streams = b.streams /\ c.state = b.state /\ c.dial = b.dial
        /\ c.h3 = b.h3 /\ c.queued = <<"Echo">> /\ c.in_flight = b.in_flight
    BY Zenon, <1>1, <2>2, ConnQueued
  <2> HIDE DEF c
  <2>4. SlotInv(c, idx) /\ Carries(c)
    <3> HIDE DEF b
    <3> QED  BY SMTT(30), <1>1, <1>2, <2>3 DEF SlotInv, Carries
  <2>5. Becomes(b, c, idx, {idx}, {})
    BY <2>3, <2>4 DEF Becomes
  <2>6. Inv(t, {}, n) /\ SlotOnly(s, t, idx, c)
    BY Zenon, <2>3, <2>5, SlotChange
  <2>7. WorkerInv(t)
    BY <2>6, EchoAnyDials DEF SlotOnly, WorkerInv
  <2> QED  BY <2>1, <2>7
<1>5. CASE r = "failed"
  <2> DEFINE c == [b EXCEPT !.closing = TRUE]
             t == WithSlot(s, idx, c)
  <2>1. SendEcho(s, idx, r) = EchoDone(t, idx, FALSE)
    BY <1>2, <1>5 DEF SendEcho, SendRequest, SendRequestErr, MustQueue, TrySend, WithSlot
  <2>3. /\ c \in Conn /\ c.streams = b.streams /\ c.state = b.state /\ c.dial = b.dial
        /\ c.h3 = b.h3 /\ c.queued = b.queued /\ c.in_flight = b.in_flight
    BY Zenon, <1>1, ConnClosing
  <2> HIDE DEF c
  <2>4. SlotInv(c, idx) /\ ~Carries(c)
    <3> HIDE DEF b
    <3> QED  BY <1>1, <1>2, <2>3 DEF SlotInv, Carries
  <2>5. Becomes(b, c, idx, {idx}, {idx})
    BY Zenon, <2>3, <2>4 DEF Becomes
  <2>6. Inv(t, {idx}, n) /\ SlotOnly(s, t, idx, c)
    BY Zenon, <2>3, <2>5, SlotChange
  <2>7. t.slots[idx] = c /\ t.phase.kind = "Echo"
    BY Zenon, <1>1, <2>6, WorkerTypes DEF SlotOnly
  <2>8. ~Busy(t, idx)
    BY Zenon, <2>3, <2>4, <2>6, <2>7, UpNotRetried DEF Busy
  <2> HIDE DEF t
  <2> QED  BY Zenon, <2>1, <2>3, <2>6, <2>7, <2>8, EchoDoneInv
<1> QED  BY <1>3, <1>4, <1>5

-----------------------------------------------------------------------------
(* The purpose of a dial under way says which phase the worker is in. *)
LEMMA DialPurpose ==
  ASSUME NEW s, WorkerInv(s), NEW idx \in Slots, s.slots[idx].state = "connecting"
  PROVE  LET j == s.slots[idx].dial
         IN  /\ j \in Job /\ j # NoJob /\ j.slot = idx
             /\ \/ j.purpose = "New" /\ s.phase.kind = "Dial"
                \/ j.purpose = "RedialEcho" /\ s.phase.kind = "Echo"
                \/ j.purpose = "RedialRate" /\ Redialing(s)
<1> DEFINE j == s.slots[idx].dial
<1>1. /\ s \in WorkerState /\ SlotsInv(s) /\ DialsInv(s, 0) /\ ControlInv(s)
      /\ s.phase \in Phase
  BY WorkerTypes DEF WorkerInv, Inv
<1>2. j \in Job /\ j.slot = idx /\ j # NoJob
  <2>1. SlotInv(s.slots[idx], idx)
    BY Zenon, <1>1 DEF SlotsInv
  <2>2. j \in Job /\ j.slot = idx
    BY Zenon, <2>1 DEF SlotInv
  <2>3. NoJob \notin Job
    BY DEF NoJob, Job, Purposes
  <2> QED  BY <2>2, <2>3
<1>3. s.phase.kind \in {"Idle", "Dial", "Echo", "RatePrep", "Rate"}
  BY Zenon, <1>1 DEF Phase
<1>4. ~Quiet(s)
  BY <1>1 DEF DialsInv, InState
<1>5. s.phase.kind = "Dial" \/ s.phase.kind = "Echo" \/ Redialing(s)
  BY <1>3, <1>4 DEF Quiet, Redialing
<1>6. \/ j.purpose = "New" /\ s.phase.kind = "Dial"
      \/ j.purpose = "RedialEcho" /\ s.phase.kind = "Echo"
      \/ j.purpose = "RedialRate" /\ Redialing(s)
  BY Zenon, <1>1, <1>5 DEF DialsInv, DialsFor
<1> QED  BY <1>2, <1>6

(* dial_ok, for a connection that becomes ready: its dial is no longer counted
   and its round trip is in the handler's hands. *)
LEMMA DialAnswered ==
  ASSUME SetFacts, NEW s, WorkerInv(s), NEW idx \in Slots, s.slots[idx].state = "connecting",
         NEW t, NEW c, SlotOnly(s, t, idx, c), SlotInv(c, idx),
         c.state = "ready", c.streams["Echo"] = 0, c.queued = <<>>
  PROVE  Inv(t, {idx}, 1) /\ ~Busy(t, idx)
<1>1. s \in WorkerState /\ SlotsInv(s)
  BY Zenon DEF WorkerInv, Inv
<1>2. SlotsInv(t)
  BY Zenon, <1>1, SlotOnlyInv
<1>3. /\ t \in WorkerState /\ t.slots = [s.slots EXCEPT ![idx] = c]
      /\ t.retries = s.retries /\ t.phase = s.phase /\ t.at = s.at /\ t.starts = s.starts
      /\ t.todo = s.todo /\ t.broken = s.broken
  BY DEF SlotOnly
<1> QED  BY Zenon, <1>2, <1>3, LeaveConnecting

(* dial_ok: the connection is ready, and goes on with what it was dialed for. *)
LEMMA DialOkInv ==
  ASSUME SetFacts, NEW s, WorkerInv(s), NEW idx \in Slots, s.slots[idx].state = "connecting",
         s.slots[idx].h3, s.slots[idx].queued = <<>>, s.slots[idx].streams["Dial"] = 0,
         NEW r \in {"ok", "blocked", "failed"}
  PROVE  WorkerInv(DialOk(s, idx, r))
<1> DEFINE b == s.slots[idx]
           j == b.dial
           c == [b EXCEPT !.state = "ready", !.dial = NoJob]
           t == [s EXCEPT !.slots = [@ EXCEPT ![idx] = c], !.ready = s.ready + 1]
<1>1. /\ s \in WorkerState /\ b \in Conn /\ SlotInv(b, idx) /\ s.slots \in [Slots -> Conn]
      /\ b.streams \in [Kinds -> Nat] /\ s.ready \in Nat /\ SlotsInv(s)
  BY Zenon, ConnTypes, WorkerTypes DEF WorkerInv, Inv, SlotsInv
<1>2. /\ c \in Conn /\ c.state = "ready" /\ c.dial = NoJob /\ c.h3 /\ c.queued = <<>>
      /\ c.streams = b.streams /\ c.in_flight = b.in_flight
  BY Zenon, <1>1 DEF Conn
<1>3. b.streams["Echo"] = 0 /\ b.streams["Rate"] = 0 /\ b.in_flight <= b.streams["Rate"]
  BY Zenon, <1>1 DEF SlotInv
<1>4. t = [s EXCEPT !.slots[idx].state = "ready", !.slots[idx].dial = NoJob, !.ready = @ + 1]
  BY Zenon, <1>1 DEF WorkerState
<1> HIDE DEF c
<1>5. SlotInv(c, idx)
  BY SMTT(30), <1>2, <1>3 DEF SlotInv
<1>6. SlotOnly(s, t, idx, c)
  <2>1. s.ready + 1 \in Nat /\ s.ready + 1 = s.ready + One(c, "ready") - One(s.slots[idx], "ready")
    BY SMTT(30), <1>1, <1>2 DEF One
  <2> QED  BY Zenon, <1>1, <1>2, <2>1, SlotSet
<1> HIDE DEF t
<1>7. /\ t \in WorkerState /\ t.slots = [s.slots EXCEPT ![idx] = c]
      /\ t.ready = s.ready + One(c, "ready") - One(s.slots[idx], "ready")
      /\ t.free = s.free /\ t.len = s.len
      /\ t.retries = s.retries /\ t.phase = s.phase /\ t.at = s.at /\ t.starts = s.starts
      /\ t.todo = s.todo /\ t.broken = s.broken /\ t.slots[idx] = c
  BY Zenon, <1>1, <1>6 DEF SlotOnly
<1>8. SlotsInv(t)
  <2>1. s.slots[idx].state # "vacant" /\ c.state # "vacant"
    BY Zenon, <1>2
  <2> QED  BY Zenon, <1>1, <1>5, <1>6, <2>1, SlotOnlyInv
<1>9. Inv(t, {idx}, 1) /\ ~Busy(t, idx)
  <2>1. c.state = "ready" /\ c.streams["Echo"] = 0 /\ c.queued = <<>>
    BY Zenon, <1>2, <1>3
  <2> QED  BY Zenon, <1>5, <1>6, <2>1, DialAnswered
<1>10. DialsInv(t, 1) /\ t.phase \in Phase /\ Dials(t) \in Nat /\ t.starts \in Nat
  <2>1. DialsInv(t, 1) /\ t.phase \in Phase /\ t.starts \in Nat
    BY Zenon, <1>7, <1>9, WorkerTypes DEF Inv
  <2>2. InState(t, "connecting") \in SUBSET Slots /\ Len(t.retries) \in Nat
    BY Zenon, <1>7, WorkerTypes, SeqLen DEF InState
  <2> QED  BY <2>1, <2>2, SlotsFinite DEF Dials
<1>11. /\ j # NoJob
       /\ \/ j.purpose = "New" /\ s.phase.kind = "Dial"
          \/ j.purpose = "RedialEcho" /\ s.phase.kind = "Echo"
          \/ j.purpose = "RedialRate" /\ Redialing(s)
  BY DialPurpose
<1>12. CASE j.purpose = "New" /\ s.phase.kind = "Dial"
  <2> DEFINE p == [t.phase EXCEPT !.active = @ - 1, !.ok = @ + 1]
  <2>1. t.phase.active = t.starts + Dials(t) + 1
    BY Zenon, <1>7, <1>10, <1>12 DEF DialsInv
  <2>2. p \in Phase /\ p.kind = "Dial" /\ p.active = t.starts + Dials(t)
    <3>1. t.phase.active - 1 = t.starts + Dials(t) /\ t.phase.active - 1 \in Nat
      BY <1>10, <2>1
    <3>2. PICK x \in Nat : x = t.phase.active - 1
      BY <3>1
    <3>3. PICK y \in Nat : y = t.phase.ok + 1
      BY <1>10, PhaseTypes
    <3>4. p = [t.phase EXCEPT !.active = x, !.ok = y] /\ t.phase \in Phase
          /\ t.phase.kind = "Dial"
      BY Zenon, <1>7, <1>10, <1>12, <3>2, <3>3
    <3> HIDE DEF p
    <3> QED  BY Zenon, <3>1, <3>2, <3>4 DEF Phase
  <2>3. DialOk(s, idx, r) = [t EXCEPT !.phase = p]
    <3>1. DialOk(s, idx, r) = [t EXCEPT !.phase.active = @ - 1, !.phase.ok = @ + 1]
      BY Zenon, <1>4, <1>11, <1>12 DEF DialOk
    <3>2. t \in WorkerState /\ t.phase \in Phase
      BY Zenon, <1>7, <1>10
    <3> QED  BY Zenon, <3>1, <3>2 DEF WorkerState, Phase
  <2> HIDE DEF p
  <2> QED  BY SMTT(30), <1>7, <1>9, <1>12, <2>2, <2>3, PhaseOnly
<1>13. CASE j.purpose = "RedialEcho" /\ s.phase.kind = "Echo"
  <2>1. DialOk(s, idx, r) = SendEcho(t, idx, r)
    BY Zenon, <1>4, <1>11, <1>13 DEF DialOk
  <2>2. t.phase.kind = "Echo" /\ Inv(t, {idx}, 1)
    BY Zenon, <1>7, <1>9, <1>13
  <2> QED  BY SMTT(30), <1>2, <1>7, <1>9, <2>1, <2>2, SendEchoInv
<1>14. CASE j.purpose = "RedialRate" /\ s.phase.kind = "RatePrep"
  <2> DEFINE p == [t.phase EXCEPT !.redials = @ - 1]
  <2>1. t.phase.redials \in Nat /\ t.phase.redials >= Dials(t) + 1
    BY Zenon, <1>7, <1>10, <1>14 DEF DialsInv, Phase
  <2>2. p \in Phase /\ p.kind = "RatePrep" /\ p.redials >= Dials(t)
    <3>1. t.phase.redials - 1 \in Nat /\ t.phase.redials - 1 >= Dials(t)
      BY <1>10, <2>1
    <3> QED  BY SMTT(30), <1>7, <1>10, <1>14, <3>1, PhaseRedials
  <2>3. DialOk(s, idx, r) = [t EXCEPT !.phase = p]
    BY Zenon, <1>4, <1>7, <1>10, <1>11, <1>14 DEF DialOk, WorkerState, Phase
  <2> HIDE DEF p
  <2> QED  BY SMTT(30), <1>7, <1>9, <1>14, <2>2, <2>3, PhaseOnly
<1>15. CASE j.purpose = "RedialRate" /\ s.phase.kind # "RatePrep" /\ Redialing(s)
  <2>1. s.phase.kind = "Idle"
    BY <1>15 DEF Redialing, WorkerInv, Inv, ControlInv
  <2>2. DialOk(s, idx, r) = t
    BY Zenon, <1>4, <1>11, <1>15, <2>1 DEF DialOk
  <2>3. t = [t EXCEPT !.phase = t.phase]
    BY <1>7 DEF WorkerState
  <2> QED  BY SMTT(30), <1>7, <1>9, <1>10, <2>1, <2>2, <2>3, PhaseOnly
<1> QED  BY Zenon, <1>11, <1>12, <1>13, <1>14, <1>15

-----------------------------------------------------------------------------
(* The handlers of a connection's events. *)

(* send_request for the first request of a dial; failing it fails the dial. *)
SendDial(s, idx, r) ==
  LET u == SendRequest(s, idx, "Dial", r)
  IN  IF SendRequestErr(s, idx, "Dial", r) THEN DialFailed(u, idx) ELSE u

(* Sending the first request of a connection keeps the invariant. *)
LEMMA SendDialInv ==
  ASSUME SetFacts, NEW s, NEW idx \in Slots, WorkerInv(s), s.slots[idx].state = "connecting",
         s.slots[idx].h3, s.slots[idx].queued = <<>>, s.slots[idx].streams["Dial"] = 0,
         NEW r \in {"ok", "blocked", "failed"}
  PROVE  WorkerInv(SendDial(s, idx, r))
<1> DEFINE b == s.slots[idx]
<1>1. /\ s \in WorkerState /\ Inv(s, {}, 0) /\ b \in Conn /\ SlotInv(b, idx)
      /\ b.streams \in [Kinds -> Nat] /\ b.state = "connecting" /\ b.h3 /\ b.queued = <<>>
      /\ b.streams["Dial"] = 0
  BY Zenon, ConnTypes DEF WorkerInv, Inv, SlotsInv
<1>2. /\ b.dial \in Job /\ b.dial.slot = idx /\ b.streams["Echo"] = 0
      /\ b.streams["Rate"] = 0 /\ b.in_flight <= 0
  BY Zenon, <1>1 DEF SlotInv
<1>3. CASE r = "ok"
  <2> DEFINE x == [b.streams EXCEPT !["Dial"] = @ + 1]
             c == [b EXCEPT !.streams = x]
             t == WithSlot(s, idx, c)
  <2>1. SendDial(s, idx, r) = t
    BY <1>3 DEF SendDial, SendRequest, SendRequestErr, MustQueue, TrySend, WithSlot
  <2>2. x \in [Kinds -> Nat] /\ x["Echo"] = 0 /\ x["Dial"] = 1 /\ x["Rate"] = 0
    <3> HIDE DEF b
    <3> QED  BY <1>1, <1>2 DEF Kinds
  <2> HIDE DEF x
  <2>3. /\ c \in Conn /\ c.streams = x /\ c.state = b.state /\ c.dial = b.dial
        /\ c.h3 = b.h3 /\ c.queued = b.queued /\ c.in_flight = b.in_flight
    BY Zenon, <1>1, <2>2, ConnStreams
  <2> HIDE DEF c
  <2>4. SlotInv(c, idx) /\ Carries(c) /\ Carries(b)
    <3> HIDE DEF b
    <3> QED  BY SMTT(30), <1>1, <1>2, <2>2, <2>3 DEF SlotInv, Carries
  <2>5. Becomes(b, c, idx, {}, {})
    BY <2>3, <2>4 DEF Becomes
  <2>6. Inv(t, {}, 0)
    BY Zenon, <1>1, <2>3, <2>4, <2>5, SlotChange
  <2> QED  BY <2>1, <2>6 DEF WorkerInv
<1>4. CASE r = "blocked"
  <2> DEFINE c == [b EXCEPT !.queued = <<"Dial">>]
             t == WithSlot(s, idx, c)
  <2>1. SendDial(s, idx, r) = t
    BY <1>4 DEF SendDial, SendRequest, SendRequestErr, MustQueue, TrySend, WithSlot
  <2>2. <<"Dial">> \in Seq(Kinds)
    BY DEF Kinds
  <2>3. /\ c \in Conn /\ c.streams = b.streams /\ c.state = b.state /\ c.dial = b.dial
        /\ c.h3 = b.h3 /\ c.queued = <<"Dial">> /\ c.in_flight = b.in_flight
    BY Zenon, <1>1, <2>2, ConnQueued
  <2> HIDE DEF c
  <2>4. SlotInv(c, idx) /\ Carries(c) /\ Carries(b)
    <3> HIDE DEF b
    <3> QED  BY Zenon, <1>1, <1>2, <2>3 DEF SlotInv, Carries
  <2>5. Becomes(b, c, idx, {}, {})
    BY <2>3, <2>4 DEF Becomes
  <2>6. Inv(t, {}, 0)
    BY Zenon, <1>1, <2>3, <2>4, <2>5, SlotChange
  <2> QED  BY <2>1, <2>6 DEF WorkerInv
<1>5. CASE r = "failed"
  <2> DEFINE c == [b EXCEPT !.closing = TRUE]
             t == WithSlot(s, idx, c)
  <2>1. SendDial(s, idx, r) = DialFailed(t, idx)
    BY <1>5 DEF SendDial, SendRequest, SendRequestErr, MustQueue, TrySend, WithSlot
  <2>3. /\ c \in Conn /\ c.streams = b.streams /\ c.state = b.state /\ c.dial = b.dial
        /\ c.h3 = b.h3 /\ c.queued = b.queued /\ c.in_flight = b.in_flight
    BY Zenon, <1>1, ConnClosing
  <2> HIDE DEF c
  <2>4. SlotInv(c, idx) /\ Carries(c) /\ Carries(b)
    <3> HIDE DEF b
    <3> QED  BY Zenon, <1>1, <1>2, <2>3 DEF SlotInv, Carries
  <2>5. Becomes(b, c, idx, {}, {})
    BY <2>3, <2>4 DEF Becomes
  <2>6. Inv(t, {}, 0) /\ SlotOnly(s, t, idx, c)
    BY Zenon, <1>1, <2>3, <2>4, <2>5, SlotChange
  <2>7. t.slots[idx] = c
    BY Zenon, <1>1, <2>6, WorkerTypes DEF SlotOnly
  <2> HIDE DEF t
  <2> QED  BY Zenon, <2>1, <2>3, <2>6, <2>7, DialFailedInv DEF WorkerInv
<1> QED  BY <1>3, <1>4, <1>5

(* send_queued takes the request from the queue and sends it as one that the
   handler holds. *)
LEMMA SendQueuedInv ==
  ASSUME SetFacts, NEW s, NEW idx \in Slots, WorkerInv(s), NEW r \in {"ok", "blocked", "failed"}
  PROVE  WorkerInv(SendQueued(s, idx, r))
<1> DEFINE b == s.slots[idx]
           c == [b EXCEPT !.queued = <<>>]
           t == WithSlot(s, idx, c)
<1>1. /\ s \in WorkerState /\ Inv(s, {}, 0) /\ b \in Conn /\ SlotInv(b, idx)
      /\ b.streams \in [Kinds -> Nat] /\ b.queued \in Seq(Kinds)
  BY Zenon, ConnTypes DEF WorkerInv, Inv, SlotsInv
<1>2. CASE b.queued = <<>> \/ r = "blocked"
  BY <1>2 DEF SendQueued
<1>3. ASSUME b.queued # <<>>, r \in {"ok", "failed"}  PROVE  WorkerInv(SendQueued(s, idx, r))
  <2>1. /\ c \in Conn /\ c.streams = b.streams /\ c.state = b.state /\ c.dial = b.dial
        /\ c.h3 = b.h3 /\ c.queued = <<>> /\ c.in_flight = b.in_flight
    <3>0. <<>> \in Seq(Kinds)
      OBVIOUS
    <3>1. PICK x \in Seq(Kinds) : x = <<>>
      BY Zenon, <3>0
    <3>2. c = [b EXCEPT !.queued = x]
      BY <3>1
    <3> QED  BY Zenon, <1>1, <3>1, <3>2, ConnQueued
  <2>2. b.state \in {"connecting", "ready"}
    <3>1. NoConn.queued = <<>>
      BY DEF NoConn
    <3> QED  BY Zenon, <1>1, <1>3, <3>1 DEF SlotInv, Conn
  <2>3. t = [s EXCEPT !.slots[idx].queued = <<>>] /\ t.slots[idx] = c
    BY Zenon, <1>1, WorkerTypes DEF WorkerState, WithSlot
  <2>4. CASE b.state = "connecting"
    <3>1. b.queued = <<"Dial">> /\ b.streams["Dial"] = 0 /\ b.h3
      BY Zenon, <1>1, <1>3, <2>4 DEF SlotInv
    <3>2. Head(b.queued) = "Dial" /\ Tail(b.queued) = <<>>
      BY <3>1
    <3>3. SendQueued(s, idx, r) = SendDial(t, idx, r)
      <4> DEFINE u == TrySend(t, idx, "Dial", r)
      <4>1. t = [s EXCEPT !.slots[idx].queued = Tail(@)]
        BY Zenon, <2>3, <3>2
      <4>2. t.slots[idx].queued = <<>>
        BY Zenon, <2>1, <2>3
      <4> HIDE DEF c, t
      <4>3. SendQueued(s, idx, r) = IF r = "ok" THEN u ELSE Response(u, idx, "Dial", "err", r)
        BY Zenon, <1>3, <3>2, <4>1 DEF SendQueued
      <4>4. SendDial(t, idx, r) = IF r = "ok" THEN u ELSE DialFailed(u, idx)
        BY Zenon, <1>3, <4>2 DEF SendDial, SendRequest, SendRequestErr, MustQueue
      <4> HIDE DEF u
      <4>5. Response(u, idx, "Dial", "err", r) = DialFailed(u, idx)
        BY DEF Response
      <4> QED  BY Zenon, <4>3, <4>4, <4>5
    <3> HIDE DEF c
    <3>4. SlotInv(c, idx) /\ Carries(c) /\ Carries(b)
      BY Zenon, <1>1, <2>1, <2>4, <3>1 DEF SlotInv, Carries
    <3>5. Becomes(b, c, idx, {}, {})
      BY <2>1, <2>4, <3>4 DEF Becomes
    <3>6. Inv(t, {}, 0)
      BY Zenon, <1>1, <2>1, <3>4, <3>5, SlotChange
    <3> HIDE DEF t
    <3>7. /\ t.slots[idx].state = "connecting" /\ t.slots[idx].h3
          /\ t.slots[idx].queued = <<>> /\ t.slots[idx].streams["Dial"] = 0
      BY <2>1, <2>3, <2>4, <3>1
    <3>8. WorkerInv(t)
      BY <3>6 DEF WorkerInv
    <3> QED  BY <3>3, <3>7, <3>8, SendDialInv
  <2>5. CASE b.state = "ready"
    <3>1. b.queued = <<"Echo">> /\ b.streams["Echo"] = 0 /\ b.h3
      BY Zenon, <1>1, <1>3, <2>5 DEF SlotInv
    <3>2. Head(b.queued) = "Echo" /\ Tail(b.queued) = <<>>
      BY <3>1
    <3>3. SendQueued(s, idx, r) = SendEcho(t, idx, r)
      <4> DEFINE u == TrySend(t, idx, "Echo", r)
      <4>1. t = [s EXCEPT !.slots[idx].queued = Tail(@)]
        BY Zenon, <2>3, <3>2
      <4>2. t.slots[idx].queued = <<>>
        BY Zenon, <2>1, <2>3
      <4> HIDE DEF c, t
      <4>3. SendQueued(s, idx, r) = IF r = "ok" THEN u ELSE Response(u, idx, "Echo", "err", r)
        BY Zenon, <1>3, <3>2, <4>1 DEF SendQueued
      <4>4. SendEcho(t, idx, r) = IF r = "ok" THEN u ELSE EchoDone(u, idx, FALSE)
        BY Zenon, <1>3, <4>2 DEF SendEcho, SendRequest, SendRequestErr, MustQueue
      <4> HIDE DEF u
      <4>5. Response(u, idx, "Echo", "err", r) = EchoDone(u, idx, FALSE)
        BY Zenon DEF Response
      <4> QED  BY Zenon, <4>3, <4>4, <4>5
    <3> HIDE DEF c
    <3>4. SlotInv(c, idx) /\ ~Carries(c) /\ Carries(b)
      <4> HIDE DEF b
      <4> QED  BY SMTT(30), <1>1, <1>3, <2>1, <2>5, <3>1 DEF SlotInv, Carries
    <3>5. Becomes(b, c, idx, {}, {idx})
      BY Zenon, <2>1, <2>5, <3>4 DEF Becomes
    <3>6. s.phase.kind = "Echo"
      BY <1>1, <1>3, <2>5 DEF Inv, NoEcho
    <3>7. Inv(t, {idx}, 0) /\ SlotOnly(s, t, idx, c)
      BY Zenon, <1>1, <2>1, <3>5, <3>6, SlotChange
    <3>8. ~Busy(t, idx) /\ t.phase.kind = "Echo"
      BY Zenon, <2>1, <2>3, <2>5, <3>4, <3>6, <3>7, UpNotRetried DEF Busy, SlotOnly
    <3> HIDE DEF t
    <3> QED  BY Zenon, <2>1, <2>3, <2>5, <3>3, <3>7, <3>8, SendEchoInv
  <2> QED  BY <2>2, <2>4, <2>5
<1> QED  BY <1>2, <1>3

(* A handler that only marks a connection: GOAWAY, or a close of its own. *)
Marked(b, c) ==
  /\ c \in Conn /\ b.state # "vacant" /\ c.state = b.state /\ c.dial = b.dial
  /\ c.streams = b.streams /\ c.queued = b.queued /\ c.in_flight = b.in_flight
  /\ b.h3 => c.h3

(* process_conn, on GOAWAY or a protocol error, keeps the invariant. *)
LEMMA MarkInv ==
  ASSUME SetFacts, NEW s, NEW idx \in Slots, WorkerInv(s), NEW c, Marked(s.slots[idx], c)
  PROVE  WorkerInv(WithSlot(s, idx, c)) /\ WithSlot(s, idx, c).slots[idx] = c
<1>1. Inv(s, {}, 0) /\ SlotInv(s.slots[idx], idx)
  BY Zenon DEF WorkerInv, Inv, SlotsInv
<1>2. SlotInv(c, idx) /\ (Carries(c) <=> Carries(s.slots[idx]))
  BY Zenon, <1>1 DEF Marked, SlotInv, Carries
<1>3. Becomes(s.slots[idx], c, idx, {}, {})
  BY Zenon, <1>2 DEF Marked, Becomes
<1>4. c \in Conn /\ c.state = s.slots[idx].state
  BY DEF Marked
<1> QED  BY Zenon, <1>1, <1>2, <1>3, <1>4, SlotChange DEF WorkerInv

(* process_conn, when the handshake completes. *)
LEMMA EstablishedInv ==
  ASSUME SetFacts, NEW s, NEW idx \in Slots, WorkerInv(s), s.slots[idx].state = "connecting",
         ~s.slots[idx].h3, NEW r \in {"ok", "blocked", "failed"},
         NEW rq \in {"ok", "blocked", "failed"}
  PROVE  LET c == [s.slots[idx] EXCEPT !.h3 = TRUE]
             t == SendDial(WithSlot(s, idx, c), idx, r)
         IN  /\ WorkerInv(t) /\ Established(s, idx, r, rq) = SendQueued(t, idx, rq)
             /\ WorkerInv(Established(s, idx, r, rq))
<1> DEFINE b == s.slots[idx]
           c == [b EXCEPT !.h3 = TRUE]
           t == WithSlot(s, idx, c)
<1>1. s \in WorkerState /\ b \in Conn /\ SlotInv(b, idx)
  BY Zenon, ConnTypes DEF WorkerInv, Inv, SlotsInv
<1>2. /\ c \in Conn /\ c.streams = b.streams /\ c.state = b.state /\ c.dial = b.dial
      /\ c.h3 = TRUE /\ c.queued = b.queued /\ c.in_flight = b.in_flight
  BY <1>1, ConnH3
<1>3. b.queued = <<>> /\ b.streams["Dial"] = 0
  BY Zenon, <1>1 DEF SlotInv
<1>4. Established(s, idx, r, rq) = SendQueued(SendDial(t, idx, r), idx, rq)
  BY DEF Established, SendDial, WithSlot
<1> HIDE DEF c
<1>5. WorkerInv(t) /\ t.slots[idx] = c
  <2>1. Marked(s.slots[idx], c)
    BY <1>2 DEF Marked
  <2> QED  BY <2>1, MarkInv
<1> HIDE DEF t
<1>6. /\ t.slots[idx].state = "connecting" /\ t.slots[idx].h3
      /\ t.slots[idx].queued = <<>> /\ t.slots[idx].streams["Dial"] = 0
  BY <1>2, <1>3, <1>5
<1>7. WorkerInv(SendDial(t, idx, r))
  BY <1>5, <1>6, SendDialInv
<1>8. WorkerInv(Established(s, idx, r, rq))
  BY <1>4, <1>7, SendQueuedInv
<1> QED  BY <1>4, <1>7, <1>8 DEF t, c

(* An open request of kind k is on a connection whose state goes with it. *)
LEMMA StreamState ==
  ASSUME NEW s, NEW H, NEW n, Inv(s, H, n), NEW idx \in Slots, NEW k \in Kinds,
         s.slots[idx].streams[k] > 0
  PROVE  /\ k = "Dial" => /\ s.slots[idx].state = "connecting" /\ s.slots[idx].h3
                          /\ s.slots[idx].queued = <<>> /\ s.slots[idx].streams[k] = 1
         /\ k # "Dial" => s.slots[idx].state = "ready"
         /\ k = "Echo" => /\ s.slots[idx].queued = <<>> /\ s.slots[idx].streams[k] = 1
                          /\ s.phase.kind = "Echo"
<1> DEFINE b == s.slots[idx]
<1>1. /\ s \in WorkerState /\ b \in Conn /\ SlotInv(b, idx)
      /\ \A m \in Kinds : b.streams[m] \in Nat
      /\ b.streams[k] > 0
  BY Zenon, ConnTypes DEF Inv, SlotsInv
<1>2. NoConn.streams = NoStreams /\ NoStreams[k] = 0
  BY Zenon DEF NoConn, NoStreams
<1>3. b.state \in {"connecting", "ready"}
  <2>1. b.state \in {"vacant", "connecting", "ready", "broken"}
    BY Zenon, <1>1 DEF Conn
  <2>2. b.streams # NoStreams
    BY <1>2
  <2> QED  BY Zenon, <1>1, <1>2, <2>1, <2>2 DEF SlotInv
<1> HIDE DEF b
<1>4. CASE k = "Dial"
  <2>1. b.state = "connecting" /\ b.streams["Dial"] \in Nat /\ b.streams["Dial"] > 0
    BY SMTT(30), <1>1, <1>3, <1>4 DEF SlotInv
  <2>2. b.h3 /\ b.queued = <<>> /\ b.streams["Dial"] <= 1
    BY SMTT(30), <1>1, <2>1 DEF SlotInv
  <2> QED  BY SMTT(30), <1>4, <2>1, <2>2 DEF b
<1>5. CASE k = "Echo"
  <2>1. b.state = "ready" /\ b.streams["Echo"] \in Nat /\ b.streams["Echo"] > 0
    BY SMTT(30), <1>1, <1>3, <1>5 DEF SlotInv
  <2>2. b.queued = <<>> /\ b.streams["Echo"] <= 1
    BY SMTT(30), <1>1, <2>1 DEF SlotInv
  <2>3. s.phase.kind = "Echo"
    BY <2>1 DEF Inv, NoEcho, b
  <2> QED  BY SMTT(30), <1>5, <2>1, <2>2, <2>3 DEF b
<1>6. CASE k = "Rate"
  <2>1. b.state = "ready"
    BY SMTT(30), <1>1, <1>3, <1>6 DEF SlotInv
  <2> QED  BY Zenon, <1>6, <2>1 DEF b
<1> QED  BY Zenon, <1>4, <1>5, <1>6 DEF Kinds

(* A finished or reset stream of a dial. *)
LEMMA DialStreamInv ==
  ASSUME SetFacts, NEW s, NEW idx \in Slots, WorkerInv(s), s.slots[idx].streams["Dial"] > 0,
         NEW res \in {"ok", "bad", "err"}, NEW r \in {"ok", "blocked", "failed"}
  PROVE  WorkerInv(Response([s EXCEPT !.slots[idx].streams["Dial"] = @ - 1], idx, "Dial", res, r))
<1> DEFINE b == s.slots[idx]
           x == [b.streams EXCEPT !["Dial"] = @ - 1]
           c == [b EXCEPT !.streams = x]
           t == WithSlot(s, idx, c)
<1>1. /\ s \in WorkerState /\ Inv(s, {}, 0) /\ b \in Conn /\ SlotInv(b, idx)
      /\ b.streams \in [Kinds -> Nat]
  BY Zenon, ConnTypes DEF WorkerInv, Inv, SlotsInv
<1>2. /\ b.state = "connecting" /\ b.h3 /\ b.queued = <<>> /\ b.streams["Dial"] = 1
  BY Zenon, <1>1, StreamState DEF Kinds
<1>3. /\ x \in [Kinds -> Nat] /\ x["Dial"] = 0 /\ x["Echo"] = b.streams["Echo"]
      /\ x["Rate"] = b.streams["Rate"]
  <2> HIDE DEF b
  <2> QED  BY <1>1, <1>2 DEF Kinds
<1>4. t = [s EXCEPT !.slots[idx].streams["Dial"] = @ - 1]
  BY DEF WithSlot
<1> HIDE DEF x
<1>5. /\ c \in Conn /\ c.streams = x /\ c.state = b.state /\ c.dial = b.dial
      /\ c.h3 = b.h3 /\ c.queued = b.queued /\ c.in_flight = b.in_flight
  BY Zenon, <1>1, <1>3, ConnStreams
<1> HIDE DEF c
<1>6. SlotInv(c, idx) /\ Carries(c) /\ Carries(b)
  <2> HIDE DEF b
  <2> QED  BY SMTT(30), <1>1, <1>2, <1>3, <1>5 DEF SlotInv, Carries
<1>7. Becomes(b, c, idx, {}, {})
  BY Zenon, <1>2, <1>5, <1>6 DEF Becomes
<1>8. Inv(t, {}, 0) /\ t.slots[idx] = c
  BY Zenon, <1>1, <1>5, <1>6, <1>7, SlotChange
<1>9. t.slots[idx] = c /\ WorkerInv(t)
  BY <1>8 DEF WorkerInv
<1> HIDE DEF t
<1>10. /\ t.slots[idx].state = "connecting" /\ t.slots[idx].h3
       /\ t.slots[idx].queued = <<>> /\ t.slots[idx].streams["Dial"] = 0
  BY Zenon, <1>2, <1>3, <1>5, <1>9
<1>11. WorkerInv(DialOk(t, idx, r)) /\ WorkerInv(DialFailed(t, idx))
  BY Zenon, <1>9, <1>10, DialOkInv, DialFailedInv
<1>12. WorkerInv(Response(t, idx, "Dial", res, r))
  BY <1>11 DEF Response
<1> QED  BY <1>4, <1>12

(* A finished or reset stream of a round trip. *)
LEMMA EchoStreamInv ==
  ASSUME SetFacts, NEW s, NEW idx \in Slots, WorkerInv(s), s.slots[idx].streams["Echo"] > 0,
         NEW res \in {"ok", "bad", "err"}, NEW r
  PROVE  WorkerInv(Response([s EXCEPT !.slots[idx].streams["Echo"] = @ - 1], idx, "Echo", res, r))
<1> DEFINE b == s.slots[idx]
           x == [b.streams EXCEPT !["Echo"] = @ - 1]
           c == [b EXCEPT !.streams = x]
           t == WithSlot(s, idx, c)
<1>1. /\ s \in WorkerState /\ Inv(s, {}, 0) /\ b \in Conn /\ SlotInv(b, idx)
      /\ b.streams \in [Kinds -> Nat]
  BY Zenon, ConnTypes DEF WorkerInv, Inv, SlotsInv
<1>2. /\ b.state = "ready" /\ b.queued = <<>> /\ b.streams["Echo"] = 1 /\ s.phase.kind = "Echo"
  BY Zenon, <1>1, StreamState DEF Kinds
<1>3. /\ x \in [Kinds -> Nat] /\ x["Echo"] = 0 /\ x["Dial"] = b.streams["Dial"]
      /\ x["Rate"] = b.streams["Rate"]
  <2> HIDE DEF b
  <2> QED  BY <1>1, <1>2 DEF Kinds
<1>4. t = [s EXCEPT !.slots[idx].streams["Echo"] = @ - 1]
  BY DEF WithSlot
<1> HIDE DEF x
<1>5. /\ c \in Conn /\ c.streams = x /\ c.state = b.state /\ c.dial = b.dial
      /\ c.h3 = b.h3 /\ c.queued = b.queued /\ c.in_flight = b.in_flight
  BY <1>1, <1>3, ConnStreams
<1> HIDE DEF c
<1>6. SlotInv(c, idx) /\ ~Carries(c) /\ Carries(b)
  <2>1. b.h3 /\ b.dial = NoJob /\ b.streams["Dial"] = 0 /\ b.in_flight <= b.streams["Rate"]
    BY Zenon, <1>1, <1>2 DEF SlotInv
  <2> HIDE DEF b
  <2>2. SlotInv(c, idx)
    BY SMTT(30), <1>2, <1>3, <1>5, <2>1 DEF SlotInv
  <2> QED  BY <1>2, <1>3, <1>5, <2>2 DEF Carries
<1>7. Becomes(b, c, idx, {}, {idx})
  BY <1>2, <1>5, <1>6 DEF Becomes
<1>8. Inv(t, {idx}, 0) /\ t.slots[idx] = c /\ SlotOnly(s, t, idx, c)
  <2>1. s.phase.kind = "Echo" /\ Inv(s, {}, 0) /\ c \in Conn
    BY Zenon, <1>1, <1>2, <1>5
  <2>2. c.state = s.slots[idx].state
    BY Zenon, <1>5
  <2> QED  BY ZenonT(40), <1>7, <2>1, <2>2, SlotChange
<1> HIDE DEF t
<1>9. t.phase.kind = "Echo" /\ t.slots[idx].state = "ready"
  BY Zenon, <1>2, <1>5, <1>8 DEF SlotOnly
<1>10. ~Busy(t, idx)
  BY Zenon, <1>6, <1>8, <1>9, UpNotRetried DEF Busy
<1>11. WorkerInv(EchoDone(t, idx, res = "ok"))
  <2>1. (res = "ok") \in BOOLEAN
    OBVIOUS
  <2> QED  BY Zenon, <1>8, <1>9, <1>10, <2>1, EchoDoneInv
<1> QED  BY <1>4, <1>11 DEF Response

(* A finished or reset request of BenchMultiplex. *)
LEMMA RateStreamInv ==
  ASSUME SetFacts, NEW s, NEW idx \in Slots, WorkerInv(s), s.slots[idx].streams["Rate"] > 0,
         NEW res \in {"ok", "bad", "err"}, NEW r
  PROVE  WorkerInv(Response([s EXCEPT !.slots[idx].streams["Rate"] = @ - 1], idx, "Rate", res, r))
<1> DEFINE b == s.slots[idx]
           x == [b.streams EXCEPT !["Rate"] = @ - 1]
           left == IF b.in_flight > 0 THEN b.in_flight - 1 ELSE 0
           c == [b EXCEPT !.streams = x, !.in_flight = left]
           t == WithSlot(s, idx, c)
           u == Response([s EXCEPT !.slots[idx].streams["Rate"] = @ - 1], idx, "Rate", res, r)
<1>1. /\ s \in WorkerState /\ Inv(s, {}, 0) /\ b \in Conn /\ SlotInv(b, idx)
      /\ b.streams \in [Kinds -> Nat] /\ b.in_flight \in Nat
  BY Zenon, ConnTypes DEF WorkerInv, Inv, SlotsInv
<1>2. b.state = "ready" /\ b.in_flight <= b.streams["Rate"]
  <2>1. "Rate" \in Kinds /\ "Rate" # "Dial"
    BY DEF Kinds
  <2>2. b.state = "ready"
    BY Zenon, <1>1, <2>1, StreamState
  <2> QED  BY Zenon, <1>1, <2>2 DEF SlotInv
<1>3. /\ x \in [Kinds -> Nat] /\ x["Echo"] = b.streams["Echo"] /\ x["Dial"] = b.streams["Dial"]
      /\ left \in Nat /\ left <= x["Rate"]
  <2>1. b.streams["Rate"] > 0
    OBVIOUS
  <2> HIDE DEF b
  <2> QED  BY SMTT(30), <1>1, <1>2, <2>1 DEF Kinds
<1>4. t = [[s EXCEPT !.slots[idx].streams["Rate"] = @ - 1] EXCEPT
             !.slots[idx].in_flight = IF @ > 0 THEN @ - 1 ELSE 0]
  <2> DEFINE v == [s EXCEPT !.slots[idx].streams["Rate"] = @ - 1]
             d == [b EXCEPT !.streams = x]
  <2>1. v = WithSlot(s, idx, d) /\ v.slots[idx] = d
    BY Zenon, <1>1, WorkerTypes DEF WithSlot, WorkerState
  <2>2. d.in_flight = b.in_flight /\ c = [d EXCEPT !.in_flight = left]
    BY <1>1 DEF Conn
  <2> HIDE DEF d, c
  <2>3. t = WithSlot(v, idx, c)
    BY Zenon, <1>1, <2>1, WorkerTypes DEF WithSlot, WorkerState
  <2> HIDE DEF v, t
  <2> QED  BY Zenon, <1>2, <2>1, <2>2, <2>3 DEF WithSlot, v
<1> HIDE DEF x
<1>5. /\ c \in Conn /\ c.streams = x /\ c.state = b.state /\ c.dial = b.dial
      /\ c.h3 = b.h3 /\ c.queued = b.queued /\ c.in_flight = left
  <2>1. PICK y \in Nat : y = left
    BY <1>3
  <2>2. c = [b EXCEPT !.streams = x, !.in_flight = y]
    BY <2>1
  <2> HIDE DEF c
  <2> QED  BY Zenon, <1>1, <1>3, <2>1, <2>2 DEF Conn
<1> HIDE DEF c
<1> HIDE DEF left
<1>6. SlotInv(c, idx) /\ (Carries(c) <=> Carries(b))
  BY Zenon, <1>1, <1>2, <1>3, <1>5 DEF SlotInv, Carries
<1>7. Becomes(b, c, idx, {}, {})
  BY Zenon, <1>2, <1>5, <1>6 DEF Becomes
<1>8. Inv(t, {}, 0) /\ SlotOnly(s, t, idx, c)
  BY Zenon, <1>1, <1>5, <1>6, <1>7, SlotChange
<1>9. CASE s.phase.kind # "Rate"
  <2>1. u = t
    BY Zenon, <1>1, <1>4, <1>9 DEF Response, WorkerState
  <2> QED  BY <1>8, <2>1 DEF WorkerInv
<1>10. CASE s.phase.kind = "Rate"
  <2> DEFINE p == [t.phase EXCEPT !.answered = IF res = "err" THEN @ ELSE @ + 1,
                                  !.recv_times = IF res = "ok" THEN @ + 1 ELSE @]
  <2>1. t \in WorkerState /\ t.phase \in Phase /\ t.phase.kind = "Rate" /\ t.phase = s.phase
    BY Zenon, <1>8, <1>10, WorkerTypes DEF SlotOnly
  <2>2. u = [t EXCEPT !.phase = p]
    <3>1. u = [t EXCEPT !.phase.answered = IF res = "err" THEN @ ELSE @ + 1,
                        !.phase.recv_times = IF res = "ok" THEN @ + 1 ELSE @]
      BY Zenon, <1>1, <1>4, <1>10 DEF Response, WorkerState
    <3> HIDE DEF t, u
    <3> QED  BY Zenon, <2>1, <3>1 DEF WorkerState, Phase
  <2>3. p \in Phase /\ p.kind = "Rate"
    <3> HIDE DEF t
    <3>0. t.phase.answered \in Nat /\ t.phase.recv_times \in Nat
      BY <2>1, PhaseTypes
    <3>1. PICK y \in Nat : y = IF res = "err" THEN t.phase.answered ELSE t.phase.answered + 1
      BY <3>0
    <3>2. PICK z \in Nat : z = IF res = "ok" THEN t.phase.recv_times + 1 ELSE t.phase.recv_times
      BY <3>0
    <3>3. p = [t.phase EXCEPT !.answered = y, !.recv_times = z]
      BY <3>1, <3>2
    <3> HIDE DEF p
    <3> QED  BY Zenon, <2>1, <3>3 DEF Phase
  <2> HIDE DEF p, t, u
  <2>4. WorkerInv(u)
    BY Zenon, <1>8, <2>1, <2>2, <2>3, PhaseOnly
  <2> QED  BY <2>4 DEF u
<1> QED  BY <1>9, <1>10

(* process_conn, when a stream ends. *)
LEMMA StreamDoneInv ==
  ASSUME SetFacts, NEW s, NEW idx \in Slots, WorkerInv(s), NEW k \in Kinds,
         s.slots[idx].streams[k] > 0,
         NEW res \in {"ok", "bad", "err"}, NEW r \in {"ok", "blocked", "failed"},
         NEW rq \in {"ok", "blocked", "failed"}
  PROVE  /\ WorkerInv(Response([s EXCEPT !.slots[idx].streams[k] = @ - 1], idx, k, res, r))
         /\ WorkerInv(StreamDone(s, idx, k, res, r, rq))
<1> DEFINE t == Response([s EXCEPT !.slots[idx].streams[k] = @ - 1], idx, k, res, r)
<1>1. WorkerInv(t)
  <2>1. CASE k = "Dial"
    BY <2>1, DialStreamInv
  <2>2. CASE k = "Echo"
    BY Zenon, <2>2, EchoStreamInv
  <2>3. CASE k = "Rate"
    BY Zenon, <2>3, RateStreamInv
  <2> QED  BY Zenon, <2>1, <2>2, <2>3 DEF Kinds
<1> HIDE DEF t
<1>2. WorkerInv(SendQueued(t, idx, rq))
  BY Zenon, <1>1, SendQueuedInv
<1> QED  BY <1>1, <1>2 DEF StreamDone, t

(* process, when a connection closes. *)
LEMMA ClosedInv ==
  ASSUME SetFacts, NEW s, NEW idx \in Slots, WorkerInv(s)
  PROVE  WorkerInv(Closed(s, idx))
<1> DEFINE b == s.slots[idx]
           t == [s EXCEPT !.slots = [@ EXCEPT ![idx] = BrokenConn], !.ready = s.ready - 1]
<1>1. /\ s \in WorkerState /\ Inv(s, {}, 0) /\ SlotsInv(s) /\ b \in Conn /\ SlotInv(b, idx)
      /\ b.streams["Echo"] \in Nat /\ b.in_flight <= b.streams["Rate"] /\ b.in_flight \in Nat
      /\ b.streams["Rate"] \in Nat
      /\ b.queued \in Seq(Kinds)
  BY Zenon, ConnTypes DEF WorkerInv, Inv, SlotsInv, SlotInv, Kinds
<1>2. CASE b.state = "connecting"
  BY Zenon, <1>2, DialFailedInv DEF Closed
<1>3. CASE b.state \notin {"connecting", "ready"}
  BY <1>3 DEF Closed
<1>4. CASE b.state = "ready"
  <2> DEFINE carries == b.streams["Echo"] + Len(b.queued) > 0
             e == IF carries THEN EchoDone(s, idx, FALSE) ELSE s
  <2>1. carries <=> Carries(b)
    <3>1. CASE b.queued = <<>>
      <4>1. b.streams["Echo"] \in {0, 1} /\ Len(b.queued) = 0
        <5> HIDE DEF b
        <5> QED  BY SMTT(30), <1>1, <1>4, <3>1 DEF SlotInv
      <4> HIDE DEF b
      <4> QED  BY SMTT(30), <1>4, <3>1, <4>1 DEF Carries
    <3>2. CASE b.queued = <<"Echo">>
      <4>1. b.queued # <<>> /\ Len(b.queued) = 1
        BY <3>2
      <4> HIDE DEF b
      <4> QED  BY SMTT(30), <1>1, <1>4, <4>1 DEF Carries
    <3> QED  BY Zenon, <1>1, <1>4, <3>1, <3>2 DEF SlotInv
  <2>2. /\ s.ready \in Nat /\ s.ready >= 1
        /\ s.ready - 1 \in Nat
        /\ s.ready - 1 = s.ready + One(BrokenConn, "ready") - One(s.slots[idx], "ready")
    <3>1. InState(s, "ready") \in SUBSET Slots /\ idx \in InState(s, "ready")
      BY <1>4 DEF InState
    <3>2. Cardinality(InState(s, "ready") \ {idx}) = Cardinality(InState(s, "ready")) - 1
          /\ Cardinality(InState(s, "ready") \ {idx}) \in Nat
      BY Zenon, <3>1, CardDel, SlotsFinite
    <3>3. s.ready = Cardinality(InState(s, "ready")) /\ s.ready \in Nat
      BY Zenon, <1>1, WorkerTypes DEF SlotsInv
    <3>4. One(BrokenConn, "ready") = 0 /\ One(s.slots[idx], "ready") = 1
      BY <1>4, EmptyConns DEF One
    <3> QED  BY SMTT(30), <3>2, <3>3, <3>4
  <2>3. SlotOnly(s, t, idx, BrokenConn)
    BY Zenon, <1>1, <2>2, EmptyConns, SlotSet
  <2>4. ~Carries(BrokenConn) /\ SlotInv(BrokenConn, idx) /\ BrokenConn.state = "broken"
    BY EmptyConns DEF Carries
  <2>5. [BrokenConn EXCEPT !.in_flight = IF b.in_flight - b.streams["Rate"] > 0
                                         THEN b.in_flight - b.streams["Rate"] ELSE 0] = BrokenConn
    <3>1. ~(b.in_flight - b.streams["Rate"] > 0)
      BY <1>1
    <3>2. BrokenConn \in Conn /\ BrokenConn.in_flight = 0
      BY EmptyConns DEF BrokenConn, NoConn
    <3> QED  BY Zenon, <3>1, <3>2 DEF Conn
  <2>6. Closed(s, idx) = [e EXCEPT !.slots = [@ EXCEPT ![idx] = BrokenConn], !.ready = @ - 1]
    BY Zenon, <1>4, <2>5 DEF Closed
  <2>7. CASE Carries(b)
    <3>1. s.phase.kind = "Echo"
      <4>1. b.streams["Echo"] = 1 \/ b.queued # <<>>
        BY <1>4, <2>7 DEF Carries
      <4>2. s.phase.kind # "Echo" => b.streams["Echo"] = 0 /\ b.queued = <<>>
        BY Zenon, <1>1, <1>4 DEF Inv, NoEcho
      <4> HIDE DEF b
      <4> QED  BY SMTT(30), <4>1, <4>2
    <3>2. Becomes(b, BrokenConn, idx, {}, {idx})
      BY Zenon, <1>4, <2>4, <2>7 DEF Becomes
    <3>3. Inv(t, {idx}, 0)
      BY Zenon, <1>1, <2>3, <3>1, <3>2, SlotMove
    <3>4. /\ t.phase = s.phase /\ t.slots[idx] = BrokenConn
          /\ t.retries = s.retries
      BY SMTT(30), <1>1, <2>3, WorkerTypes DEF SlotOnly
    <3>5. ~Busy(t, idx)
      <4>1. ~Retried(s, idx)
        BY Zenon, <1>1, <1>4, UpNotRetried
      <4> QED  BY Zenon, <2>4, <3>4, <4>1 DEF Busy, Retried
    <3>6. WorkerInv(EchoDone(t, idx, FALSE))
      BY Zenon, <2>4, <3>1, <3>3, <3>4, <3>5, EchoDoneInv
    <3>7. Closed(s, idx) = EchoDone(t, idx, FALSE)
      <4>1. e = EchoDone(s, idx, FALSE)
        BY Zenon, <2>1, <2>7
      <4> DEFINE q == EchoPhase(s.phase, idx, FALSE)
      <4>2. e = [s EXCEPT !.phase = q] /\ s \in WorkerState
        BY Zenon, <1>1, <3>1, <4>1, EchoDonePhase DEF WithPhase
      <4>3. EchoDone(t, idx, FALSE) = [t EXCEPT !.phase = q]
        <5> HIDE DEF t
        <5>1. t \in WorkerState /\ t.phase.kind = "Echo"
          BY Zenon, <2>3, <3>1, <3>4 DEF SlotOnly
        <5>2. EchoDone(t, idx, FALSE) = WithPhase(t, EchoPhase(t.phase, idx, FALSE))
          BY Zenon, <5>1, EchoDonePhase
        <5> QED  BY Zenon, <3>4, <5>2 DEF WithPhase
      <4> HIDE DEF q, e
      <4> QED  BY Zenon, <2>6, <4>2, <4>3 DEF WorkerState
    <3> QED  BY Zenon, <3>6, <3>7
  <2>8. CASE ~Carries(b)
    <3>1. e = s /\ Closed(s, idx) = t
      BY Zenon, <2>1, <2>6, <2>8
    <3>2. Becomes(b, BrokenConn, idx, {}, {})
      BY Zenon, <1>4, <2>4, <2>8 DEF Becomes
    <3>3. Inv(t, {}, 0)
      BY SMTT(30), <1>1, <2>3, <2>4, <2>8, <3>2, SlotMove
    <3> QED  BY <3>1, <3>3 DEF WorkerInv
  <2> QED  BY <2>7, <2>8
<1> QED  BY Zenon, <1>2, <1>3, <1>4

-----------------------------------------------------------------------------
(* No handler changes the worker's benchmark, or where its loop is: a worker
   leaves a benchmark only by finish and starts one only on a command. *)

Shaped(s) ==
  /\ {"slots", "free", "len", "ready", "retries", "phase", "at"} \subseteq DOMAIN s
  /\ {"kind", "in_flight", "idle", "ok", "failed", "active", "redials",
      "answered", "recv_times"} \subseteq DOMAIN s.phase

Keeps(s, t) == Shaped(t) /\ t.at = s.at /\ t.phase.kind = s.phase.kind

(* A worker is a record, whose fields the other lemmas update. *)
LEMMA WorkerShaped ==
  ASSUME NEW s \in WorkerState
  PROVE  Shaped(s)
BY Zenon DEF WorkerState, Phase, Shaped

(* Two calls in a row keep what each keeps. *)
LEMMA KeepsTrans ==
  ASSUME NEW s, NEW t, NEW u, Keeps(s, t), Keeps(t, u)
  PROVE  Keeps(s, u)
BY DEF Keeps

(* Doing nothing keeps it. *)
LEMMA KeepsSelf ==
  ASSUME NEW s, Shaped(s)
  PROVE  Keeps(s, s)
BY DEF Keeps

(* An update of some other field. *)
LEMMA KeepsField ==
  ASSUME NEW s, Shaped(s)
  PROVE  /\ \A x : Keeps(s, [s EXCEPT !.slots = x])
         /\ \A x : Keeps(s, [s EXCEPT !.retries = x])
         /\ \A x, y : Keeps(s, [s EXCEPT !.slots = x, !.free = y])
         /\ \A x, y : Keeps(s, [s EXCEPT !.slots = x, !.ready = y])
         /\ \A x : Keeps(s, [s EXCEPT !.free = x])
         /\ \A x : Keeps(s, [s EXCEPT !.len = x])
<1> USE DEF Keeps, Shaped
<1>1. \A x : Keeps(s, [s EXCEPT !.slots = x])
  OBVIOUS
<1>2. \A x : Keeps(s, [s EXCEPT !.retries = x])
  OBVIOUS
<1>3. \A x, y : Keeps(s, [s EXCEPT !.slots = x, !.free = y])
  OBVIOUS
<1>4. \A x, y : Keeps(s, [s EXCEPT !.slots = x, !.ready = y])
  OBVIOUS
<1>5. \A x : Keeps(s, [s EXCEPT !.free = x])
  OBVIOUS
<1>6. \A x : Keeps(s, [s EXCEPT !.len = x])
  OBVIOUS
<1> QED  BY Zenon, <1>1, <1>2, <1>3, <1>4, <1>5, <1>6

(* An update of a counter of the phase. *)
LEMMA KeepsCounter ==
  ASSUME NEW s, Shaped(s)
  PROVE  /\ \A x, y : Keeps(s, [s EXCEPT !.phase.active = x, !.phase.failed = y])
         /\ \A x, y : Keeps(s, [s EXCEPT !.phase.active = x, !.phase.ok = y])
         /\ \A x : Keeps(s, [s EXCEPT !.phase.redials = x])
         /\ \A x, y : Keeps(s, [s EXCEPT !.phase.answered = x, !.phase.recv_times = y])
<1> USE DEF Keeps, Shaped
<1>1. \A x, y : Keeps(s, [s EXCEPT !.phase.active = x, !.phase.failed = y])
  BY Zenon
<1>2. \A x, y : Keeps(s, [s EXCEPT !.phase.active = x, !.phase.ok = y])
  BY Zenon
<1>3. \A x : Keeps(s, [s EXCEPT !.phase.redials = x])
  OBVIOUS
<1>4. \A x, y : Keeps(s, [s EXCEPT !.phase.answered = x, !.phase.recv_times = y])
  BY Zenon
<1> QED  BY Zenon, <1>1, <1>2, <1>3, <1>4

(* echo_done stays in its benchmark. *)
LEMMA EchoDoneKeeps ==
  ASSUME NEW s, Shaped(s), NEW idx, NEW ok
  PROVE  Keeps(s, EchoDone(s, idx, ok))
BY DEF EchoDone, Keeps, Shaped

(* dial_failed_job stays in its benchmark. *)
LEMMA DialFailedJobKeeps ==
  ASSUME NEW s, Shaped(s), NEW j
  PROVE  Keeps(s, DialFailedJob(s, j))
BY Zenon, EchoDoneKeeps, KeepsSelf, KeepsField, KeepsCounter DEF DialFailedJob

(* dial_failed stays in its benchmark. *)
LEMMA DialFailedKeeps ==
  ASSUME NEW s, Shaped(s), NEW idx
  PROVE  Keeps(s, DialFailed(s, idx))
<1> DEFINE j == s.slots[idx].dial
           t == [s EXCEPT !.slots[idx] = NoConn, !.free = Append(@, idx)]
           u == [s EXCEPT !.slots[idx] = BrokenConn]
<1>1. Keeps(s, t) /\ Keeps(s, u) /\ Keeps(s, s)
  BY Zenon, KeepsField, KeepsSelf
<1>2. /\ Keeps(t, DialFailedJob(t, [j EXCEPT !.slot = 0]))
      /\ Keeps(u, DialFailedJob(u, j))
  BY Zenon, <1>1, DialFailedJobKeeps DEF Keeps
<1>3. /\ Keeps(s, DialFailedJob(t, [j EXCEPT !.slot = 0]))
      /\ Keeps(s, DialFailedJob(u, j))
  BY <1>1, <1>2, KeepsTrans
<1> HIDE DEF j, t, u
<1> QED  BY Zenon, <1>1, <1>3 DEF DialFailed, j, t, u

(* try_send stays in its benchmark. *)
LEMMA TrySendKeeps ==
  ASSUME NEW s, Shaped(s), NEW idx, NEW k, NEW r
  PROVE  Keeps(s, TrySend(s, idx, k, r))
<1>1. /\ Keeps(s, [s EXCEPT !.slots[idx].streams[k] = @ + 1])
      /\ Keeps(s, [s EXCEPT !.slots[idx].closing = TRUE]) /\ Keeps(s, s)
  BY KeepsField, KeepsSelf, Zenon
<1> QED  BY <1>1, Zenon DEF TrySend

(* send_request stays in its benchmark. *)
LEMMA SendRequestKeeps ==
  ASSUME NEW s, Shaped(s), NEW idx, NEW k, NEW r
  PROVE  Keeps(s, SendRequest(s, idx, k, r))
<1>1. Keeps(s, [s EXCEPT !.slots[idx].queued = Append(@, k)])
  BY KeepsField, Zenon
<1> QED  BY <1>1, TrySendKeeps, Zenon DEF SendRequest

(* Sending a round trip stays in its benchmark. *)
LEMMA SendEchoKeeps ==
  ASSUME NEW s, Shaped(s), NEW idx, NEW r
  PROVE  Keeps(s, SendEcho(s, idx, r))
<1> DEFINE t == SendRequest(s, idx, "Echo", r)
<1>1. Keeps(s, t)
  BY SendRequestKeeps
<1>2. Keeps(t, EchoDone(t, idx, FALSE))
  BY <1>1, EchoDoneKeeps, Zenon DEF Keeps
<1>3. Keeps(s, EchoDone(t, idx, FALSE))
  BY <1>1, <1>2, KeepsTrans, Zenon
<1> QED  BY <1>1, <1>3, Zenon DEF SendEcho

(* dial_ok stays in its benchmark. *)
LEMMA DialOkKeeps ==
  ASSUME NEW s, Shaped(s), NEW idx, NEW r
  PROVE  Keeps(s, DialOk(s, idx, r))
<1> DEFINE j == s.slots[idx].dial
           t == [s EXCEPT !.slots[idx].state = "ready", !.slots[idx].dial = NoJob, !.ready = @ + 1]
           a == [t EXCEPT !.phase.active = @ - 1, !.phase.ok = @ + 1]
           b == [t EXCEPT !.phase.redials = @ - 1]
<1>1. Keeps(s, t) /\ Keeps(s, s)
  BY KeepsSelf, Zenon DEF Keeps, Shaped
<1>2. DialOk(s, idx, r) \in {s, a, SendEcho(t, idx, r), b, t}
  BY Zenon DEF DialOk
<1> HIDE DEF t, j
<1>3. Keeps(t, a) /\ Keeps(t, b) /\ Keeps(t, SendEcho(t, idx, r))
  <2>1. Shaped(t)
    BY <1>1 DEF Keeps
  <2> QED  BY <2>1, KeepsCounter, SendEchoKeeps, Zenon
<1> HIDE DEF a, b
<1>4. Keeps(s, a) /\ Keeps(s, b) /\ Keeps(s, SendEcho(t, idx, r))
  BY <1>1, <1>3, KeepsTrans, Zenon
<1> HIDE DEF a, b
<1> QED  BY <1>1, <1>2, <1>4

(* response stays in its benchmark. *)
LEMMA ResponseKeeps ==
  ASSUME NEW s, Shaped(s), NEW idx, NEW k \in Kinds, NEW res, NEW r
  PROVE  Keeps(s, Response(s, idx, k, res, r))
<1> DEFINE t == [s EXCEPT !.slots[idx].in_flight = IF @ > 0 THEN @ - 1 ELSE 0]
           a == [t EXCEPT !.phase.answered = IF res = "err" THEN @ ELSE @ + 1,
                          !.phase.recv_times = IF res = "ok" THEN @ + 1 ELSE @]
<1>1. Keeps(s, t)
  BY KeepsField, Zenon
<1> DEFINE v == Response(s, idx, k, res, r)
<1>2. \/ v = DialOk(s, idx, r) \/ v = DialFailed(s, idx) \/ v = EchoDone(s, idx, res = "ok")
      \/ v = t \/ v = a
  BY Zenon DEF Response, Kinds
<1> HIDE DEF t
<1>3. Keeps(t, a)
  BY <1>1, Zenon DEF Keeps, Shaped
<1> HIDE DEF a
<1>4. Keeps(s, a)
  BY <1>1, <1>3, KeepsTrans, Zenon
<1>5. /\ Keeps(s, DialOk(s, idx, r)) /\ Keeps(s, DialFailed(s, idx))
      /\ Keeps(s, EchoDone(s, idx, res = "ok"))
  BY Zenon, DialOkKeeps, DialFailedKeeps, EchoDoneKeeps
<1> HIDE DEF v
<1>6. Keeps(s, v)
  BY Zenon, <1>1, <1>2, <1>4, <1>5
<1> QED  BY <1>6 DEF v

(* send_queued stays in its benchmark. *)
LEMMA SendQueuedKeeps ==
  ASSUME NEW s, Shaped(s), NEW idx, NEW r,
         s.slots[idx].queued # <<>> => Head(s.slots[idx].queued) \in Kinds
  PROVE  Keeps(s, SendQueued(s, idx, r))
<1> DEFINE k == Head(s.slots[idx].queued)
           t == [s EXCEPT !.slots[idx].queued = Tail(@)]
           u == TrySend(t, idx, k, r)
<1>1. Keeps(s, s) /\ Keeps(s, t)
  BY KeepsField, KeepsSelf, Zenon
<1>2. SendQueued(s, idx, r) \in {s, u, Response(u, idx, k, "err", r)}
  BY Zenon DEF SendQueued
<1>3. SendQueued(s, idx, r) = s \/ s.slots[idx].queued # <<>>
  BY Zenon DEF SendQueued
<1> HIDE DEF t, k
<1>4. Keeps(s, u) /\ Shaped(u)
  <2>0. Shaped(t)
    BY <1>1 DEF Keeps
  <2>1. Keeps(t, u)
    BY <2>0, TrySendKeeps, Zenon
  <2>2. Keeps(s, u)
    BY <1>1, <2>1, KeepsTrans, Zenon
  <2> QED  BY <2>2 DEF Keeps
<1> HIDE DEF u
<1>5. CASE s.slots[idx].queued # <<>>
  <2>0. k \in Kinds
    BY Zenon, <1>5 DEF k
  <2>1. Keeps(u, Response(u, idx, k, "err", r))
    BY Zenon, <1>4, <2>0, ResponseKeeps
  <2>2. Keeps(s, Response(u, idx, k, "err", r))
    BY <1>4, <2>1, KeepsTrans, Zenon
  <2> QED  BY <1>1, <1>2, <1>4, <2>2, Zenon
<1> QED  BY <1>1, <1>3, <1>5, Zenon

(* dial stays in its benchmark. *)
LEMMA DialKeeps ==
  ASSUME NEW s, Shaped(s), NEW j, NEW r \in {"ok", "bind", "send"}
  PROVE  Keeps(s, Dial(s, j, r))
<1> DEFINE idx == IF j.slot = 0 THEN AllocIdx(s) ELSE j.slot
           t == TakeSlot(s, j)
           u == [t EXCEPT !.slots[idx] = NewConn([j EXCEPT !.slot = idx])]
<1>1. Keeps(s, t)
  BY KeepsField, Zenon DEF TakeSlot, AllocSlot
<1>2. Dial(s, j, r) \in {DialFailedJob(s, j), DialFailed(u, idx), u}
  BY Zenon DEF Dial
<1> HIDE DEF t, idx
<1>3. Keeps(t, u)
  BY <1>1, KeepsField, Zenon DEF Keeps
<1> HIDE DEF u
<1>4. Keeps(s, u) /\ Shaped(u)
  BY <1>1, <1>3, KeepsTrans, Zenon DEF Keeps
<1>5. Keeps(s, DialFailed(u, idx))
  <2>1. Keeps(u, DialFailed(u, idx))
    BY <1>4, DialFailedKeeps, Zenon
  <2> QED  BY <1>4, <2>1, KeepsTrans, Zenon
<1> QED  BY <1>2, <1>4, <1>5, DialFailedJobKeeps, Zenon

(* A connection that closes leaves the benchmark as it is. *)
LEMMA ClosedKeeps ==
  ASSUME NEW s, Shaped(s), NEW idx
  PROVE  Keeps(s, Closed(s, idx))
<1> DEFINE c == s.slots[idx]
           t == IF c.streams["Echo"] + Len(c.queued) > 0 THEN EchoDone(s, idx, FALSE) ELSE s
           left == c.in_flight - c.streams["Rate"]
           u == [t EXCEPT !.slots[idx] =
                            [BrokenConn EXCEPT !.in_flight = IF left > 0 THEN left ELSE 0],
                          !.ready = @ - 1]
<1>1. Keeps(s, s) /\ Keeps(s, EchoDone(s, idx, FALSE))
  BY Zenon, EchoDoneKeeps, KeepsSelf
<1>2. Keeps(s, t)
  BY Zenon, <1>1
<1>3. Closed(s, idx) \in {DialFailed(s, idx), u, s}
  BY Zenon DEF Closed
<1> HIDE DEF t
<1>4. Keeps(t, u)
  <2>1. Shaped(t)
    BY <1>2 DEF Keeps
  <2> QED  BY <2>1, KeepsField, Zenon
<1> HIDE DEF u
<1>5. Keeps(s, u)
  BY Zenon, <1>2, <1>4, KeepsTrans
<1>6. Keeps(s, DialFailed(s, idx))
  BY Zenon, DialFailedKeeps
<1> QED  BY <1>1, <1>3, <1>5, <1>6

(* drive_echo stays in its phase. *)
LEMMA EchoIssueKind ==
  ASSUME NEW s, Shaped(s), NEW rd \in {"ok", "bind", "send"}, NEW rs
  PROVE  EchoIssue(s, rd, rs).phase.kind = s.phase.kind
<1> DEFINE t == EchoTake(s)
           idx == Head(s.phase.idle)
           j == FirstDial("RedialEcho", idx)
           u == [t EXCEPT !.at = "panicked"]
<1>1. Shaped(t) /\ t.phase.kind = s.phase.kind
  BY Zenon DEF EchoTake, Shaped
<1>2. EchoIssue(s, rd, rs) \in {u, Dial(t, j, rd), SendEcho(t, idx, rs)}
  BY Zenon DEF EchoIssue
<1> HIDE DEF t, idx, j
<1>3. u.phase.kind = t.phase.kind
  BY Zenon, <1>1 DEF Shaped
<1>4. Dial(t, j, rd).phase.kind = t.phase.kind
  BY Zenon, <1>1, DialKeeps DEF Keeps
<1>5. SendEcho(t, idx, rs).phase.kind = t.phase.kind
  BY <1>1, SendEchoKeeps DEF Keeps
<1> HIDE DEF u
<1> QED  BY Zenon, <1>1, <1>2, <1>3, <1>4, <1>5

-----------------------------------------------------------------------------
(* Where a round trip is. *)

(* A slot that holds a connection is in one place during BenchEcho: it
   carries one round trip, or it is in the list of idle ones, once. *)
LEMMA OnePlace ==
  ASSUME NEW s, WorkerInv(s), s.phase.kind = "Echo", NEW i \in Slots
  PROVE  /\ RoundTrips(s, i) # {} <=> Busy(s, i)
         /\ s.slots[i].state = "vacant" => Places(s, i) = {}
         /\ s.slots[i].state # "vacant" => \E p \in Places(s, i) : Places(s, i) = {p}
<1> DEFINE c == s.slots[i]
           A == {<<"stream", n>> : n \in 1..c.streams["Echo"]}
           B == {<<"queued", n>> : n \in {m \in DOMAIN c.queued : c.queued[m] = "Echo"}}
           C == {<<"dial", n>> : n \in {m \in {0} : c.dial.purpose = "RedialEcho"}}
           D == {<<"retry", n>> : n \in {m \in DOMAIN s.retries :
                                            /\ s.retries[m].purpose = "RedialEcho"
                                            /\ s.retries[m].slot = i}}
           E == {<<"idle", n>> : n \in {m \in DOMAIN s.phase.idle : s.phase.idle[m] = i}}
<1>1. /\ s \in WorkerState /\ SlotInv(c, i) /\ DialsFor(s, "RedialEcho") /\ IsInjective(s.phase.idle)
      /\ (i \in Range(s.phase.idle) <=> c.state # "vacant" /\ ~Busy(s, i))
  BY DEF WorkerInv, Inv, SlotsInv, DialsInv, EchoInv
<1>2. RoundTrips(s, i) = A \cup B \cup C \cup D /\ Places(s, i) = A \cup B \cup C \cup D \cup E
  BY Zenon DEF RoundTrips, Places
<1>3. c.streams["Echo"] = 0 => A = {}
  <2>1. 1..0 = {}
    OBVIOUS
  <2> QED  BY Zenon, <2>1
<1>4. c.streams["Echo"] = 1 => \E x : A = {x}
  <2> SUFFICES ASSUME c.streams["Echo"] = 1  PROVE  \E x : A = {x}
    OBVIOUS
  <2> DEFINE S == 1..c.streams["Echo"]
  <2>1. S = {1}
    OBVIOUS
  <2> HIDE DEF S
  <2>2. {<<"stream", n>> : n \in S} = {<<"stream", 1>>}
    BY <2>1
  <2> QED  BY Zenon, <2>2 DEF S
<1>5. c.queued \in {<<>>, <<"Dial">>} => B = {}
  <2>1. ASSUME c.queued \in {<<>>, <<"Dial">>}
        PROVE  {m \in DOMAIN c.queued : c.queued[m] = "Echo"} = {}
    BY <2>1
  <2> QED  BY Zenon, <2>1
<1>6. c.queued = <<"Echo">> => \E x : B = {x}
  <2> SUFFICES ASSUME c.queued = <<"Echo">>  PROVE  \E x : B = {x}
    BY Zenon
  <2> DEFINE S == {m \in DOMAIN c.queued : c.queued[m] = "Echo"}
  <2>1. S = {1}
    OBVIOUS
  <2> HIDE DEF S
  <2>2. {<<"queued", n>> : n \in S} = {<<"queued", 1>>}
    BY <2>1
  <2> QED  BY Zenon, <2>2 DEF S
<1>7. c.dial = NoJob => C = {}
  <2>1. NoJob.purpose # "RedialEcho"
    BY DEF NoJob
  <2> QED  BY Zenon, <2>1
<1>8. c.dial.purpose = "RedialEcho" => \E x : C = {x}
  BY Zenon
<1>9. s.retries \in Seq(Job) /\ s.phase \in Phase
  BY <1>1 DEF WorkerState
<1>10. s.phase.idle \in Seq(Slots)
  BY Zenon, <1>9 DEF Phase
<1>11. DOMAIN s.retries = 1..Len(s.retries) /\ DOMAIN s.phase.idle = 1..Len(s.phase.idle)
  BY <1>9, <1>10
<1>12. ~Retried(s, i) => D = {}
  BY Zenon, <1>11 DEF Retried
<1>13. Retried(s, i) => \E x : D = {x}
  <2> SUFFICES ASSUME Retried(s, i)  PROVE  \E x : D = {x}
    BY Zenon
  <2>1. PICK n \in 1..Len(s.retries) : s.retries[n].slot = i
    BY DEF Retried
  <2>2. s.retries[n].purpose = "RedialEcho"
    BY <1>1 DEF DialsFor
  <2>3. \A m \in 1..Len(s.retries) : s.retries[m].slot = i => m = n
    BY <1>1, <2>1 DEF DialsFor
  <2> DEFINE S == {m \in DOMAIN s.retries :
                     s.retries[m].purpose = "RedialEcho" /\ s.retries[m].slot = i}
  <2>4. S = {n}
    BY Zenon, <1>11, <2>1, <2>2, <2>3
  <2> HIDE DEF S
  <2>5. {<<"retry", m>> : m \in S} = {<<"retry", n>>}
    BY <2>4
  <2> QED  BY Zenon, <2>5 DEF S
<1>14. Retried(s, i) => c.state = "broken"
  BY <1>1 DEF Retried, DialsFor
<1>15. i \notin Range(s.phase.idle) => E = {}
  BY Zenon DEF Range
<1>16. i \in Range(s.phase.idle) => \E x : E = {x}
  <2> SUFFICES ASSUME i \in Range(s.phase.idle)  PROVE  \E x : E = {x}
    OBVIOUS
  <2>1. PICK n \in DOMAIN s.phase.idle : s.phase.idle[n] = i
    BY DEF Range
  <2>2. \A m \in DOMAIN s.phase.idle : s.phase.idle[m] = i => m = n
    BY Zenon, <1>1, <2>1 DEF IsInjective
  <2> DEFINE S == {m \in DOMAIN s.phase.idle : s.phase.idle[m] = i}
  <2>3. S = {n}
    BY Zenon, <2>1, <2>2
  <2> HIDE DEF S
  <2>4. {<<"idle", m>> : m \in S} = {<<"idle", n>>}
    BY <2>3
  <2> QED  BY Zenon, <2>4 DEF S
<1>17. c.state \in {"vacant", "connecting", "ready", "broken"}
  BY <1>1 DEF WorkerState, Conn
<1> HIDE DEF A, B, C, D, E
<1>18. CASE c.state = "vacant"
  <2>0. c = NoConn
    BY <1>1, <1>18 DEF SlotInv
  <2>1. c.streams["Echo"] = 0 /\ c.queued = <<>> /\ c.dial = NoJob
    BY <2>0 DEF NoConn, NoStreams, Kinds
  <2>2. ~Retried(s, i) /\ ~Busy(s, i) /\ i \notin Range(s.phase.idle)
    BY <1>1, <1>14, <1>18 DEF Busy, Carries
  <2> QED  BY <1>2, <1>3, <1>5, <1>7, <1>12, <1>15, <1>18, <2>1, <2>2
<1>19. CASE c.state = "connecting"
  <2>1. c.streams["Echo"] = 0 /\ c.queued \in {<<>>, <<"Dial">>}
    BY <1>1, <1>19 DEF SlotInv
  <2>2. c.dial.purpose = "RedialEcho"
    BY <1>1, <1>19 DEF DialsFor
  <2>3. ~Retried(s, i) /\ Busy(s, i) /\ i \notin Range(s.phase.idle)
    BY <1>1, <1>14, <1>19 DEF Busy, Carries
  <2>4. A = {} /\ B = {} /\ D = {} /\ E = {}
    BY <1>3, <1>5, <1>12, <1>15, <2>1, <2>3
  <2>5. PICK x : C = {x}
    BY Zenon, <1>8, <2>2
  <2>6. RoundTrips(s, i) = {x} /\ Places(s, i) = {x}
    BY <1>2, <2>4, <2>5
  <2> QED  BY <1>19, <2>3, <2>6
<1>20. CASE c.state = "broken"
  <2>1. c.streams["Echo"] = 0 /\ c.queued = <<>> /\ c.dial = NoJob
    BY <1>1, <1>20 DEF SlotInv, NoStreams, Kinds
  <2>2. A = {} /\ B = {} /\ C = {}
    BY <1>3, <1>5, <1>7, <2>1
  <2>3. Busy(s, i) <=> Retried(s, i)
    BY <1>20 DEF Busy, Carries
  <2>4. CASE Retried(s, i)
    <3>1. E = {}
      BY <1>1, <1>15, <2>3, <2>4
    <3>2. PICK x : D = {x}
      BY <1>13, <2>4
    <3>3. RoundTrips(s, i) = {x} /\ Places(s, i) = {x}
      BY <1>2, <2>2, <3>1, <3>2
    <3> QED  BY <1>20, <2>3, <2>4, <3>3
  <2>5. CASE ~Retried(s, i)
    <3>1. D = {} /\ i \in Range(s.phase.idle)
      BY <1>1, <1>12, <1>20, <2>3, <2>5
    <3>2. PICK x : E = {x}
      BY Zenon, <1>16, <3>1
    <3>3. RoundTrips(s, i) = {} /\ Places(s, i) = {x}
      BY <1>2, <2>2, <3>1, <3>2
    <3> QED  BY <1>20, <2>3, <2>5, <3>3
  <2> QED  BY <2>4, <2>5
<1>21. CASE c.state = "ready"
  <2>1. /\ c.dial = NoJob /\ c.queued \in {<<>>, <<"Echo">>} /\ c.streams["Echo"] <= 1
        /\ c.queued = <<>> \/ c.streams["Echo"] = 0
    BY <1>1, <1>21 DEF SlotInv
  <2>2. c.streams["Echo"] \in Nat
    <3>1. c \in Conn
      BY <1>1 DEF WorkerState
    <3>2. c.streams \in [Kinds -> Nat]
      BY Zenon, <3>1 DEF Conn
    <3> QED  BY <3>2 DEF Kinds
  <2>3. C = {} /\ D = {} /\ ~Retried(s, i)
    BY <1>7, <1>12, <1>14, <1>21, <2>1
  <2>4. Busy(s, i) <=> c.streams["Echo"] = 1 \/ c.queued # <<>>
    BY <1>21, <2>3 DEF Busy, Carries
  <2>5. CASE c.streams["Echo"] = 1
    <3>1. B = {} /\ E = {}
      BY <1>1, <1>5, <1>15, <2>1, <2>4, <2>5
    <3>2. PICK x : A = {x}
      BY <1>4, <2>5
    <3>3. RoundTrips(s, i) = {x} /\ Places(s, i) = {x}
      BY <1>2, <2>3, <3>1, <3>2
    <3> QED  BY <1>21, <2>4, <2>5, <3>3
  <2>6. CASE c.queued # <<>>
    <3>1. A = {} /\ E = {} /\ c.queued = <<"Echo">>
      BY <1>1, <1>3, <1>15, <2>1, <2>4, <2>6
    <3>2. PICK x : B = {x}
      BY <1>6, <3>1
    <3>3. RoundTrips(s, i) = {x} /\ Places(s, i) = {x}
      BY <1>2, <2>3, <3>1, <3>2
    <3> QED  BY <1>21, <2>4, <2>6, <3>3
  <2>7. CASE c.streams["Echo"] = 0 /\ c.queued = <<>>
    <3>1. A = {} /\ B = {} /\ i \in Range(s.phase.idle)
      BY <1>1, <1>3, <1>5, <1>21, <2>4, <2>7
    <3>2. PICK x : E = {x}
      BY <1>16, <3>1
    <3>3. RoundTrips(s, i) = {} /\ Places(s, i) = {x}
      BY <1>2, <2>3, <3>1, <3>2
    <3> QED  BY <1>21, <2>4, <2>7, <3>3
  <2>8. c.streams["Echo"] = 1 \/ c.queued # <<>> \/ (c.streams["Echo"] = 0 /\ c.queued = <<>>)
    BY <2>1, <2>2
  <2> QED  BY Zenon, <2>5, <2>6, <2>7, <2>8
<1> QED  BY <1>17, <1>18, <1>19, <1>20, <1>21
=============================================================================
