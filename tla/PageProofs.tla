----------------------------- MODULE PageProofs -----------------------------
(***************************************************************************)
(* What the steps of a worker enter in its page of the books (PageKeeps of *)
(* module WorkerPages): the dials it was asked for, the round trips it     *)
(* drew and ended, and what its connections have in flight.  First the     *)
(* totals over a worker's connections, then a lemma for each method of     *)
(* engine.rs that changes what they count.                                 *)
(***************************************************************************)
EXTENDS WorkerPages, SetFacts, TLAPS

-----------------------------------------------------------------------------
(* Totals. *)

(* What a total counts. *)
Units(f, n) == UNION {{i} \X (1..f[i]) : i \in 1..n}

(* A unit is a position and a number up to what is there. *)
LEMMA UnitsAre ==
  ASSUME NEW n, NEW f
  PROVE  \A x : x \in Units(f, n) <=> \E i \in 1..n : \E k \in 1..f[i] : x = <<i, k>>
BY DEF Units

(* The units of naturals are finitely many. *)
LEMMA UnitsFinite ==
  ASSUME SetFacts, NEW n \in Nat, NEW f \in [1..n -> Nat]
  PROVE  IsFiniteSet(Units(f, n)) /\ Total(f, n) = Cardinality(Units(f, n)) /\ Total(f, n) \in Nat
<1> DEFINE P(i) == {i} \X (1..f[i])
           S == {P(i) : i \in 1..n}
<1>1. \A i \in 1..n : IsFiniteSet(P(i))
  <2> SUFFICES ASSUME NEW i \in 1..n  PROVE  IsFiniteSet(P(i))
    OBVIOUS
  <2>1. IsFiniteSet({i})
    BY Zenon DEF SetFacts, CountSingle
  <2>2. f[i] \in Nat
    OBVIOUS
  <2>3. IsFiniteSet(1..f[i])
    BY <2>2 DEF SetFacts, CountInterval
  <2> QED  BY <2>1, <2>3 DEF SetFacts, CountProduct
<1>2. IsFiniteSet(S)
  <2>1. IsFiniteSet(1..n)
    BY DEF SetFacts, CountInterval
  <2> HIDE DEF P
  <2> DEFINE g == [i \in 1..n |-> P(i)]
  <2>2. g \in Surjection(1..n, S)
    BY DEF Surjection
  <2> QED  BY <2>1, <2>2 DEF SetFacts, CountSurjection
<1>3. \A x \in S : IsFiniteSet(x)
  BY Zenon, <1>1
<1>4. IsFiniteSet(Units(f, n))
  BY Zenon, <1>2, <1>3 DEF Units, SetFacts, CountUNION
<1>5. Total(f, n) = Cardinality(Units(f, n))
  BY Zenon DEF Total, Units
<1> QED  BY <1>4, <1>5 DEF SetFacts, CountIsNat

(* A total of less is no more. *)
LEMMA TotalMonotone ==
  ASSUME SetFacts, NEW n \in Nat, NEW f \in [1..n -> Nat], NEW g \in [1..n -> Nat],
         \A i \in 1..n : g[i] <= f[i]
  PROVE  Total(g, n) <= Total(f, n)
<1>0. /\ IsFiniteSet(Units(f, n)) /\ Total(f, n) = Cardinality(Units(f, n))
      /\ Total(g, n) = Cardinality(Units(g, n))
  BY Zenon, UnitsFinite
<1>1. Units(g, n) \subseteq Units(f, n)
  <2> SUFFICES ASSUME NEW x \in Units(g, n)  PROVE  x \in Units(f, n)
    OBVIOUS
  <2>0. PICK i \in 1..n : \E k \in 1..g[i] : x = <<i, k>>
    BY UnitsAre
  <2>1. PICK k \in 1..g[i] : x = <<i, k>>
    BY <2>0
  <2>2. k \in 1..f[i]
    OBVIOUS
  <2> QED  BY <2>1, <2>2, UnitsAre
<1>2. Cardinality(Units(g, n)) <= Cardinality(Units(f, n))
  BY Zenon, <1>0, <1>1 DEF SetFacts, CountSubset
<1> QED  BY <1>0, <1>2

(* One less at one place, and no more elsewhere. *)
LEMMA TotalLess ==
  ASSUME SetFacts, NEW n \in Nat, NEW f \in [1..n -> Nat], NEW g \in [1..n -> Nat],
         \A i \in 1..n : g[i] <= f[i], NEW m \in 1..n, g[m] < f[m]
  PROVE  Total(g, n) + 1 <= Total(f, n)
<1> DEFINE u == <<m, f[m]>>
<1>0. /\ IsFiniteSet(Units(f, n)) /\ Total(f, n) = Cardinality(Units(f, n))
      /\ Total(g, n) = Cardinality(Units(g, n)) /\ Total(f, n) \in Nat /\ Total(g, n) \in Nat
  BY Zenon, UnitsFinite
<1>1. u \in Units(f, n)
  <2>1. f[m] \in 1..f[m]
    OBVIOUS
  <2> QED  BY Zenon, <2>1, UnitsAre
<1>2. Units(g, n) \subseteq Units(f, n) \ {u}
  <2> SUFFICES ASSUME NEW x \in Units(g, n)  PROVE  x \in Units(f, n) /\ x # u
    OBVIOUS
  <2>0. PICK i \in 1..n : \E k \in 1..g[i] : x = <<i, k>>
    BY UnitsAre
  <2>1. PICK k \in 1..g[i] : x = <<i, k>>
    BY <2>0
  <2>2. k \in 1..f[i]
    OBVIOUS
  <2>3. x # u
    BY <2>1
  <2> QED  BY <2>1, <2>2, <2>3, UnitsAre
<1>3. /\ IsFiniteSet(Units(f, n) \ {u})
      /\ Cardinality(Units(f, n) \ {u}) = Cardinality(Units(f, n)) - 1
  BY Zenon, <1>0, <1>1 DEF SetFacts, CountRemove
<1>4. Cardinality(Units(g, n)) <= Cardinality(Units(f, n) \ {u})
  BY Zenon, <1>2, <1>3 DEF SetFacts, CountSubset
<1> HIDE DEF u
<1> QED  BY <1>0, <1>3, <1>4

(* As many more at one place. *)
LEMMA TotalPlus ==
  ASSUME SetFacts, NEW n \in Nat, NEW f \in [1..n -> Nat], NEW m \in 1..n, NEW d \in Nat,
         NEW g \in [1..n -> Nat], g[m] = f[m] + d, \A i \in 1..n : i # m => g[i] = f[i]
  PROVE  Total(g, n) <= Total(f, n) + d
<1> DEFINE a == f[m]
           V == {<<m, k>> : k \in (a + 1)..(a + d)}
<1>0. a \in Nat /\ g \in [1..n -> Nat]
  OBVIOUS
<1>9. /\ IsFiniteSet(Units(f, n)) /\ Total(f, n) = Cardinality(Units(f, n))
       /\ Total(g, n) = Cardinality(Units(g, n)) /\ Total(f, n) \in Nat /\ Total(g, n) \in Nat
  BY Zenon, <1>0, UnitsFinite
<1>1. Units(g, n) \subseteq Units(f, n) \cup V
  <2> HIDE DEF V
  <2> SUFFICES ASSUME NEW x \in Units(g, n)  PROVE  x \in Units(f, n) \cup V
    BY Zenon
  <2>0. PICK i \in 1..n : \E k \in 1..g[i] : x = <<i, k>>
    BY UnitsAre
  <2>1. PICK k \in 1..g[i] : x = <<i, k>>
    BY <2>0
  <2>2. CASE i = m /\ k > a
    <3>1. k \in (a + 1)..(a + d)
      BY <2>2, <1>0
    <3> QED  BY Zenon, <2>1, <2>2, <3>1 DEF V
  <2>3. CASE ~(i = m /\ k > a)
    <3>1. k \in 1..f[i]
      BY <2>3, <1>0
    <3> QED  BY Zenon, <2>1, <3>1, UnitsAre
  <2> QED  BY <2>2, <2>3
<1>2. IsFiniteSet(V) /\ Cardinality(V) = d
  <2> DEFINE I == (a + 1)..(a + d)
             h == [k \in I |-> <<m, k>>]
  <2>1. IsFiniteSet(I) /\ Cardinality(I) = d
    <3>1. PICK p \in Int, q \in Int : p = a + 1 /\ q = a + d
      BY <1>0
    <3>2. IsFiniteSet(p..q) /\ Cardinality(p..q) = IF p > q THEN 0 ELSE q - p + 1
      BY Zenon DEF SetFacts, CountInterval
    <3>3. Cardinality(p..q) = d
      BY <1>0, <3>1, <3>2
    <3> QED  BY Zenon, <3>1, <3>2, <3>3
  <2>2. h \in Bijection(I, V)
    <3>1. h \in [I -> V] /\ \A x, y \in I : h[x] = h[y] => x = y
      BY Zenon
    <3>2. \A v \in V : \E x \in I : h[x] = v
      BY Zenon
    <3> HIDE DEF h, V, I
    <3> QED  BY Zenon, <3>1, <3>2 DEF Bijection, Injection, Surjection, IsInjective
  <2> HIDE DEF I, h, V
  <2>3. ExistsBijection(I, V)
    BY Zenon, <2>2 DEF ExistsBijection
  <2> QED  BY Zenon, <2>1, <2>3 DEF SetFacts, CountBijection
<1>3. /\ IsFiniteSet(Units(f, n) \cup V)
      /\ Cardinality(Units(f, n) \cup V) <= Cardinality(Units(f, n)) + d
  <2>1. Cardinality(Units(f, n) \cap V) \in Nat
    BY Zenon, <1>2, <1>9 DEF SetFacts, CountUnion, CountIsNat
  <2>2. /\ IsFiniteSet(Units(f, n) \cup V)
        /\ Cardinality(Units(f, n) \cup V)
             = Cardinality(Units(f, n)) + Cardinality(V) - Cardinality(Units(f, n) \cap V)
    BY Zenon, <1>2, <1>9 DEF SetFacts, CountUnion
  <2>3. Cardinality(Units(f, n)) \in Nat
    BY Zenon, <1>9
  <2> HIDE DEF V
  <2> QED  BY <1>2, <2>1, <2>2, <2>3
<1> HIDE DEF V
<1>4. Cardinality(Units(g, n)) <= Cardinality(Units(f, n) \cup V)
  BY Zenon, <1>1, <1>3 DEF SetFacts, CountSubset
<1>5. Cardinality(Units(f, n) \cup V) \in Nat
  BY <1>3 DEF SetFacts, CountIsNat
<1> QED  BY <1>3, <1>4, <1>5, <1>9

-----------------------------------------------------------------------------
(* What a handler of a worker does to the books: Moves is kept by calls in a
   row, so that it is shown for the calls a handler is made of. *)

(* The fields that the handlers update. *)
Formed(s) ==
  /\ {"slots", "free", "len", "ready", "retries", "phase", "at"} \subseteq DOMAIN s
  /\ {"kind", "in_flight", "idle", "ok", "failed", "active", "redials", "answered",
      "recv_times", "measure", "slots", "exhausted", "remaining", "concurrency",
      "send_times"} \subseteq DOMAIN s.phase
  /\ s.phase.in_flight \in Int /\ s.phase.ok \in Int /\ s.phase.failed \in Int
  /\ s.phase.active \in Int /\ s.phase.answered \in Int /\ s.phase.recv_times \in Int

(* A connection c in a benchmark of kind k: dialed for that benchmark, with no
   request of BenchMultiplex queued or uncounted. *)
FitConn(c, k) ==
  /\ c \in Conn
  /\ c.dial # NoJob <=> c.state = "connecting"
  /\ c.state = "connecting" => (c.dial.purpose = "New" <=> k = "Dial")
  /\ c.in_flight = c.streams["Rate"]
  /\ c.queued \in Seq({"Dial", "Echo"})

(* Each connection fits the benchmark of the worker. *)
Fit(s) ==
  /\ Formed(s)
  /\ s.slots \in [Slots -> Conn]
  /\ \A i \in Slots : FitConn(s.slots[i], s.phase.kind)

(* The counters of the phase before and after. *)
Balanced(p, q) ==
  /\ q.kind = p.kind /\ q.measure = p.measure /\ q.slots = p.slots
  /\ q.exhausted = p.exhausted /\ q.remaining = p.remaining
  /\ q.concurrency = p.concurrency /\ q.send_times = p.send_times
  /\ q.active <= p.active /\ p.ok <= q.ok
  /\ p.kind = "Dial" => q.active + q.ok + q.failed = p.active + p.ok + p.failed
  /\ p.kind = "Echo" /\ p.measure =>
       q.in_flight + q.ok + q.failed = p.in_flight + p.ok + p.failed
  /\ q.recv_times - p.recv_times <= q.answered - p.answered

(* The slots before and after, beside the counters. *)
Seated(s, t) ==
  /\ \A i \in Slots : t.slots[i].in_flight <= s.slots[i].in_flight
  /\ s.phase.kind # "Dial" => Occupied(t) = Occupied(s)
  /\ s.phase.kind = "Dial" =>
       Cardinality(Made(t)) + s.phase.ok <= Cardinality(Made(s)) + t.phase.ok
  /\ s.phase.kind = "Rate" =>
       InFlight(t) + t.phase.answered <= InFlight(s) + s.phase.answered

(* A call that moves a worker from s to t starts no dial and no request of the
   benchmark, and keeps the books. *)
Moves(s, t) ==
  /\ Fit(t)
  /\ t.at = s.at /\ t.len = s.len
  /\ Balanced(s.phase, t.phase)
  /\ Seated(s, t)
  /\ \A i \in Slots : NoNewDial(s.slots[i], t.slots[i])

(* The numbers of the books are integers. *)
LEMMA FitCounts ==
  ASSUME SetFacts, NEW s, Fit(s)
  PROVE  /\ Cardinality(Made(s)) \in Nat /\ IsFiniteSet(Made(s)) /\ InFlight(s) \in Nat
         /\ \A i \in Slots : s.slots[i].in_flight \in Nat
         /\ s.phase.in_flight \in Int /\ s.phase.ok \in Int /\ s.phase.failed \in Int
         /\ s.phase.active \in Int /\ s.phase.answered \in Int /\ s.phase.recv_times \in Int
<1>1. IsFiniteSet(Slots)
  BY WorkerAssumption DEF Slots, SetFacts, CountInterval
<1>2. Made(s) \subseteq Slots
  BY DEF Made, InState
<1>3. Cardinality(Made(s)) \in Nat /\ IsFiniteSet(Made(s))
  BY Zenon, <1>1, <1>2 DEF SetFacts, CountSubset, CountIsNat
<1>4. \A i \in Slots : s.slots[i].in_flight \in Nat
  BY DEF Fit, Conn
<1>5. InFlight(s) \in Nat
  <2> DEFINE f == [i \in Slots |-> s.slots[i].in_flight]
  <2>1. f \in [1..MaxSlots -> Nat] /\ MaxSlots \in Nat
    BY <1>4, WorkerAssumption DEF Slots
  <2> HIDE DEF f
  <2>2. Total(f, MaxSlots) \in Nat
    BY Zenon, <2>1, UnitsFinite
  <2> QED  BY Zenon, <2>2 DEF InFlight, f
<1> QED  BY Zenon, <1>3, <1>4, <1>5 DEF Fit, Formed

(* Two calls in a row. *)
LEMMA BalancedTrans ==
  ASSUME NEW p, NEW q, NEW r, Balanced(p, q), Balanced(q, r),
         \A x \in {p, q, r} : /\ x.in_flight \in Int /\ x.ok \in Int /\ x.failed \in Int
                              /\ x.active \in Int /\ x.answered \in Int /\ x.recv_times \in Int
  PROVE  Balanced(p, r)
<1>1. /\ r.kind = p.kind /\ r.measure = p.measure /\ r.slots = p.slots
      /\ r.exhausted = p.exhausted /\ r.remaining = p.remaining
      /\ r.concurrency = p.concurrency /\ r.send_times = p.send_times
  BY Zenon DEF Balanced
<1>2. /\ r.active <= p.active /\ p.ok <= r.ok
      /\ r.recv_times - p.recv_times <= r.answered - p.answered
  BY DEF Balanced
<1>3. p.kind = "Dial" => r.active + r.ok + r.failed = p.active + p.ok + p.failed
  BY Zenon DEF Balanced
<1>4. p.kind = "Echo" /\ p.measure =>
        r.in_flight + r.ok + r.failed = p.in_flight + p.ok + p.failed
  BY Zenon DEF Balanced
<1> QED  BY Zenon, <1>1, <1>2, <1>3, <1>4 DEF Balanced

(* Two calls in a row, for the slots. *)
LEMMA SeatedTrans ==
  ASSUME SetFacts, NEW s, NEW t, NEW u, Fit(s), Fit(t), Fit(u), t.phase.kind = s.phase.kind,
         Seated(s, t), Seated(t, u)
  PROVE  Seated(s, u)
<1>1. \A i \in Slots : u.slots[i].in_flight <= s.slots[i].in_flight
  <2> SUFFICES ASSUME NEW i \in Slots  PROVE  u.slots[i].in_flight <= s.slots[i].in_flight
    OBVIOUS
  <2>1. /\ s.slots[i].in_flight \in Nat /\ t.slots[i].in_flight \in Nat
        /\ u.slots[i].in_flight \in Nat
    BY Zenon, FitCounts
  <2>2. /\ u.slots[i].in_flight <= t.slots[i].in_flight
        /\ t.slots[i].in_flight <= s.slots[i].in_flight
    BY Zenon DEF Seated
  <2> QED  BY <2>1, <2>2
<1>2. s.phase.kind # "Dial" => Occupied(u) = Occupied(s)
  BY Zenon DEF Seated
<1>3. ASSUME s.phase.kind = "Dial"
      PROVE  Cardinality(Made(u)) + s.phase.ok <= Cardinality(Made(s)) + u.phase.ok
  <2>1. /\ Cardinality(Made(t)) + s.phase.ok <= Cardinality(Made(s)) + t.phase.ok
        /\ Cardinality(Made(u)) + t.phase.ok <= Cardinality(Made(t)) + u.phase.ok
    BY Zenon, <1>3 DEF Seated
  <2>2. /\ Cardinality(Made(s)) \in Nat /\ Cardinality(Made(t)) \in Nat
        /\ Cardinality(Made(u)) \in Nat
        /\ s.phase.ok \in Int /\ t.phase.ok \in Int /\ u.phase.ok \in Int
    BY Zenon, FitCounts
  <2> QED  BY <2>1, <2>2
<1>4. ASSUME s.phase.kind = "Rate"
      PROVE  InFlight(u) + u.phase.answered <= InFlight(s) + s.phase.answered
  <2>1. /\ InFlight(t) + t.phase.answered <= InFlight(s) + s.phase.answered
        /\ InFlight(u) + u.phase.answered <= InFlight(t) + t.phase.answered
    BY Zenon, <1>4 DEF Seated
  <2>2. /\ InFlight(s) \in Nat /\ InFlight(t) \in Nat /\ InFlight(u) \in Nat
        /\ s.phase.answered \in Int /\ t.phase.answered \in Int /\ u.phase.answered \in Int
    BY Zenon, FitCounts
  <2> QED  BY <2>1, <2>2
<1> QED  BY Zenon, <1>1, <1>2, <1>3, <1>4 DEF Seated

(* Two calls in a row. *)
LEMMA MovesTrans ==
  ASSUME SetFacts, NEW s, NEW t, NEW u, Fit(s), Moves(s, t), Moves(t, u)
  PROVE  Moves(s, u)
<1>1. Fit(t) /\ Fit(u) /\ t.phase.kind = s.phase.kind /\ u.at = s.at /\ u.len = s.len
  BY Zenon DEF Moves, Balanced
<1>2. Balanced(s.phase, u.phase)
  <2>1. Balanced(s.phase, t.phase) /\ Balanced(t.phase, u.phase)
    BY Zenon DEF Moves
  <2>2. \A x \in {s.phase, t.phase, u.phase} :
          /\ x.in_flight \in Int /\ x.ok \in Int /\ x.failed \in Int
          /\ x.active \in Int /\ x.answered \in Int /\ x.recv_times \in Int
    BY Zenon, <1>1, FitCounts
  <2> QED  BY Zenon, <2>1, <2>2, BalancedTrans
<1>3. Seated(s, u)
  <2>1. Seated(s, t) /\ Seated(t, u)
    BY Zenon DEF Moves
  <2> QED  BY Zenon, <1>1, <2>1, SeatedTrans
<1>4. \A i \in Slots : NoNewDial(s.slots[i], u.slots[i])
  BY Zenon DEF Moves, NoNewDial
<1> QED  BY Zenon, <1>1, <1>2, <1>3, <1>4 DEF Moves

(* Doing nothing. *)
LEMMA BalancedSelf ==
  ASSUME SetFacts, NEW s, Fit(s)
  PROVE  Balanced(s.phase, s.phase)
<1>1. /\ s.phase.ok \in Int /\ s.phase.active \in Int
      /\ s.phase.answered \in Int /\ s.phase.recv_times \in Int
  BY Zenon, FitCounts
<1>2. /\ s.phase.active <= s.phase.active /\ s.phase.ok <= s.phase.ok
      /\ s.phase.recv_times - s.phase.recv_times <= s.phase.answered - s.phase.answered
  BY <1>1
<1> QED  BY Zenon, <1>2 DEF Balanced

(* A call that updates the counters and leaves the slots alone. *)
LEMMA PhaseMoves ==
  ASSUME SetFacts, NEW s, Fit(s), NEW t, Formed(t), t.slots = s.slots, t.at = s.at,
         t.len = s.len,
         Balanced(s.phase, t.phase), t.phase.answered = s.phase.answered
  PROVE  Moves(s, t)
<1>1. t.phase.kind = s.phase.kind
  BY Zenon DEF Balanced
<1>2. Fit(t)
  BY Zenon, <1>1 DEF Fit
<1>3. Occupied(t) = Occupied(s) /\ Made(t) = Made(s) /\ InFlight(t) = InFlight(s)
  BY Zenon DEF Occupied, Made, InState, InFlight
<1>4. Seated(s, t)
  <2>1. \A i \in Slots : t.slots[i].in_flight <= s.slots[i].in_flight
    <3> SUFFICES ASSUME NEW i \in Slots  PROVE  s.slots[i].in_flight <= s.slots[i].in_flight
      BY Zenon
    <3>1. s.slots[i].in_flight \in Nat
      BY Zenon, FitCounts
    <3> QED  BY <3>1
  <2>2. Cardinality(Made(t)) + s.phase.ok <= Cardinality(Made(s)) + t.phase.ok
    <3>1. Cardinality(Made(s)) \in Nat /\ s.phase.ok \in Int /\ t.phase.ok \in Int
      BY Zenon, <1>2, FitCounts
    <3>2. s.phase.ok <= t.phase.ok
      BY Zenon DEF Balanced
    <3> QED  BY <1>3, <3>1, <3>2
  <2>3. InFlight(t) + t.phase.answered <= InFlight(s) + s.phase.answered
    <3>1. InFlight(s) \in Nat /\ s.phase.answered \in Int
      BY Zenon, FitCounts
    <3> QED  BY <1>3, <3>1
  <2> QED  BY Zenon, <1>3, <2>1, <2>2, <2>3 DEF Seated
<1>5. \A i \in Slots : NoNewDial(s.slots[i], t.slots[i])
  BY Zenon DEF NoNewDial
<1> QED  BY Zenon, <1>2, <1>4, <1>5 DEF Moves

(* Doing nothing. *)
LEMMA MovesSelf ==
  ASSUME SetFacts, NEW s, Fit(s)
  PROVE  Moves(s, s)
<1>1. Balanced(s.phase, s.phase) /\ Formed(s)
  BY Zenon, BalancedSelf DEF Fit
<1> QED  BY Zenon, <1>1, PhaseMoves

(* Connection idx of s is c in t, and the others are as they were. *)
Placed(s, t, idx, c) ==
  /\ t.slots \in [Slots -> Conn] /\ t.slots[idx] = c
  /\ \A i \in Slots : i # idx => t.slots[i] = s.slots[i]
  /\ (c.state = "vacant" <=> s.slots[idx].state = "vacant") => Occupied(t) = Occupied(s)
  /\ (c.state \in {"ready", "broken"} => s.slots[idx].state \in {"ready", "broken"})
       => Made(t) \subseteq Made(s)
  /\ Made(t) \subseteq Made(s) \cup {idx}

(* One connection changes: where the connections are. *)
LEMMA OneSlot ==
  ASSUME NEW s, Fit(s), NEW idx \in Slots, NEW c \in Conn, NEW t,
         t.slots = [s.slots EXCEPT ![idx] = c]
  PROVE  Placed(s, t, idx, c)
<1>1. /\ t.slots \in [Slots -> Conn] /\ t.slots[idx] = c
      /\ \A i \in Slots : i # idx => t.slots[i] = s.slots[i]
  BY DEF Fit
<1>2. (c.state = "vacant" <=> s.slots[idx].state = "vacant") => Occupied(t) = Occupied(s)
  BY Zenon, <1>1 DEF Occupied, InState
<1>3. (c.state \in {"ready", "broken"} => s.slots[idx].state \in {"ready", "broken"})
        => Made(t) \subseteq Made(s)
  BY Zenon, <1>1 DEF Made, InState
<1>4. Made(t) \subseteq Made(s) \cup {idx}
  BY Zenon, <1>1 DEF Made, InState
<1> QED  BY Zenon, <1>1, <1>2, <1>3, <1>4 DEF Placed

(* What is open, when no connection has more open. *)
LEMMA InFlightLess ==
  ASSUME SetFacts, NEW s, Fit(s), NEW t, t.slots \in [Slots -> Conn],
         \A i \in Slots : t.slots[i].in_flight <= s.slots[i].in_flight
  PROVE  /\ InFlight(t) <= InFlight(s)
         /\ \A m \in Slots : t.slots[m].in_flight < s.slots[m].in_flight
                               => InFlight(t) + 1 <= InFlight(s)
<1> DEFINE f == [i \in Slots |-> s.slots[i].in_flight]
           g == [i \in Slots |-> t.slots[i].in_flight]
<1>1. f \in [1..MaxSlots -> Nat] /\ MaxSlots \in Nat
  BY FitCounts, WorkerAssumption DEF Slots
<1>2. g \in [1..MaxSlots -> Nat]
  BY Zenon DEF Conn, Slots
<1>3. /\ \A i \in 1..MaxSlots : g[i] <= f[i]
      /\ \A m \in Slots : /\ m \in 1..MaxSlots
                          /\ t.slots[m].in_flight < s.slots[m].in_flight => g[m] < f[m]
  BY DEF Slots
<1>4. InFlight(s) = Total(f, MaxSlots) /\ InFlight(t) = Total(g, MaxSlots)
  BY Zenon DEF InFlight
<1> HIDE DEF f, g
<1>5. Total(g, MaxSlots) <= Total(f, MaxSlots)
  BY Zenon, <1>1, <1>2, <1>3, TotalMonotone
<1>6. \A m \in Slots : t.slots[m].in_flight < s.slots[m].in_flight
                         => Total(g, MaxSlots) + 1 <= Total(f, MaxSlots)
  BY Zenon, <1>1, <1>2, <1>3, TotalLess
<1> QED  BY Zenon, <1>4, <1>5, <1>6

(* Connection idx may become c: it fits the benchmark, has no more open, and
   takes no place that it did not have. *)
Suits(s, idx, c) ==
  /\ FitConn(c, s.phase.kind)
  /\ c.in_flight <= s.slots[idx].in_flight
  /\ s.phase.kind # "Dial" => (c.state = "vacant" <=> s.slots[idx].state = "vacant")
  /\ s.phase.kind = "Dial" => (c.state \in {"ready", "broken"}
                                 => s.slots[idx].state \in {"ready", "broken"})

(* As such a value, with no dial begun. *)
Turns(s, idx, c) == Suits(s, idx, c) /\ NoNewDial(s.slots[idx], c)

(* t is s with c as connection idx, and other fields of no account. *)
Sets(s, t, idx, c) ==
  DOMAIN t = DOMAIN s /\ t.slots = [s.slots EXCEPT ![idx] = c] /\ t.phase = s.phase

(* As above, with the loop and the vector of slots left alone. *)
Puts(s, t, idx, c) == Sets(s, t, idx, c) /\ t.at = s.at /\ t.len = s.len

(* A call that leaves the counters of the benchmark alone. *)
LEMMA SamePhase ==
  ASSUME NEW s, Fit(s), NEW t, DOMAIN t = DOMAIN s, t.phase = s.phase
  PROVE  Formed(t)
BY Zenon DEF Fit, Formed

(* One connection changes, and no counter. *)
LEMMA ConnSeats ==
  ASSUME SetFacts, NEW s, Fit(s), NEW idx \in Slots, NEW c, Suits(s, idx, c), NEW t,
         Sets(s, t, idx, c)
  PROVE  Fit(t) /\ Seated(s, t) /\ Placed(s, t, idx, c)
<1>6. /\ FitConn(c, s.phase.kind)
      /\ c.in_flight <= s.slots[idx].in_flight
      /\ s.phase.kind # "Dial" => (c.state = "vacant" <=> s.slots[idx].state = "vacant")
      /\ s.phase.kind = "Dial" => (c.state \in {"ready", "broken"}
                                     => s.slots[idx].state \in {"ready", "broken"})
  BY Zenon DEF Suits
<1>11. DOMAIN t = DOMAIN s /\ t.slots = [s.slots EXCEPT ![idx] = c] /\ t.phase = s.phase
  BY Zenon DEF Sets
<1>8. Formed(t)
  BY Zenon, <1>11, SamePhase
<1>0. c \in Conn
  BY Zenon, <1>6 DEF FitConn
<1>9. Placed(s, t, idx, c)
  BY Zenon, <1>0, <1>11, OneSlot
<1>1. /\ t.slots \in [Slots -> Conn] /\ t.slots[idx] = c
      /\ \A i \in Slots : i # idx => t.slots[i] = s.slots[i]
  BY Zenon, <1>9 DEF Placed
<1>2. Fit(t)
  BY Zenon, <1>1, <1>6, <1>8, <1>11 DEF Fit
<1>3. \A i \in Slots : t.slots[i].in_flight <= s.slots[i].in_flight
  <2> SUFFICES ASSUME NEW i \in Slots, i # idx
               PROVE  s.slots[i].in_flight <= s.slots[i].in_flight
    BY Zenon, <1>1, <1>6
  <2>1. s.slots[i].in_flight \in Nat
    BY Zenon, FitCounts
  <2> QED  BY <2>1
<1>4. s.phase.kind # "Dial" => Occupied(t) = Occupied(s)
  BY Zenon, <1>6, <1>9 DEF Placed
<1>5. ASSUME s.phase.kind = "Dial"
      PROVE  Cardinality(Made(t)) + s.phase.ok <= Cardinality(Made(s)) + t.phase.ok
  <2>1. Made(t) \subseteq Made(s)
    BY Zenon, <1>5, <1>6, <1>9 DEF Placed
  <2>2. /\ Cardinality(Made(s)) \in Nat /\ IsFiniteSet(Made(s))
        /\ Cardinality(Made(t)) \in Nat /\ s.phase.ok \in Int
    BY Zenon, <1>2, FitCounts
  <2>3. Cardinality(Made(t)) <= Cardinality(Made(s))
    BY Zenon, <2>1, <2>2 DEF SetFacts, CountSubset
  <2> QED  BY <1>11, <2>2, <2>3
<1>7. InFlight(t) + t.phase.answered <= InFlight(s) + s.phase.answered
  <2>1. InFlight(t) <= InFlight(s)
    BY Zenon, <1>1, <1>3, InFlightLess
  <2>2. InFlight(s) \in Nat /\ InFlight(t) \in Nat /\ s.phase.answered \in Int
    BY Zenon, <1>2, FitCounts
  <2> QED  BY <1>11, <2>1, <2>2
<1>10. Seated(s, t)
  BY Zenon, <1>3, <1>4, <1>5, <1>7 DEF Seated
<1> QED  BY Zenon, <1>2, <1>9, <1>10

(* A call that changes one connection and no counter. *)
LEMMA ConnMoves ==
  ASSUME SetFacts, NEW s, Fit(s), NEW idx \in Slots, NEW c, Turns(s, idx, c), NEW t, Puts(s,
         t, idx, c)
  PROVE  Moves(s, t)
<1>1. Suits(s, idx, c) /\ NoNewDial(s.slots[idx], c)
  BY Zenon DEF Turns
<1>2. Sets(s, t, idx, c) /\ t.phase = s.phase /\ t.at = s.at /\ t.len = s.len
  BY Zenon DEF Puts, Sets
<1>3. Fit(t) /\ Seated(s, t) /\ Placed(s, t, idx, c)
  BY Zenon, <1>1, <1>2, ConnSeats
<1>4. \A i \in Slots : NoNewDial(s.slots[i], t.slots[i])
  BY Zenon, <1>1, <1>3 DEF NoNewDial, Placed
<1>5. Balanced(s.phase, t.phase)
  BY Zenon, <1>2, BalancedSelf
<1> QED  BY Zenon, <1>2, <1>3, <1>4, <1>5 DEF Moves

(* echo_done: the round trip leaves in_flight and is counted. *)
LEMMA EchoDoneMoves ==
  ASSUME SetFacts, NEW s, Fit(s), NEW idx, NEW ok \in BOOLEAN
  PROVE  Moves(s, EchoDone(s, idx, ok))
<1>1. CASE s.phase.kind # "Echo"
  BY Zenon, <1>1, MovesSelf DEF EchoDone
<1>2. CASE s.phase.kind = "Echo"
  <2> DEFINE t == EchoDone(s, idx, ok)
             p == s.phase
             q == t.phase
  <2>0. Formed(s)
    BY Zenon DEF Fit
  <2>1. t.slots = s.slots /\ t.at = s.at /\ t.len = s.len
    BY Zenon, <1>2, <2>0 DEF EchoDone, Formed
  <2>8. DOMAIN t = DOMAIN s /\ DOMAIN q = DOMAIN p
    BY Zenon, <1>2, <2>0 DEF EchoDone, Formed
  <2>2. /\ q.kind = p.kind /\ q.measure = p.measure /\ q.slots = p.slots
        /\ q.exhausted = p.exhausted /\ q.remaining = p.remaining
        /\ q.concurrency = p.concurrency /\ q.send_times = p.send_times
        /\ q.active = p.active /\ q.answered = p.answered /\ q.recv_times = p.recv_times
    BY Zenon, <1>2, <2>0 DEF EchoDone, Formed
  <2>3. /\ q.in_flight = p.in_flight - 1
        /\ p.measure => \/ q.ok = p.ok + 1 /\ q.failed = p.failed
                        \/ q.ok = p.ok /\ q.failed = p.failed + 1
        /\ ~p.measure => q.ok = p.ok /\ q.failed = p.failed
    BY Zenon, <1>2, <2>0 DEF EchoDone, Formed
  <2>4. /\ p.in_flight \in Int /\ p.ok \in Int /\ p.failed \in Int
        /\ p.active \in Int /\ p.answered \in Int /\ p.recv_times \in Int
    BY Zenon, FitCounts
  <2> HIDE DEF t, p, q
  <2>5. /\ q.active <= p.active /\ p.ok <= q.ok
        /\ q.recv_times - p.recv_times <= q.answered - p.answered
        /\ p.measure => q.in_flight + q.ok + q.failed = p.in_flight + p.ok + p.failed
    BY <2>2, <2>3, <2>4
  <2>6. Balanced(p, q)
    BY Zenon, <1>2, <2>2, <2>5 DEF Balanced, p
  <2>9. q.in_flight \in Int /\ q.ok \in Int /\ q.failed \in Int
    BY <2>3, <2>4
  <2>10. Formed(t)
    BY Zenon, <2>0, <2>2, <2>4, <2>8, <2>9 DEF Formed, p, q
  <2>7. Moves(s, t)
    BY Zenon, <2>1, <2>2, <2>6, <2>10, PhaseMoves DEF p, q
  <2> QED  BY Zenon, <2>7 DEF t
<1> QED  BY <1>1, <1>2

(* The end of a dial in the counters of the first benchmark, as a failure. *)
LEMMA DialEnds ==
  ASSUME SetFacts, NEW s, Fit(s), s.phase.kind = "Dial"
  PROVE  Moves(s, [s EXCEPT !.phase.active = @ - 1, !.phase.failed = @ + 1])
<1> DEFINE t == [s EXCEPT !.phase.active = @ - 1, !.phase.failed = @ + 1]
           p == s.phase
           q == t.phase
<1>0. Formed(s)
  BY Zenon DEF Fit
<1>1. t.slots = s.slots /\ t.at = s.at /\ t.len = s.len
  BY Zenon, <1>0 DEF Formed
<1>7. DOMAIN t = DOMAIN s /\ DOMAIN q = DOMAIN p /\ q.in_flight = p.in_flight
  BY Zenon, <1>0 DEF Formed
<1>2. /\ q.kind = p.kind /\ q.measure = p.measure /\ q.slots = p.slots
      /\ q.exhausted = p.exhausted /\ q.remaining = p.remaining
      /\ q.concurrency = p.concurrency /\ q.send_times = p.send_times
      /\ q.active = p.active - 1 /\ q.answered = p.answered /\ q.recv_times = p.recv_times
      /\ q.ok = p.ok /\ q.failed = p.failed + 1
  BY Zenon, <1>0 DEF Formed
<1>3. /\ p.in_flight \in Int /\ p.ok \in Int /\ p.failed \in Int
      /\ p.active \in Int /\ p.answered \in Int /\ p.recv_times \in Int
  BY Zenon, FitCounts
<1> HIDE DEF t, p, q
<1>4. /\ q.active <= p.active /\ p.ok <= q.ok
      /\ q.recv_times - p.recv_times <= q.answered - p.answered
      /\ q.active + q.ok + q.failed = p.active + p.ok + p.failed
  BY <1>2, <1>3
<1>5. Balanced(p, q)
  BY Zenon, <1>2, <1>4 DEF Balanced, p
<1>8. q.active \in Int /\ q.failed \in Int
  BY <1>2, <1>3
<1>9. Formed(t)
  BY Zenon, <1>0, <1>2, <1>3, <1>7, <1>8 DEF Formed, p, q
<1>6. Moves(s, t)
  BY Zenon, <1>1, <1>2, <1>5, <1>9, PhaseMoves DEF p, q
<1> QED  BY Zenon, <1>6 DEF t

(* A retry is armed, or a redial before BenchMultiplex ends: no counter of the
   books moves. *)
LEMMA OtherMoves ==
  ASSUME SetFacts, NEW s, Fit(s), NEW x
  PROVE  /\ Moves(s, [s EXCEPT !.retries = x])
         /\ Moves(s, [s EXCEPT !.phase.redials = x])
<1>0. Formed(s) /\ Balanced(s.phase, s.phase)
  BY Zenon, BalancedSelf DEF Fit
<1>1. Moves(s, [s EXCEPT !.retries = x])
  <2> DEFINE t == [s EXCEPT !.retries = x]
  <2>1. /\ Formed(t) /\ t.slots = s.slots /\ t.at = s.at /\ t.len = s.len
        /\ t.phase = s.phase
    BY <1>0 DEF Formed
  <2> HIDE DEF t
  <2>2. Moves(s, t)
    BY Zenon, <1>0, <2>1, PhaseMoves
  <2> QED  BY Zenon, <2>2 DEF t
<1>2. Moves(s, [s EXCEPT !.phase.redials = x])
  <2> DEFINE t == [s EXCEPT !.phase.redials = x]
             p == s.phase
             q == t.phase
  <2>1. Formed(t) /\ t.slots = s.slots /\ t.at = s.at /\ t.len = s.len
    BY <1>0 DEF Formed
  <2>2. /\ q.kind = p.kind /\ q.measure = p.measure /\ q.slots = p.slots
        /\ q.exhausted = p.exhausted /\ q.remaining = p.remaining
        /\ q.concurrency = p.concurrency /\ q.send_times = p.send_times
        /\ q.active = p.active /\ q.answered = p.answered /\ q.recv_times = p.recv_times
        /\ q.ok = p.ok /\ q.failed = p.failed /\ q.in_flight = p.in_flight
    BY <1>0 DEF Formed
  <2> HIDE DEF t, q
  <2>3. Balanced(p, q)
    BY Zenon, <1>0, <2>2 DEF Balanced
  <2>4. Moves(s, t)
    BY Zenon, <2>1, <2>2, <2>3, PhaseMoves DEF q
  <2> QED  BY Zenon, <2>4 DEF t
<1> QED  BY <1>1, <1>2

(* dial_failed_job: a retry, or the end of what the dial was for. *)
LEMMA DialFailedJobMoves ==
  ASSUME SetFacts, NEW s, Fit(s), NEW j
  PROVE  Moves(s, DialFailedJob(s, j))
<1>1. \A x : Moves(s, [s EXCEPT !.retries = x]) /\ Moves(s, [s EXCEPT !.phase.redials = x])
  BY Zenon, OtherMoves
<1>2. s.phase.kind = "Dial" =>
        Moves(s, [s EXCEPT !.phase.active = @ - 1, !.phase.failed = @ + 1])
  BY Zenon, DialEnds
<1>3. Moves(s, s) /\ Moves(s, EchoDone(s, j.slot, FALSE))
  BY Zenon, MovesSelf, EchoDoneMoves
<1> QED  BY Zenon, <1>1, <1>2, <1>3 DEF DialFailedJob

(* An empty slot and a broken connection fit any benchmark. *)
LEMMA EmptyFits ==
  /\ \A k : FitConn(NoConn, k) /\ FitConn(BrokenConn, k)
  /\ NoConn.state = "vacant" /\ BrokenConn.state = "broken"
  /\ NoConn.in_flight = 0 /\ BrokenConn.in_flight = 0
<1>1. <<>> \in Seq({"Dial", "Echo"}) /\ <<>> \in Seq(Kinds)
  OBVIOUS
<1>2. /\ NoConn \in Conn /\ NoConn.dial = NoJob /\ NoConn.state = "vacant"
      /\ NoConn.in_flight = 0 /\ NoConn.streams["Rate"] = 0 /\ NoConn.queued = <<>>
  BY <1>1 DEF NoConn, Conn, NoStreams, Kinds
<1>3. /\ BrokenConn \in Conn /\ BrokenConn.dial = NoJob /\ BrokenConn.state = "broken"
      /\ BrokenConn.in_flight = 0 /\ BrokenConn.streams["Rate"] = 0 /\ BrokenConn.queued = <<>>
  BY Zenon, <1>1 DEF NoConn, BrokenConn, Conn, NoStreams, Kinds
<1> HIDE DEF NoConn, BrokenConn
<1>4. "vacant" # "connecting" /\ "broken" # "connecting"
  OBVIOUS
<1> QED  BY Zenon, <1>1, <1>2, <1>3, <1>4 DEF FitConn

(* dial_failed: the connection's slot is freed, or holds a broken one. *)
LEMMA DialFailedMoves ==
  ASSUME SetFacts, NEW s, Fit(s), NEW idx \in Slots
  PROVE  Moves(s, DialFailed(s, idx))
<1> DEFINE b == s.slots[idx]
           j == s.slots[idx].dial
           t == [s EXCEPT !.slots[idx] = NoConn, !.free = Append(@, idx)]
           u == [s EXCEPT !.slots[idx] = BrokenConn]
<1>0. FitConn(b, s.phase.kind) /\ b.in_flight \in Nat
  BY Zenon, FitCounts DEF Fit
<1>1. 0 <= b.in_flight
  BY <1>0
<1>2. Puts(s, t, idx, NoConn) /\ Puts(s, u, idx, BrokenConn)
  BY Zenon DEF Fit, Formed, Puts, Sets
<1>3. /\ "vacant" # "connecting" /\ "broken" # "connecting" /\ "broken" # "vacant"
      /\ "vacant" \notin {"ready", "broken"} /\ "connecting" # "vacant"
  OBVIOUS
<1>4. /\ FitConn(NoConn, s.phase.kind) /\ FitConn(BrokenConn, s.phase.kind)
      /\ NoConn.state = "vacant" /\ BrokenConn.state = "broken"
      /\ NoConn.in_flight = 0 /\ BrokenConn.in_flight = 0
  BY Zenon, EmptyFits
<1>5. CASE j = NoJob
  <2>1. NoJob.purpose # "New"
    BY DEF NoJob
  <2> QED  BY Zenon, <1>5, <2>1, MovesSelf DEF DialFailed
<1>6. CASE j # NoJob /\ j.purpose = "New"
  <2>1. s.phase.kind = "Dial"
    BY Zenon, <1>0, <1>6 DEF FitConn
  <2> HIDE DEF t, j
  <2>2. Turns(s, idx, NoConn)
    BY Zenon, <1>1, <1>3, <1>4, <2>1 DEF NoNewDial, Turns, Suits
  <2>3. Moves(s, t)
    BY Zenon, <1>2, <2>2, ConnMoves
  <2>4. Moves(t, DialFailedJob(t, [j EXCEPT !.slot = 0]))
    BY Zenon, <2>3, DialFailedJobMoves DEF Moves
  <2>5. DialFailed(s, idx) = DialFailedJob(t, [j EXCEPT !.slot = 0])
    BY Zenon, <1>6 DEF DialFailed, t, j
  <2> QED  BY Zenon, <2>3, <2>4, <2>5, MovesTrans
<1>7. CASE j # NoJob /\ j.purpose # "New"
  <2>1. s.phase.kind # "Dial" /\ b.state = "connecting"
    BY Zenon, <1>0, <1>7 DEF FitConn
  <2> HIDE DEF u, j
  <2>2. Turns(s, idx, BrokenConn)
    BY Zenon, <1>1, <1>3, <1>4, <2>1 DEF NoNewDial, Turns, Suits
  <2>3. Moves(s, u)
    BY Zenon, <1>2, <2>2, ConnMoves
  <2>4. Moves(u, DialFailedJob(u, j))
    BY Zenon, <2>3, DialFailedJobMoves DEF Moves
  <2>5. DialFailed(s, idx) = DialFailedJob(u, j)
    BY Zenon, <1>7 DEF DialFailed, u, j
  <2> QED  BY Zenon, <2>3, <2>4, <2>5, MovesTrans
<1> QED  BY Zenon, <1>5, <1>6, <1>7

(* Connection c is where b was, and has as much open for BenchMultiplex. *)
Matches(b, c) ==
  /\ c \in Conn /\ c.state = b.state /\ c.dial = b.dial /\ c.in_flight = b.in_flight
  /\ c.streams["Rate"] = b.streams["Rate"] /\ c.queued \in Seq({"Dial", "Echo"})

(* A connection on which something else changes. *)
LEMMA AlikeMoves ==
  ASSUME SetFacts, NEW s, Fit(s), NEW idx \in Slots, NEW c, Matches(s.slots[idx], c),
         NEW t, Puts(s, t, idx, c)
  PROVE  Moves(s, t)
<1> DEFINE b == s.slots[idx]
<1>1. FitConn(b, s.phase.kind) /\ b.in_flight \in Nat
  BY Zenon, FitCounts DEF Fit
<1>2. FitConn(c, s.phase.kind) /\ NoNewDial(b, c)
  BY Zenon, <1>1 DEF FitConn, Matches, NoNewDial
<1>3. c.in_flight <= b.in_flight
  BY <1>1 DEF Matches
<1>4. c.state = b.state
  BY Zenon DEF Matches
<1>5. Turns(s, idx, c)
  BY Zenon, <1>2, <1>3, <1>4 DEF Turns, Suits
<1> QED  BY Zenon, <1>5, ConnMoves

(* The fields of a connection that are not in the books. *)
LEMMA AlikeConns ==
  ASSUME NEW b \in Conn, b.queued \in Seq({"Dial", "Echo"}), NEW x \in BOOLEAN,
         NEW k \in {"Dial", "Echo"}
  PROVE  /\ Matches(b, [b EXCEPT !.closing = x]) /\ Matches(b, [b EXCEPT !.h3 = x])
         /\ Matches(b, [b EXCEPT !.goaway = x])
         /\ Matches(b, [b EXCEPT !.streams[k] = @ + 1])
         /\ b.streams[k] > 0 => Matches(b, [b EXCEPT !.streams[k] = @ - 1])
         /\ Matches(b, [b EXCEPT !.queued = Append(@, k)])
         /\ b.queued # <<>> => Matches(b, [b EXCEPT !.queued = Tail(@)])
<1>1. /\ Matches(b, [b EXCEPT !.closing = x]) /\ Matches(b, [b EXCEPT !.h3 = x])
      /\ Matches(b, [b EXCEPT !.goaway = x])
  BY Zenon DEF Matches, Conn
<1>2. ASSUME NEW v \in Nat  PROVE  Matches(b, [b EXCEPT !.streams[k] = v])
  <2>1. [b EXCEPT !.streams[k] = v] \in Conn
    BY DEF Conn, Kinds
  <2>2. [b EXCEPT !.streams[k] = v].streams["Rate"] = b.streams["Rate"]
    BY DEF Conn, Kinds
  <2> QED  BY Zenon, <2>1, <2>2 DEF Matches, Conn
<1>6. b.streams[k] \in Nat
  BY DEF Conn, Kinds
<1>7. b.streams[k] + 1 \in Nat /\ (b.streams[k] > 0 => b.streams[k] - 1 \in Nat)
  BY <1>6
<1>3. /\ Matches(b, [b EXCEPT !.streams[k] = @ + 1])
      /\ b.streams[k] > 0 => Matches(b, [b EXCEPT !.streams[k] = @ - 1])
  BY Zenon, <1>2, <1>7
<1>4. Matches(b, [b EXCEPT !.queued = Append(@, k)])
  <2>1. Append(b.queued, k) \in Seq({"Dial", "Echo"}) /\ Append(b.queued, k) \in Seq(Kinds)
    BY DEF Conn, Kinds
  <2> QED  BY Zenon, <2>1 DEF Matches, Conn
<1>5. b.queued # <<>> => Matches(b, [b EXCEPT !.queued = Tail(@)])
  <2>1. b.queued # <<>> => Tail(b.queued) \in Seq({"Dial", "Echo"}) /\ Tail(b.queued) \in Seq(Kinds)
    BY DEF Conn, Kinds
  <2> QED  BY Zenon, <2>1 DEF Matches, Conn
<1> QED  BY Zenon, <1>1, <1>3, <1>4, <1>5

(* Calls that update one field of a connection. *)
LEMMA UpdateMoves ==
  ASSUME SetFacts, NEW s, Fit(s), NEW idx \in Slots, NEW x \in BOOLEAN, NEW k \in {"Dial",
         "Echo"}
  PROVE  /\ Moves(s, [s EXCEPT !.slots[idx].closing = x])
         /\ Moves(s, [s EXCEPT !.slots[idx].h3 = x])
         /\ Moves(s, [s EXCEPT !.slots[idx].goaway = x])
         /\ Moves(s, [s EXCEPT !.slots[idx].streams[k] = @ + 1])
         /\ s.slots[idx].streams[k] > 0 => Moves(s, [s EXCEPT !.slots[idx].streams[k] = @ - 1])
         /\ Moves(s, [s EXCEPT !.slots[idx].queued = Append(@, k)])
         /\ s.slots[idx].queued # <<>> => Moves(s, [s EXCEPT !.slots[idx].queued = Tail(@)])
<1> DEFINE b == s.slots[idx]
<1>1. b \in Conn /\ b.queued \in Seq({"Dial", "Echo"})
  BY Zenon DEF Fit, FitConn
<1>2. /\ Matches(b, [b EXCEPT !.closing = x]) /\ Matches(b, [b EXCEPT !.h3 = x])
      /\ Matches(b, [b EXCEPT !.goaway = x])
      /\ Matches(b, [b EXCEPT !.streams[k] = @ + 1])
      /\ b.streams[k] > 0 => Matches(b, [b EXCEPT !.streams[k] = @ - 1])
      /\ Matches(b, [b EXCEPT !.queued = Append(@, k)])
      /\ b.queued # <<>> => Matches(b, [b EXCEPT !.queued = Tail(@)])
  BY Zenon, <1>1, AlikeConns
<1>3. /\ Puts(s, [s EXCEPT !.slots[idx].closing = x], idx, [b EXCEPT !.closing = x])
      /\ Puts(s, [s EXCEPT !.slots[idx].h3 = x], idx, [b EXCEPT !.h3 = x])
      /\ Puts(s, [s EXCEPT !.slots[idx].goaway = x], idx, [b EXCEPT !.goaway = x])
  BY Zenon DEF Fit, Formed, Puts, Sets
<1>4. /\ Puts(s, [s EXCEPT !.slots[idx].streams[k] = @ + 1], idx,
              [b EXCEPT !.streams[k] = @ + 1])
      /\ Puts(s, [s EXCEPT !.slots[idx].streams[k] = @ - 1], idx,
              [b EXCEPT !.streams[k] = @ - 1])
  BY Zenon DEF Fit, Formed, Puts, Sets
<1>5. /\ Puts(s, [s EXCEPT !.slots[idx].queued = Append(@, k)], idx,
              [b EXCEPT !.queued = Append(@, k)])
      /\ Puts(s, [s EXCEPT !.slots[idx].queued = Tail(@)], idx, [b EXCEPT !.queued = Tail(@)])
  BY Zenon DEF Fit, Formed, Puts, Sets
<1>6. \A t, c : Matches(b, c) /\ Puts(s, t, idx, c) => Moves(s, t)
  BY Zenon, AlikeMoves
<1> HIDE DEF b
<1>7. /\ Moves(s, [s EXCEPT !.slots[idx].closing = x])
      /\ Moves(s, [s EXCEPT !.slots[idx].h3 = x])
      /\ Moves(s, [s EXCEPT !.slots[idx].goaway = x])
  BY Zenon, <1>2, <1>3, <1>6
<1>8. /\ Moves(s, [s EXCEPT !.slots[idx].streams[k] = @ + 1])
      /\ b.streams[k] > 0 => Moves(s, [s EXCEPT !.slots[idx].streams[k] = @ - 1])
  BY Zenon, <1>2, <1>4, <1>6
<1>9. /\ Moves(s, [s EXCEPT !.slots[idx].queued = Append(@, k)])
      /\ b.queued # <<>> => Moves(s, [s EXCEPT !.slots[idx].queued = Tail(@)])
  BY Zenon, <1>2, <1>5, <1>6
<1> QED  BY Zenon, <1>7, <1>8, <1>9 DEF b

(* try_send and send_request, of a request that is not BenchMultiplex's. *)
LEMMA SendMoves ==
  ASSUME SetFacts, NEW s, Fit(s), NEW idx \in Slots, NEW k \in {"Dial", "Echo"}, NEW r
  PROVE  Moves(s, TrySend(s, idx, k, r)) /\ Moves(s, SendRequest(s, idx, k, r))
<1>1. Moves(s, s)
  BY Zenon, MovesSelf
<1>2. /\ Moves(s, [s EXCEPT !.slots[idx].closing = TRUE])
      /\ Moves(s, [s EXCEPT !.slots[idx].streams[k] = @ + 1])
      /\ Moves(s, [s EXCEPT !.slots[idx].queued = Append(@, k)])
  BY Zenon, UpdateMoves
<1>3. "ok" # "failed"
  OBVIOUS
<1>4. Moves(s, TrySend(s, idx, k, r))
  BY Zenon, <1>1, <1>2, <1>3 DEF TrySend
<1> QED  BY Zenon, <1>2, <1>4 DEF SendRequest

(* A round trip is sent, or is done as a failure. *)
LEMMA SendEchoMoves ==
  ASSUME SetFacts, NEW s, Fit(s), NEW idx \in Slots, NEW r
  PROVE  Moves(s, SendEcho(s, idx, r))
<1> DEFINE t == SendRequest(s, idx, "Echo", r)
<1>1. Moves(s, t)
  BY Zenon, SendMoves
<1> HIDE DEF t
<1>2. Moves(t, EchoDone(t, idx, FALSE))
  BY Zenon, <1>1, EchoDoneMoves DEF Moves
<1>3. Moves(s, EchoDone(t, idx, FALSE))
  BY Zenon, <1>1, <1>2, MovesTrans
<1> QED  BY Zenon, <1>1, <1>3 DEF SendEcho, t

(* dial_ok of a new connection: it is up, and its dial a success. *)
LEMMA NewConnMoves ==
  ASSUME SetFacts, NEW s, Fit(s), NEW idx \in Slots, NEW c, FitConn(c, "Dial"),
         s.phase.kind = "Dial",
         c.state # "connecting", c.in_flight = s.slots[idx].in_flight,
         NEW t, Puts(s, t, idx, c)
  PROVE  Moves(s, [t EXCEPT !.phase.active = @ - 1, !.phase.ok = @ + 1])
<1> DEFINE u == [t EXCEPT !.phase.active = @ - 1, !.phase.ok = @ + 1]
           p == s.phase
           q == u.phase
<1>0. /\ DOMAIN t = DOMAIN s /\ t.slots = [s.slots EXCEPT ![idx] = c] /\ t.phase = s.phase
      /\ t.at = s.at /\ t.len = s.len
  BY Zenon DEF Puts, Sets
<1>1. Formed(s) /\ Formed(t)
  BY Zenon, <1>0, SamePhase DEF Fit
<1>2. u.slots = t.slots /\ u.at = s.at /\ u.len = s.len
  BY Zenon, <1>0, <1>1 DEF Formed
<1>3. DOMAIN u = DOMAIN s /\ DOMAIN q = DOMAIN p /\ q.in_flight = p.in_flight
  BY Zenon, <1>0, <1>1 DEF Formed
<1>4. /\ q.kind = p.kind /\ q.measure = p.measure /\ q.slots = p.slots
      /\ q.exhausted = p.exhausted /\ q.remaining = p.remaining
      /\ q.concurrency = p.concurrency /\ q.send_times = p.send_times
      /\ q.active = p.active - 1 /\ q.answered = p.answered /\ q.recv_times = p.recv_times
      /\ q.ok = p.ok + 1 /\ q.failed = p.failed
  BY Zenon, <1>0, <1>1 DEF Formed
<1>5. /\ p.in_flight \in Int /\ p.ok \in Int /\ p.failed \in Int
      /\ p.active \in Int /\ p.answered \in Int /\ p.recv_times \in Int
  BY Zenon, FitCounts
<1> HIDE DEF u, p, q
<1>6. /\ q.active <= p.active /\ p.ok <= q.ok
      /\ q.recv_times - p.recv_times <= q.answered - p.answered
      /\ q.active + q.ok + q.failed = p.active + p.ok + p.failed
  BY <1>4, <1>5
<1>7. q.active \in Int /\ q.ok \in Int
  BY <1>4, <1>5
<1>8. Formed(u)
  BY Zenon, <1>1, <1>3, <1>4, <1>5, <1>7 DEF Formed, p, q
<1>9. Balanced(p, q)
  BY Zenon, <1>4, <1>6 DEF Balanced, p
<1>10. c \in Conn
  BY Zenon DEF FitConn
<1>11. Placed(s, u, idx, c)
  BY Zenon, <1>0, <1>2, <1>10, OneSlot
<1>12. /\ u.slots \in [Slots -> Conn] /\ u.slots[idx] = c
       /\ \A i \in Slots : i # idx => u.slots[i] = s.slots[i]
       /\ Made(u) \subseteq Made(s) \cup {idx}
  BY Zenon, <1>11 DEF Placed
<1>13. Fit(u)
  BY Zenon, <1>4, <1>8, <1>12 DEF Fit, p, q
<1>14. \A i \in Slots : NoNewDial(s.slots[i], u.slots[i])
  BY Zenon, <1>12 DEF NoNewDial
<1>15. \A i \in Slots : u.slots[i].in_flight <= s.slots[i].in_flight
  <2> SUFFICES ASSUME NEW i \in Slots  PROVE  u.slots[i].in_flight <= s.slots[i].in_flight
    BY Zenon
  <2>1. s.slots[i].in_flight \in Nat /\ u.slots[i].in_flight = s.slots[i].in_flight
    BY Zenon, <1>12, FitCounts
  <2> QED  BY <2>1
<1>16. Cardinality(Made(u)) + p.ok <= Cardinality(Made(s)) + q.ok
  <2>1. Cardinality(Made(s)) \in Nat /\ IsFiniteSet(Made(s)) /\ Cardinality(Made(u)) \in Nat
    BY Zenon, <1>13, FitCounts
  <2>2. /\ IsFiniteSet(Made(s) \cup {idx})
        /\ \/ Cardinality(Made(s) \cup {idx}) = Cardinality(Made(s))
           \/ Cardinality(Made(s) \cup {idx}) = Cardinality(Made(s)) + 1
    BY Zenon, <2>1 DEF SetFacts, CountAdd
  <2>3. Cardinality(Made(u)) <= Cardinality(Made(s) \cup {idx})
    BY Zenon, <1>12, <2>2 DEF SetFacts, CountSubset
  <2> QED  BY <1>4, <1>5, <2>1, <2>2, <2>3
<1>17. Seated(s, u)
  BY Zenon, <1>15, <1>16 DEF Seated, p, q
<1>18. Moves(s, u)
  BY Zenon, <1>2, <1>9, <1>13, <1>14, <1>17 DEF Moves, p, q
<1> QED  BY Zenon, <1>18 DEF u

(* dial_ok. *)
LEMMA DialOkMoves ==
  ASSUME SetFacts, NEW s, Fit(s), NEW idx \in Slots, NEW r
  PROVE  Moves(s, DialOk(s, idx, r))
<1> DEFINE b == s.slots[idx]
           j == s.slots[idx].dial
           c == [b EXCEPT !.state = "ready", !.dial = NoJob]
           t == [s EXCEPT !.slots[idx].state = "ready", !.slots[idx].dial = NoJob,
                          !.ready = @ + 1]
<1>0. FitConn(b, s.phase.kind) /\ b.in_flight \in Nat
  BY Zenon, FitCounts DEF Fit
<1>1. Puts(s, t, idx, c)
  BY Zenon DEF Fit, Formed, Puts, Sets
<1>2. /\ c \in Conn /\ c.state = "ready" /\ c.dial = NoJob /\ c.in_flight = b.in_flight
      /\ c.streams = b.streams /\ c.queued = b.queued
  BY Zenon, <1>0 DEF FitConn, Conn
<1>3. /\ "ready" # "connecting" /\ "ready" # "vacant" /\ "connecting" # "vacant"
      /\ "New" # "RedialEcho" /\ "New" # "RedialRate" /\ "RedialRate" # "RedialEcho"
  OBVIOUS
<1> HIDE DEF c, t
<1>4. \A k : FitConn(c, k)
  BY Zenon, <1>0, <1>2, <1>3 DEF FitConn
<1>5. CASE j = NoJob
  <2>1. NoJob.purpose \notin {"New", "RedialEcho", "RedialRate"}
    BY DEF NoJob
  <2> QED  BY Zenon, <1>5, <2>1, MovesSelf DEF DialOk
<1>6. CASE j # NoJob /\ s.phase.kind = "Dial"
  <2>1. j.purpose = "New"
    BY Zenon, <1>0, <1>6 DEF FitConn
  <2>2. Moves(s, [t EXCEPT !.phase.active = @ - 1, !.phase.ok = @ + 1])
    BY Zenon, <1>1, <1>2, <1>3, <1>4, <1>6, NewConnMoves
  <2>3. DialOk(s, idx, r) = [t EXCEPT !.phase.active = @ - 1, !.phase.ok = @ + 1]
    BY Zenon, <1>3, <1>6, <2>1 DEF DialOk, t
  <2> QED  BY Zenon, <2>2, <2>3
<1>7. CASE j # NoJob /\ s.phase.kind # "Dial"
  <2>1. b.state = "connecting" /\ j.purpose # "New"
    BY Zenon, <1>0, <1>7 DEF FitConn
  <2>2. c.in_flight <= b.in_flight
    BY <1>0, <1>2
  <2>3. Turns(s, idx, c)
    BY Zenon, <1>2, <1>3, <1>4, <1>7, <2>1, <2>2 DEF Turns, Suits, NoNewDial
  <2>4. Moves(s, t)
    BY Zenon, <1>1, <2>3, ConnMoves
  <2>5. Fit(t)
    BY Zenon, <2>4 DEF Moves
  <2>6. Moves(s, SendEcho(t, idx, r)) /\ \A x : Moves(s, [t EXCEPT !.phase.redials = x])
    BY Zenon, <2>4, <2>5, SendEchoMoves, OtherMoves, MovesTrans
  <2>7. \/ DialOk(s, idx, r) = SendEcho(t, idx, r)
        \/ DialOk(s, idx, r) = [t EXCEPT !.phase.redials = @ - 1]
        \/ DialOk(s, idx, r) = t
    BY Zenon, <1>3, <1>7, <2>1 DEF DialOk, t
  <2>8. Moves(s, [t EXCEPT !.phase.redials = @ - 1])
    BY Zenon, <2>6
  <2> QED  BY Zenon, <2>4, <2>6, <2>7, <2>8
<1> QED  BY Zenon, <1>5, <1>6, <1>7

(* response, to a first request or to a round trip. *)
LEMMA ResponseMoves ==
  ASSUME SetFacts, NEW s, Fit(s), NEW idx \in Slots, NEW k \in {"Dial", "Echo"}, NEW res, NEW r
  PROVE  Moves(s, Response(s, idx, k, res, r))
<1>1. "Dial" # "Echo" /\ "Dial" # "Rate" /\ "Echo" # "Rate"
  OBVIOUS
<1>2. (res = "ok") \in BOOLEAN
  OBVIOUS
<1>3. /\ Moves(s, DialOk(s, idx, r)) /\ Moves(s, DialFailed(s, idx))
      /\ Moves(s, EchoDone(s, idx, res = "ok"))
  BY Zenon, <1>2, DialOkMoves, DialFailedMoves, EchoDoneMoves
<1> QED  BY Zenon, <1>1, <1>3 DEF Response

(* send_queued. *)
LEMMA SendQueuedMoves ==
  ASSUME SetFacts, NEW s, Fit(s), NEW idx \in Slots, NEW r
  PROVE  Moves(s, SendQueued(s, idx, r))
<1> DEFINE q == s.slots[idx].queued
           k == Head(s.slots[idx].queued)
           t == [s EXCEPT !.slots[idx].queued = Tail(@)]
           u == TrySend(t, idx, k, r)
<1>1. CASE q = <<>> \/ r = "blocked"
  BY Zenon, <1>1, MovesSelf DEF SendQueued
<1>2. CASE q # <<>> /\ r # "blocked"
  <2>1. q \in Seq({"Dial", "Echo"})
    BY Zenon DEF Fit, FitConn
  <2>2. k \in {"Dial", "Echo"}
    BY <1>2, <2>1
  <2>3. "Dial" \in {"Dial", "Echo"}
    OBVIOUS
  <2>4. Moves(s, t)
    BY Zenon, <1>2, <2>3, UpdateMoves
  <2>5. SendQueued(s, idx, r) = IF r = "ok" THEN u ELSE Response(u, idx, k, "err", r)
    BY Zenon, <1>2 DEF SendQueued
  <2> HIDE DEF t, k
  <2>10. Fit(t)
    BY Zenon, <2>4 DEF Moves
  <2>6. Moves(t, u)
    BY Zenon, <2>2, <2>10, SendMoves
  <2> HIDE DEF u
  <2>7. Moves(s, u)
    BY Zenon, <2>4, <2>6, MovesTrans
  <2>11. Fit(u)
    BY Zenon, <2>7 DEF Moves
  <2>8. Moves(u, Response(u, idx, k, "err", r))
    BY Zenon, <2>2, <2>11, ResponseMoves
  <2>9. Moves(s, Response(u, idx, k, "err", r))
    BY Zenon, <2>7, <2>8, MovesTrans
  <2> QED  BY Zenon, <2>5, <2>7, <2>9
<1> QED  BY Zenon, <1>1, <1>2

(* A handler of process, with the send_queued that ends it. *)
LEMMA WithQueued ==
  ASSUME SetFacts, NEW s, Fit(s), NEW idx \in Slots, NEW t, Moves(s, t), NEW rq
  PROVE  Moves(s, SendQueued(t, idx, rq))
<1>1. Moves(t, SendQueued(t, idx, rq))
  BY Zenon, SendQueuedMoves DEF Moves
<1> QED  BY Zenon, <1>1, MovesTrans

(* The handshake completed. *)
LEMMA EstablishedMoves ==
  ASSUME SetFacts, NEW s, Fit(s), NEW idx \in Slots, NEW r, NEW rq
  PROVE  Moves(s, Established(s, idx, r, rq))
<1> DEFINE t == [s EXCEPT !.slots[idx].h3 = TRUE]
           u == SendRequest(t, idx, "Dial", r)
           v == IF SendRequestErr(t, idx, "Dial", r) THEN DialFailed(u, idx) ELSE u
<1>1. Moves(s, t)
  BY Zenon, UpdateMoves
<1>2. Established(s, idx, r, rq) = SendQueued(v, idx, rq)
  BY Zenon DEF Established
<1> HIDE DEF t
<1>7. Fit(t) /\ "Dial" \in {"Dial", "Echo"}
  BY Zenon, <1>1 DEF Moves
<1>3. Moves(t, u)
  BY Zenon, <1>7, SendMoves
<1> HIDE DEF u
<1>4. Moves(s, u)
  BY Zenon, <1>1, <1>3, MovesTrans
<1>5. Moves(u, DialFailed(u, idx))
  BY Zenon, <1>4, DialFailedMoves DEF Moves
<1>6. Moves(s, v)
  BY Zenon, <1>4, <1>5, MovesTrans
<1> HIDE DEF v
<1> QED  BY Zenon, <1>2, <1>6, WithQueued

(* BenchMultiplex: a request is answered. *)
LEMMA AnswerMoves ==
  ASSUME SetFacts, NEW s, Fit(s), NEW idx \in Slots, NEW c, FitConn(c, "Rate"),
         s.phase.kind = "Rate",
         c.state = s.slots[idx].state, c.dial = s.slots[idx].dial,
         c.in_flight < s.slots[idx].in_flight, NEW t, Puts(s, t, idx, c),
         NEW a \in {s.phase.answered, s.phase.answered + 1}, NEW d \in Int,
         d - s.phase.recv_times <= a - s.phase.answered
  PROVE  Moves(s, [t EXCEPT !.phase.answered = a, !.phase.recv_times = d])
<1> DEFINE u == [t EXCEPT !.phase.answered = a, !.phase.recv_times = d]
           p == s.phase
           q == u.phase
<1>0. /\ DOMAIN t = DOMAIN s /\ t.slots = [s.slots EXCEPT ![idx] = c] /\ t.phase = s.phase
      /\ t.at = s.at /\ t.len = s.len
  BY Zenon DEF Puts, Sets
<1>1. Formed(s) /\ Formed(t)
  BY Zenon, <1>0, SamePhase DEF Fit
<1>2. u.slots = t.slots /\ u.at = s.at /\ u.len = s.len
  BY Zenon, <1>0, <1>1 DEF Formed
<1>3. DOMAIN u = DOMAIN s /\ DOMAIN q = DOMAIN p /\ q.in_flight = p.in_flight
  BY Zenon, <1>0, <1>1 DEF Formed
<1>4. /\ q.kind = p.kind /\ q.measure = p.measure /\ q.slots = p.slots
      /\ q.exhausted = p.exhausted /\ q.remaining = p.remaining
      /\ q.concurrency = p.concurrency /\ q.send_times = p.send_times
      /\ q.active = p.active /\ q.answered = a /\ q.recv_times = d
      /\ q.ok = p.ok /\ q.failed = p.failed
  BY Zenon, <1>0, <1>1 DEF Formed
<1>5. /\ p.in_flight \in Int /\ p.ok \in Int /\ p.failed \in Int
      /\ p.active \in Int /\ p.answered \in Int /\ p.recv_times \in Int
  BY Zenon, FitCounts
<1>6. a \in Int /\ a <= p.answered + 1
  BY <1>5
<1>7. d - p.recv_times <= a - p.answered
  BY Zenon
<1>19. p.kind # "Dial" /\ p.kind # "Echo" /\ p.kind = "Rate"
  OBVIOUS
<1> HIDE DEF u, p, q
<1>8. Formed(u)
  BY Zenon, <1>1, <1>3, <1>4, <1>5, <1>6 DEF Formed, p, q
<1>20. q.active <= p.active /\ p.ok <= q.ok
  BY <1>4, <1>5
<1>9. Balanced(p, q)
  BY Zenon, <1>4, <1>7, <1>19, <1>20 DEF Balanced
<1>10. c \in Conn
  BY Zenon DEF FitConn
<1>11. Placed(s, u, idx, c)
  BY Zenon, <1>0, <1>2, <1>10, OneSlot
<1>12. /\ u.slots \in [Slots -> Conn] /\ u.slots[idx] = c
       /\ \A i \in Slots : i # idx => u.slots[i] = s.slots[i]
       /\ Occupied(u) = Occupied(s)
  BY Zenon, <1>11 DEF Placed
<1>13. Fit(u)
  BY Zenon, <1>4, <1>8, <1>12, <1>19 DEF Fit, p, q
<1>14. \A i \in Slots : NoNewDial(s.slots[i], u.slots[i])
  BY Zenon, <1>12 DEF NoNewDial
<1>15. \A i \in Slots : u.slots[i].in_flight <= s.slots[i].in_flight
  <2> SUFFICES ASSUME NEW i \in Slots  PROVE  u.slots[i].in_flight <= s.slots[i].in_flight
    BY Zenon
  <2>1. /\ s.slots[i].in_flight \in Nat /\ u.slots[i].in_flight \in Nat
        /\ \/ u.slots[i].in_flight = s.slots[i].in_flight
           \/ u.slots[i].in_flight < s.slots[i].in_flight
    BY Zenon, <1>12, <1>13, FitCounts
  <2> QED  BY <2>1
<1>16. InFlight(u) + 1 <= InFlight(s)
  BY Zenon, <1>12, <1>15, InFlightLess
<1>21. InFlight(u) + q.answered <= InFlight(s) + p.answered
  <2>1. InFlight(u) \in Nat /\ InFlight(s) \in Nat
    BY Zenon, <1>13, FitCounts
  <2> QED  BY <1>4, <1>5, <1>6, <1>16, <2>1
<1>17. Seated(s, u)
  BY Zenon, <1>12, <1>15, <1>19, <1>21 DEF Seated, p, q
<1>18. Moves(s, u)
  BY Zenon, <1>2, <1>9, <1>13, <1>14, <1>17 DEF Moves, p, q
<1> QED  BY Zenon, <1>18 DEF u

(* The answer to a request of BenchMultiplex leaves streams and in_flight. *)
LEMMA RateDoneMoves ==
  ASSUME SetFacts, NEW s, Fit(s), NEW idx \in Slots, s.slots[idx].streams["Rate"] > 0,
         NEW res, NEW r
  PROVE  Moves(s, Response([s EXCEPT !.slots[idx].streams["Rate"] = @ - 1], idx, "Rate", res, r))
<1> DEFINE b == s.slots[idx]
           n == b.in_flight
           m == s.slots[idx].streams["Rate"] - 1
           t == [s EXCEPT !.slots[idx].streams["Rate"] = @ - 1]
           c == [b EXCEPT !.streams["Rate"] = m, !.in_flight = m]
           v == [t EXCEPT !.slots[idx].in_flight = IF @ > 0 THEN @ - 1 ELSE 0]
           a == IF res = "err" THEN s.phase.answered ELSE s.phase.answered + 1
           d == IF res = "ok" THEN s.phase.recv_times + 1 ELSE s.phase.recv_times
<1>0. FitConn(b, s.phase.kind) /\ b \in Conn /\ n \in Nat /\ n = b.streams["Rate"]
  BY Zenon, FitCounts DEF Fit, FitConn
<1>1. n > 0 /\ m \in Nat /\ m < n /\ m <= n /\ n - 1 = m
  BY <1>0
<1>9. t = [s EXCEPT !.slots[idx].streams["Rate"] = m]
  BY Zenon
<1>2. /\ c \in Conn /\ c.state = b.state /\ c.dial = b.dial /\ c.in_flight = m
      /\ c.streams["Rate"] = m /\ c.queued = b.queued
  <2>1. "Rate" \in Kinds
    BY DEF Kinds
  <2> HIDE DEF m
  <2> QED  BY Zenon, <1>0, <1>1, <2>1 DEF Conn
<1>3. t.slots[idx].in_flight = n /\ t.phase = s.phase
  BY Zenon DEF Fit, Formed, Conn
<1>4. Puts(s, v, idx, c)
  <2>1. v = [t EXCEPT !.slots[idx].in_flight = m]
    <3> HIDE DEF t, n, m
    <3> QED  BY Zenon, <1>1, <1>3
  <2> HIDE DEF m, v
  <2>2. /\ DOMAIN v = DOMAIN s /\ v.phase = s.phase /\ v.at = s.at /\ v.len = s.len
    BY Zenon, <2>1 DEF Fit, Formed
  <2>3. v.slots = [t.slots EXCEPT ![idx].in_flight = m]
    BY Zenon, <2>1 DEF Fit, Formed
  <2>4. t.slots = [s.slots EXCEPT ![idx].streams["Rate"] = m]
    BY Zenon, <1>9 DEF Fit, Formed
  <2> HIDE DEF t
  <2>5. v.slots = [s.slots EXCEPT ![idx] = c]
    BY Zenon, <2>3, <2>4 DEF Fit
  <2> QED  BY Zenon, <2>2, <2>5 DEF Puts, Sets
<1>5. \A k : FitConn(b, k) => FitConn(c, k)
  BY Zenon, <1>2 DEF FitConn
<1>6. Response(t, idx, "Rate", res, r)
        = IF s.phase.kind # "Rate" THEN v
          ELSE [v EXCEPT !.phase.answered = IF res = "err" THEN @ ELSE @ + 1,
                         !.phase.recv_times = IF res = "ok" THEN @ + 1 ELSE @]
  <2>1. "Dial" # "Rate" /\ "Echo" # "Rate"
    OBVIOUS
  <2> HIDE DEF t
  <2>2. Response(t, idx, "Rate", res, r)
          = IF t.phase.kind # "Rate" THEN v
            ELSE [v EXCEPT !.phase.answered = IF res = "err" THEN @ ELSE @ + 1,
                           !.phase.recv_times = IF res = "ok" THEN @ + 1 ELSE @]
    BY Zenon, <2>1 DEF Response
  <2> HIDE DEF v
  <2> QED  BY Zenon, <1>3, <2>2
<1> HIDE DEF c, v, t
<1>7. CASE s.phase.kind # "Rate"
  <2>1. Turns(s, idx, c)
    BY Zenon, <1>0, <1>1, <1>2, <1>5 DEF Turns, Suits, NoNewDial
  <2>2. Moves(s, v)
    BY Zenon, <1>4, <2>1, ConnMoves
  <2> QED  BY Zenon, <1>6, <1>7, <2>2 DEF t
<1>8. CASE s.phase.kind = "Rate"
  <2>1. s.phase.answered \in Int /\ s.phase.recv_times \in Int
    BY Zenon, FitCounts
  <2>2. /\ a \in {s.phase.answered, s.phase.answered + 1} /\ d \in Int
        /\ d - s.phase.recv_times <= a - s.phase.answered
    BY <2>1
  <2>3. v.phase = s.phase
    BY Zenon, <1>4 DEF Puts, Sets
  <2>4. Response(t, idx, "Rate", res, r)
          = [v EXCEPT !.phase.answered = a, !.phase.recv_times = d]
    BY Zenon, <1>6, <1>8, <2>3
  <2> HIDE DEF a, d
  <2>5. FitConn(c, "Rate")
    BY Zenon, <1>0, <1>5, <1>8
  <2>6. c.in_flight < s.slots[idx].in_flight
    BY Zenon, <1>1, <1>2
  <2>7. c.state = s.slots[idx].state /\ c.dial = s.slots[idx].dial
    BY Zenon, <1>2
  <2>8. Moves(s, [v EXCEPT !.phase.answered = a, !.phase.recv_times = d])
    BY Zenon, <1>4, <1>8, <2>2, <2>5, <2>6, <2>7, AnswerMoves
  <2> QED  BY Zenon, <2>4, <2>8 DEF t
<1> QED  BY Zenon, <1>7, <1>8

(* A stream finished or was reset. *)
LEMMA StreamDoneMoves ==
  ASSUME SetFacts, NEW s, Fit(s), NEW idx \in Slots, NEW k \in Kinds,
         s.slots[idx].streams[k] > 0,
         NEW res, NEW r, NEW rq
  PROVE  Moves(s, StreamDone(s, idx, k, res, r, rq))
<1> DEFINE t == [s EXCEPT !.slots[idx].streams[k] = @ - 1]
           u == Response(t, idx, k, res, r)
<1>1. CASE k = "Rate"
  BY Zenon, <1>1, RateDoneMoves, WithQueued DEF StreamDone
<1>2. CASE k # "Rate"
  <2>1. k \in {"Dial", "Echo"}
    BY <1>2 DEF Kinds
  <2>2. Moves(s, t)
    BY Zenon, <2>1, UpdateMoves
  <2> HIDE DEF t
  <2>3. Fit(t)
    BY Zenon, <2>2 DEF Moves
  <2>4. Moves(t, u)
    BY Zenon, <2>1, <2>3, ResponseMoves
  <2> HIDE DEF u
  <2>5. Moves(s, u)
    BY Zenon, <2>2, <2>4, MovesTrans
  <2>6. Moves(s, SendQueued(u, idx, rq))
    BY Zenon, <2>5, WithQueued
  <2> QED  BY Zenon, <2>6 DEF StreamDone, t, u
<1> QED  BY Zenon, <1>1, <1>2

(* The connection closed. *)
LEMMA ClosedMoves ==
  ASSUME SetFacts, NEW s, Fit(s), NEW idx \in Slots
  PROVE  Moves(s, Closed(s, idx))
<1> DEFINE b == s.slots[idx]
           t == IF b.streams["Echo"] + Len(b.queued) > 0 THEN EchoDone(s, idx, FALSE) ELSE s
           left == b.in_flight - b.streams["Rate"]
           c == [BrokenConn EXCEPT !.in_flight = IF left > 0 THEN left ELSE 0]
           u == [t EXCEPT !.slots[idx] = c, !.ready = @ - 1]
<1>0. FitConn(b, s.phase.kind) /\ b \in Conn /\ b.in_flight \in Nat /\ b.in_flight = b.streams["Rate"]
  BY Zenon, FitCounts DEF Fit, FitConn
<1>1. "connecting" # "ready" /\ "ready" # "vacant" /\ "broken" # "vacant" /\ "broken" # "connecting"
  OBVIOUS
<1>2. CASE b.state = "connecting"
  BY Zenon, <1>1, <1>2, DialFailedMoves DEF Closed
<1>3. CASE b.state = "ready"
  <2>1. left = 0
    BY <1>0
  <2>2. c = BrokenConn
    <3>1. (IF left > 0 THEN left ELSE 0) = 0
      BY <2>1
    <3>3. BrokenConn \in Conn /\ BrokenConn.in_flight = 0
      BY Zenon, EmptyFits DEF FitConn
    <3>2. [BrokenConn EXCEPT !.in_flight = 0] = BrokenConn
      BY <3>3 DEF Conn
    <3> HIDE DEF left
    <3> QED  BY Zenon, <3>1, <3>2
  <2>3. Closed(s, idx) = u
    BY Zenon, <1>1, <1>3 DEF Closed
  <2> HIDE DEF c
  <2>4. Moves(s, t)
    BY Zenon, MovesSelf, EchoDoneMoves
  <2>5. t.slots = s.slots
    BY Zenon DEF EchoDone, Fit, Formed
  <2> HIDE DEF t
  <2>6. Fit(t)
    BY Zenon, <2>4 DEF Moves
  <2>7. Puts(t, u, idx, BrokenConn)
    BY Zenon, <2>2, <2>6 DEF Fit, Formed, Puts, Sets
  <2>8. FitConn(BrokenConn, t.phase.kind) /\ BrokenConn.state = "broken" /\ BrokenConn.in_flight = 0
    BY Zenon, EmptyFits
  <2>9. 0 <= t.slots[idx].in_flight
    BY <1>0, <2>5
  <2>10. Turns(t, idx, BrokenConn)
    BY Zenon, <1>1, <1>3, <2>5, <2>8, <2>9 DEF Turns, Suits, NoNewDial
  <2> HIDE DEF u
  <2>11. Moves(t, u)
    BY Zenon, <2>6, <2>7, <2>10, ConnMoves
  <2> QED  BY Zenon, <2>3, <2>4, <2>11, MovesTrans
<1>4. CASE b.state # "connecting" /\ b.state # "ready"
  BY Zenon, <1>4, MovesSelf DEF Closed
<1> QED  BY Zenon, <1>2, <1>3, <1>4

-----------------------------------------------------------------------------
(* Dialing. *)

(* A slot that is dialed is vacant or broken, and the vector of slots grows only
   when a new connection finds none free. *)
Goes(s, t) ==
  /\ Fit(t)
  /\ t.len = s.len \/ (s.phase.kind = "Dial" /\ s.free = <<>> /\ t.len = s.len + 1)
  /\ Balanced(s.phase, t.phase) /\ Seated(s, t)
  /\ \A i \in Slots : \/ NoNewDial(s.slots[i], t.slots[i])
                       \/ s.slots[i].state \in {"vacant", "broken"}

(* The worker is at the same point of its loop. *)
SameLoop(s, t) == t.at = s.at

(* What only moves also goes, before and after. *)
LEMMA MovesGoes ==
  ASSUME NEW s, Fit(s), NEW t, Moves(s, t)
  PROVE  Goes(s, t)
BY Zenon DEF Moves, Goes

(* A dial and the calls after it. *)
LEMMA GoesMoves ==
  ASSUME SetFacts, NEW s, Fit(s), NEW t, Goes(s, t), NEW u, Moves(t, u)
  PROVE  Goes(s, u)
<1>1. Fit(t) /\ Fit(u) /\ u.len = t.len
  BY Zenon DEF Moves, Goes
<1>2. Balanced(s.phase, u.phase)
  <2>1. Balanced(s.phase, t.phase) /\ Balanced(t.phase, u.phase)
    BY Zenon DEF Moves, Goes
  <2>2. \A x \in {s.phase, t.phase, u.phase} :
          /\ x.in_flight \in Int /\ x.ok \in Int /\ x.failed \in Int
          /\ x.active \in Int /\ x.answered \in Int /\ x.recv_times \in Int
    BY Zenon, <1>1, FitCounts
  <2> QED  BY Zenon, <2>1, <2>2, BalancedTrans
<1>3. Seated(s, u)
  <2>1. Seated(s, t) /\ Seated(t, u) /\ t.phase.kind = s.phase.kind
    BY Zenon DEF Moves, Goes, Balanced
  <2> QED  BY Zenon, <1>1, <2>1, SeatedTrans
<1>4. \A i \in Slots : \/ NoNewDial(s.slots[i], u.slots[i])
                       \/ s.slots[i].state \in {"vacant", "broken"}
  BY Zenon DEF Moves, Goes, NoNewDial
<1>5. u.len = s.len \/ (s.phase.kind = "Dial" /\ s.free = <<>> /\ u.len = s.len + 1)
  BY Zenon, <1>1 DEF Goes
<1> QED  BY Zenon, <1>1, <1>2, <1>3, <1>4, <1>5 DEF Goes

(* A dial that a worker may make: of a new connection into a vacant slot, or of
   a broken connection. *)
MayDial(s, j) ==
  /\ j \in Job
  /\ s.phase.kind = "Dial" => /\ j.purpose = "New" /\ j.slot = 0 /\ AllocIdx(s) \in Slots
                              /\ s.slots[AllocIdx(s)].state = "vacant"
  /\ s.phase.kind # "Dial" => /\ j.purpose # "New" /\ j.slot \in Slots
                              /\ s.slots[j.slot].state = "broken"

(* A new Conn fits the benchmark it is dialed for. *)
LEMMA NewConnFits ==
  ASSUME NEW j \in Job, NEW k, j.purpose = "New" <=> k = "Dial", NEW i \in Slots
  PROVE  /\ FitConn(NewConn([j EXCEPT !.slot = i]), k)
         /\ NewConn([j EXCEPT !.slot = i]).state = "connecting"
         /\ NewConn([j EXCEPT !.slot = i]).in_flight = 0
<1> DEFINE e == [j EXCEPT !.slot = i]
           c == NewConn(e)
<1>1. e \in Job /\ e.purpose = j.purpose
  <2>1. i \in 0..MaxSlots
    BY WorkerAssumption DEF Slots
  <2> QED  BY <2>1 DEF Job
<1>2. e # NoJob
  BY <1>1 DEF Job, NoJob, Purposes
<1> HIDE DEF e
<1>3. NoConn \in Conn /\ NoConn.in_flight = 0 /\ NoConn.streams["Rate"] = 0 /\ NoConn.queued = <<>>
  <2>1. FitConn(NoConn, k) /\ NoConn.in_flight = 0
    BY Zenon, EmptyFits
  <2>2. NoConn.queued = <<>>
    BY DEF NoConn
  <2> QED  BY Zenon, <2>1, <2>2 DEF FitConn
<1>4. /\ c \in Conn /\ c.state = "connecting" /\ c.dial = e /\ c.in_flight = 0
      /\ c.streams["Rate"] = 0 /\ c.queued = <<>>
  BY Zenon, <1>1, <1>3 DEF NewConn, Conn
<1> HIDE DEF c
<1>5. <<>> \in Seq({"Dial", "Echo"})
  OBVIOUS
<1>6. FitConn(c, k)
  BY Zenon, <1>1, <1>2, <1>4, <1>5 DEF FitConn
<1> QED  BY Zenon, <1>4, <1>6 DEF c, e

(* dial, up to the first flush: the slot holds a connection that is handshaking. *)
LEMMA TakeGoes ==
  ASSUME SetFacts, NEW s, Fit(s), NEW j, MayDial(s, j), NEW idx,
         idx = IF j.slot = 0 THEN AllocIdx(s) ELSE j.slot
  PROVE  /\ Goes(s, [TakeSlot(s, j) EXCEPT !.slots[idx] = NewConn([j EXCEPT !.slot = idx])])
         /\ SameLoop(s, [TakeSlot(s, j) EXCEPT !.slots[idx] = NewConn([j EXCEPT !.slot = idx])])
         /\ idx \in Slots
<1> DEFINE t == TakeSlot(s, j)
           c == NewConn([j EXCEPT !.slot = idx])
           u == [t EXCEPT !.slots[idx] = c]
<1>0. j \in Job /\ (j.purpose = "New" <=> s.phase.kind = "Dial")
  BY Zenon DEF MayDial
<1>1. /\ idx \in Slots
      /\ s.phase.kind = "Dial" => s.slots[idx].state = "vacant" /\ j.slot = 0
      /\ s.phase.kind # "Dial" => s.slots[idx].state = "broken" /\ j.slot # 0 /\ idx = j.slot
  BY DEF MayDial, Slots
<1>2. FitConn(c, s.phase.kind) /\ c.state = "connecting" /\ c.in_flight = 0
  BY Zenon, <1>0, <1>1, NewConnFits
<1>3. s.slots[idx].in_flight \in Nat /\ s.slots \in [Slots -> Conn]
  BY Zenon, <1>1, FitCounts DEF Fit
<1>4. 0 <= s.slots[idx].in_flight
  BY <1>3
<1>5. /\ "connecting" \notin {"ready", "broken"} /\ "connecting" # "vacant"
      /\ "broken" # "vacant"
  OBVIOUS
<1> HIDE DEF c
<1>6. Suits(s, idx, c)
  BY Zenon, <1>1, <1>2, <1>4, <1>5 DEF Suits
<1>7. DOMAIN u = DOMAIN s /\ u.phase = s.phase /\ u.at = s.at
  BY Zenon DEF TakeSlot, AllocSlot, Fit, Formed
<1>8. u.slots = [s.slots EXCEPT ![idx] = c]
  <2>1. CASE j.slot = 0
    BY Zenon, <2>1 DEF TakeSlot, AllocSlot, Fit, Formed
  <2>2. CASE j.slot # 0
    <3>1. t.slots = [s.slots EXCEPT ![idx] = NoConn]
      BY Zenon, <1>1, <2>2 DEF TakeSlot, Fit, Formed, MayDial
    <3>2. u.slots = [t.slots EXCEPT ![idx] = c]
      BY Zenon, <2>2 DEF TakeSlot, Fit, Formed
    <3> HIDE DEF t, u
    <3> QED  BY <1>1, <1>3, <3>1, <3>2
  <2> QED  BY Zenon, <2>1, <2>2
<1>9. u.len = s.len \/ (s.phase.kind = "Dial" /\ s.free = <<>> /\ u.len = s.len + 1)
  <2>1. CASE j.slot # 0
    BY Zenon, <2>1 DEF TakeSlot, Fit, Formed
  <2>2. CASE j.slot = 0 /\ s.free # <<>>
    BY Zenon, <2>2 DEF TakeSlot, AllocSlot, Fit, Formed
  <2>3. CASE j.slot = 0 /\ s.free = <<>>
    <3>1. u.len = s.len + 1
      BY Zenon, <2>3 DEF TakeSlot, AllocSlot, Fit, Formed
    <3> QED  BY Zenon, <1>1, <2>3, <3>1
  <2> QED  BY Zenon, <2>1, <2>2, <2>3
<1> HIDE DEF u, t
<1>14. Sets(s, u, idx, c)
  BY Zenon, <1>7, <1>8 DEF Sets
<1>10. Fit(u) /\ Seated(s, u) /\ Placed(s, u, idx, c)
  BY Zenon, <1>1, <1>6, <1>14, ConnSeats
<1>11. Balanced(s.phase, u.phase)
  BY Zenon, <1>7, BalancedSelf
<1>12. \A i \in Slots : \/ NoNewDial(s.slots[i], u.slots[i])
                        \/ s.slots[i].state \in {"vacant", "broken"}
  BY Zenon, <1>1, <1>10 DEF NoNewDial, Placed
<1>13. Goes(s, u)
  BY Zenon, <1>7, <1>9, <1>10, <1>11, <1>12 DEF Goes
<1> QED  BY Zenon, <1>1, <1>7, <1>13 DEF u, t, c, SameLoop

(* dial, when registering a socket does not fail. *)
LEMMA DialGoes ==
  ASSUME SetFacts, NEW s, Fit(s), NEW j, MayDial(s, j), NEW r \in {"ok", "bind", "send"}
  PROVE  Goes(s, Dial(s, j, r)) /\ Dial(s, j, r).at = s.at
<1> DEFINE idx == IF j.slot = 0 THEN AllocIdx(s) ELSE j.slot
           u == [TakeSlot(s, j) EXCEPT !.slots[idx] = NewConn([j EXCEPT !.slot = idx])]
<1>8. Goes(s, u) /\ SameLoop(s, u) /\ idx \in Slots
  BY Zenon, TakeGoes
<1>2. \/ Dial(s, j, r) = DialFailedJob(s, j)
      \/ Dial(s, j, r) = DialFailed(u, idx)
      \/ Dial(s, j, r) = u
  BY Zenon DEF Dial
<1> HIDE DEF u, idx
<1>1. Goes(s, u) /\ u.at = s.at /\ idx \in Slots
  BY Zenon, <1>8 DEF SameLoop
<1>3. Goes(s, DialFailedJob(s, j)) /\ DialFailedJob(s, j).at = s.at
  <2>1. Moves(s, DialFailedJob(s, j))
    BY Zenon, DialFailedJobMoves
  <2> QED  BY Zenon, <2>1, MovesGoes DEF Moves
<1>4. Fit(u)
  BY Zenon, <1>1 DEF Goes
<1>5. Moves(u, DialFailed(u, idx))
  BY Zenon, <1>1, <1>4, DialFailedMoves
<1>6. Goes(s, DialFailed(u, idx))
  BY Zenon, <1>1, <1>5, GoesMoves
<1>7. DialFailed(u, idx).at = s.at
  BY Zenon, <1>1, <1>5 DEF Moves
<1> QED  BY Zenon, <1>1, <1>2, <1>3, <1>6, <1>7

-----------------------------------------------------------------------------
(* The page of a worker. *)

(* A worker between two handlers is fit, if its requests are counted. *)
LEMMA FitOf ==
  ASSUME NEW s, WorkerInv(s), \A i \in Slots : s.slots[i].in_flight = s.slots[i].streams["Rate"]
  PROVE  Fit(s)
<1>1. /\ s \in WorkerState /\ SlotsInv(s) /\ DialsInv(s, 0)
  BY Zenon DEF WorkerInv, Inv
<1>2. s.slots \in [Slots -> Conn] /\ s.phase \in Phase
  BY <1>1 DEF WorkerState
<1>3. Formed(s)
  <2>1. {"slots", "free", "len", "ready", "retries", "phase", "at"} \subseteq DOMAIN s
    BY Zenon, <1>1 DEF WorkerState
  <2>2. {"kind", "in_flight", "idle", "ok", "failed", "active", "redials", "answered",
         "recv_times", "measure", "slots", "exhausted", "remaining", "concurrency",
         "send_times"} \subseteq DOMAIN s.phase
    BY Zenon, <1>2 DEF Phase
  <2>3. /\ s.phase.in_flight \in Int /\ s.phase.ok \in Int /\ s.phase.failed \in Int
        /\ s.phase.active \in Int /\ s.phase.answered \in Int /\ s.phase.recv_times \in Int
    <3>1. \A n \in Nat : n \in Int
      OBVIOUS
    <3> QED  BY Zenon, <1>2, <3>1 DEF Phase
  <2> QED  BY Zenon, <2>1, <2>2, <2>3 DEF Formed
<1>4. ASSUME NEW i \in Slots  PROVE  FitConn(s.slots[i], s.phase.kind)
  <2> DEFINE c == s.slots[i]
  <2>1. SlotInv(c, i) /\ c \in Conn
    BY <1>1, <1>2 DEF SlotsInv
  <2>2. c.dial # NoJob <=> c.state = "connecting"
    <3>1. \A j \in Job : j # NoJob
      BY DEF Job, NoJob, Purposes
    <3> QED  BY Zenon, <2>1, <3>1 DEF SlotInv
  <2>3. c.state = "connecting" => (c.dial.purpose = "New" <=> s.phase.kind = "Dial")
    <3> SUFFICES ASSUME c.state = "connecting"
                 PROVE  c.dial.purpose = "New" <=> s.phase.kind = "Dial"
      OBVIOUS
    <3>1. s.phase.kind \in {"Idle", "Dial", "Echo", "RatePrep", "Rate"}
      BY <1>2 DEF Phase
    <3>2. \A p : DialsFor(s, p) => c.dial.purpose = p
      BY Zenon DEF DialsFor
    <3>3. ~Quiet(s)
      BY Zenon, <1>1 DEF DialsInv, InState
    <3>4. CASE s.phase.kind = "Dial"
      BY Zenon, <1>1, <3>2, <3>4 DEF DialsInv
    <3>5. CASE s.phase.kind = "Echo"
      <4>1. c.dial.purpose = "RedialEcho"
        BY Zenon, <1>1, <3>2, <3>5 DEF DialsInv
      <4> QED  BY <3>5, <4>1
    <3>6. CASE Redialing(s) /\ s.phase.kind \notin {"Dial", "Echo"}
      <4>1. c.dial.purpose = "RedialRate"
        BY Zenon, <1>1, <3>2, <3>6 DEF DialsInv
      <4> QED  BY <3>6, <4>1
    <3>7. s.phase.kind \in {"Dial", "Echo"} \/ Redialing(s)
      BY <3>1, <3>3 DEF Quiet, Redialing
    <3> QED  BY Zenon, <3>4, <3>5, <3>6, <3>7
  <2>4. c.queued \in Seq({"Dial", "Echo"})
    <3>1. c.queued \in {<<>>, <<"Dial">>, <<"Echo">>}
      <4>1. NoConn.queued = <<>>
        BY DEF NoConn
      <4>2. c.state \in {"vacant", "connecting", "ready", "broken"}
        BY <2>1 DEF Conn
      <4> QED  BY Zenon, <2>1, <4>1, <4>2 DEF SlotInv
    <3>2. <<>> \in Seq({"Dial", "Echo"}) /\ <<"Dial">> \in Seq({"Dial", "Echo"})
          /\ <<"Echo">> \in Seq({"Dial", "Echo"})
      OBVIOUS
    <3> QED  BY Zenon, <3>1, <3>2
  <2> QED  BY Zenon, <2>1, <2>2, <2>3, <2>4 DEF FitConn
<1> QED  BY Zenon, <1>2, <1>3, <1>4 DEF Fit

(* The first n numbers are n. *)
LEMMA UpTo ==
  ASSUME SetFacts
  PROVE \A n \in Nat : IsFiniteSet(1..n) /\ Cardinality(1..n) = n
BY DEF SetFacts, CountInterval

(* The numbers of BenchDial while a dial is still to be made. *)
DialSums(share, len, rem, ok, failed, made, conn, starts, retries, active) ==
  /\ {share, len, rem, ok, failed, made, conn, starts, retries, active} \subseteq Nat
  /\ len <= made + conn /\ starts + retries > 0 /\ made <= ok
  /\ rem + active + ok + failed = share /\ active = starts + retries + conn

(* They leave room for one more slot. *)
LEMMA DialSum ==
  ASSUME NEW share, NEW len, NEW rem, NEW ok, NEW failed, NEW made, NEW conn, NEW starts,
         NEW retries, NEW active,
         DialSums(share, len, rem, ok, failed, made, conn, starts, retries, active)
  PROVE  len + 1 <= share
BY DEF DialSums

(* When no slot is free and a dial is still to be made, the vector of slots has
   not yet the length of the worker's share. *)
LEMMA LenRoom ==
  ASSUME SetFacts, NEW s, WorkerInv(s), NEW share \in Nat, DialPage(s, share),
         s.phase.kind = "Dial", s.free = <<>>, s.starts > 0 \/ s.retries # <<>>
  PROVE  s.len + 1 <= share
<1> DEFINE C == InState(s, "connecting")
<1>1. /\ s \in WorkerState /\ FreeInv(s) /\ s.phase.active = s.starts + Dials(s) + 0
  BY Zenon DEF WorkerInv, Inv, SlotsInv, DialsInv
<1>2. /\ s.len \in 0..MaxSlots /\ s.starts \in Nat /\ s.retries \in Seq(Job)
      /\ s.phase \in Phase /\ s.slots \in [Slots -> Conn]
  BY Zenon, <1>1 DEF WorkerState
<1>0. s.len \in Nat
  BY <1>2, WorkerAssumption
<1>3. /\ s.phase.active \in Nat /\ s.phase.ok \in Nat /\ s.phase.failed \in Nat
      /\ s.phase.remaining \in Nat
  BY Zenon, <1>2 DEF Phase
<1>4. IsFiniteSet(C) /\ IsFiniteSet(Made(s)) /\ C \subseteq Slots /\ Made(s) \subseteq Slots
  <2>1. IsFiniteSet(Slots)
    BY WorkerAssumption DEF Slots, SetFacts, CountInterval
  <2>2. C \subseteq Slots /\ Made(s) \subseteq Slots
    BY DEF Made, InState
  <2> QED  BY Zenon, <2>1, <2>2 DEF SetFacts, CountSubset
<1>5. 1..s.len \subseteq Made(s) \cup C
  <2> SUFFICES ASSUME NEW i \in 1..s.len  PROVE  i \in Made(s) \cup C
    OBVIOUS
  <2>1. i \in Slots /\ i <= s.len
    BY <1>2, WorkerAssumption DEF Slots
  <2>2. Range(s.free) = {}
    BY DEF Range
  <2>3. s.slots[i].state # "vacant"
    BY Zenon, <1>1, <2>1, <2>2 DEF FreeInv
  <2>4. s.slots[i].state \in {"vacant", "connecting", "ready", "broken"}
    BY <1>2, <2>1 DEF Conn
  <2> QED  BY <2>1, <2>3, <2>4 DEF Made, InState
<1>6. s.len <= Cardinality(Made(s)) + Cardinality(C)
  <2> HIDE DEF C
  <2>1. IsFiniteSet(1..s.len) /\ Cardinality(1..s.len) = s.len
    BY Zenon, <1>0, UpTo
  <2>2. /\ IsFiniteSet(Made(s) \cup C)
        /\ Cardinality(Made(s) \cup C)
             = Cardinality(Made(s)) + Cardinality(C) - Cardinality(Made(s) \cap C)
    BY Zenon, <1>4 DEF SetFacts, CountUnion
  <2>3. Cardinality(1..s.len) <= Cardinality(Made(s) \cup C)
    BY Zenon, <1>5, <2>2 DEF SetFacts, CountSubset
  <2>4. Cardinality(Made(s) \cap C) \in Nat /\ Cardinality(Made(s)) \in Nat /\ Cardinality(C) \in Nat
    BY Zenon, <1>4 DEF SetFacts, CountUnion, CountIsNat
  <2> QED  BY <1>0, <2>1, <2>2, <2>3, <2>4
<1>7. Cardinality(C) \in Nat /\ Cardinality(Made(s)) \in Nat
  BY Zenon, <1>4 DEF SetFacts, CountIsNat
<1>8. s.starts + Len(s.retries) > 0 /\ Len(s.retries) \in Nat
  <2>1. s.retries # <<>> => Len(s.retries) > 0
    BY <1>2
  <2>2. Len(s.retries) \in Nat
    BY <1>2
  <2> QED  BY <1>2, <2>1, <2>2
<1>9. /\ s.phase.remaining + s.phase.active + s.phase.ok + s.phase.failed = share
      /\ Cardinality(Made(s)) <= s.phase.ok
  BY Zenon DEF DialPage
<1>10. s.phase.active = s.starts + Len(s.retries) + Cardinality(C)
  BY <1>1, <1>2, <1>7, <1>8 DEF Dials
<1> HIDE DEF C
<1>11. DialSums(share, s.len, s.phase.remaining, s.phase.ok, s.phase.failed,
                Cardinality(Made(s)), Cardinality(C), s.starts, Len(s.retries), s.phase.active)
  BY Zenon, <1>0, <1>2, <1>3, <1>6, <1>7, <1>8, <1>9, <1>10 DEF DialSums
<1> QED  BY Zenon, <1>11, DialSum

(* What is known of a worker between two steps. *)
LEMMA HeldIs ==
  ASSUME NEW s, NEW a, Held(s, a)
  PROVE  /\ WorkerInv(s) /\ s \in WorkerState /\ Fit(s) /\ a.share \in Nat /\ a.most \in Nat
         /\ s.phase \in Phase /\ s.slots \in [Slots -> Conn]
         /\ BenchPage(s, a.bench) /\ DialPage(s, a.share) /\ EchoPage(s, a) /\ RatePage(s, a)
<1>1. /\ WorkerInv(s) /\ a.share \in Nat /\ a.most \in Nat
      /\ BenchPage(s, a.bench) /\ DialPage(s, a.share) /\ EchoPage(s, a) /\ RatePage(s, a)
  BY Zenon DEF Held, Page
<1>2. Fit(s)
  BY Zenon, <1>1, FitOf DEF RatePage
<1>3. s \in WorkerState
  BY Zenon, <1>1 DEF WorkerInv, Inv
<1>4. s.phase \in Phase /\ s.slots \in [Slots -> Conn]
  BY Zenon, <1>3 DEF WorkerState
<1> QED  BY Zenon, <1>1, <1>2, <1>3, <1>4

(* A handler that moves the books leaves the page right. *)
LEMMA PageMoves ==
  ASSUME SetFacts, NEW s \in WorkerState, Fit(s), NEW a, a.most \in Nat, Page(s, a), NEW t,
         Goes(s, t),
         Redialing(t) <=> Redialing(s), t.len <= a.share
  PROVE  Page(t, a)
<1> DEFINE p == s.phase
           q == t.phase
<1>1. /\ Fit(t) /\ Balanced(p, q) /\ Seated(s, t) /\ t.phase.kind = s.phase.kind
  BY Zenon DEF Goes, Balanced
<1>2. /\ BenchPage(s, a.bench) /\ DialPage(s, a.share) /\ EchoPage(s, a) /\ RatePage(s, a)
  BY Zenon DEF Page
<1>3. BenchPage(t, a.bench)
  BY Zenon, <1>1, <1>2 DEF BenchPage, Balanced
<1>4. /\ p.in_flight \in Int /\ p.ok \in Int /\ p.failed \in Int /\ p.active \in Int
      /\ p.answered \in Int /\ p.recv_times \in Int
      /\ q.in_flight \in Int /\ q.ok \in Int /\ q.failed \in Int /\ q.active \in Int
      /\ q.answered \in Int /\ q.recv_times \in Int
      /\ Cardinality(Made(s)) \in Nat /\ Cardinality(Made(t)) \in Nat
      /\ InFlight(s) \in Nat /\ InFlight(t) \in Nat
  BY Zenon, <1>1, <1>2, FitCounts
<1>5. p.remaining \in Nat /\ p.concurrency \in Nat /\ p.send_times \in Nat
  BY Zenon, <1>2 DEF WorkerState, Phase
<1>6. DialPage(t, a.share)
  <2>2. ASSUME t.phase.kind = "Dial"
        PROVE  /\ q.active <= q.concurrency /\ (a.share > 0 => q.concurrency > 0)
               /\ q.remaining + q.active + q.ok + q.failed = a.share
               /\ Cardinality(Made(t)) <= q.ok
    <3>1. /\ p.active <= p.concurrency /\ p.remaining + p.active + p.ok + p.failed = a.share
          /\ Cardinality(Made(s)) <= p.ok /\ (a.share > 0 => p.concurrency > 0)
      BY Zenon, <1>1, <1>2, <2>2 DEF DialPage
    <3>2. /\ q.active <= p.active /\ q.remaining = p.remaining /\ q.concurrency = p.concurrency
          /\ q.active + q.ok + q.failed = p.active + p.ok + p.failed
      BY Zenon, <1>1, <2>2 DEF Balanced
    <3>3. Cardinality(Made(t)) + p.ok <= Cardinality(Made(s)) + q.ok
      BY Zenon, <1>1, <2>2 DEF Seated
    <3> HIDE DEF p, q
    <3>4. q.remaining + q.active + q.ok + q.failed = p.remaining + p.active + p.ok + p.failed
      BY <1>4, <1>5, <3>2
    <3>5. q.active <= q.concurrency
      BY <1>4, <1>5, <3>1, <3>2
    <3>6. Cardinality(Made(t)) <= q.ok
      BY <1>4, <3>1, <3>3
    <3> QED  BY Zenon, <3>1, <3>2, <3>4, <3>5, <3>6
  <2> QED  BY Zenon, <2>2 DEF DialPage
<1>7. EchoPage(t, a)
  <2> SUFFICES ASSUME t.phase.kind = "Echo"
               PROVE  /\ q.measure => Cardinality(a.drawn) = q.in_flight + q.ok + q.failed
                      /\ Staffed(t, a.conc) => q.slots > 0 /\ (q.exhausted => a.job.issued >= a.job.times)
    BY Zenon DEF EchoPage
  <2>1. /\ p.measure => Cardinality(a.drawn) = p.in_flight + p.ok + p.failed
        /\ Staffed(s, a.conc) => p.slots > 0 /\ (p.exhausted => a.job.issued >= a.job.times)
    BY Zenon, <1>1, <1>2 DEF EchoPage
  <2>2. /\ q.measure = p.measure /\ q.slots = p.slots /\ q.exhausted = p.exhausted
        /\ p.measure => q.in_flight + q.ok + q.failed = p.in_flight + p.ok + p.failed
    BY Zenon, <1>1 DEF Balanced
  <2>3. Staffed(t, a.conc) => Staffed(s, a.conc)
    <3>1. s.phase.kind # "Dial"
      BY <1>1
    <3> QED  BY Zenon, <1>1, <3>1 DEF Seated, Staffed
  <2> QED  BY Zenon, <2>1, <2>2, <2>3
<1>8. RatePage(t, a)
  <2>1. ASSUME NEW i \in Slots
        PROVE  /\ t.slots[i].in_flight = t.slots[i].streams["Rate"]
               /\ t.slots[i].in_flight <= a.most
               /\ s.slots[i].in_flight = 0 => t.slots[i].in_flight = 0
    <3>1. t.slots[i].in_flight = t.slots[i].streams["Rate"]
      BY Zenon, <1>1 DEF Fit, FitConn
    <3>2. /\ s.slots[i].in_flight \in Nat /\ t.slots[i].in_flight \in Nat
          /\ t.slots[i].in_flight <= s.slots[i].in_flight
          /\ s.slots[i].in_flight <= a.most
      BY Zenon, <1>1, <1>2, FitCounts DEF Seated, RatePage
    <3>4. PICK x \in Nat, y \in Nat : x = t.slots[i].in_flight /\ y = s.slots[i].in_flight
      BY Zenon, <3>2
    <3>5. PICK m \in Nat : m = a.most
      BY Zenon, <1>2
    <3> QED  BY <3>1, <3>2, <3>4, <3>5
  <2>2. a.bench \in {"Dial", "Warmup", "Echo"} \/ Redialing(t) => NoneOpen(t)
    BY Zenon, <1>2, <2>1 DEF RatePage, NoneOpen
  <2>3. q.recv_times <= q.answered
    <3>1. p.recv_times <= p.answered /\ q.recv_times - p.recv_times <= q.answered - p.answered
      BY Zenon, <1>1, <1>2 DEF Balanced, RatePage
    <3> HIDE DEF p, q
    <3> QED  BY <1>4, <3>1
  <2>4. ASSUME t.phase.kind = "Rate"  PROVE  q.answered + InFlight(t) <= q.send_times
    <3>1. /\ p.answered + InFlight(s) <= p.send_times /\ q.send_times = p.send_times
          /\ InFlight(t) + q.answered <= InFlight(s) + p.answered
      BY Zenon, <1>1, <1>2, <2>4 DEF Balanced, Seated, RatePage
    <3> HIDE DEF p, q
    <3> QED  BY <1>4, <1>5, <3>1
  <2> QED  BY Zenon, <2>1, <2>2, <2>3, <2>4 DEF RatePage
<1> QED  BY Zenon, <1>3, <1>6, <1>7, <1>8 DEF Page, DialPage

(* It does so to the page of a worker between two steps. *)
LEMMA PageGoes ==
  ASSUME SetFacts, NEW s, NEW a, Held(s, a), NEW t, Goes(s, t), Redialing(t) <=> Redialing(s),
         t.len <= a.share
  PROVE  Page(t, a)
<1>1. s \in WorkerState /\ Fit(s) /\ a.most \in Nat /\ Page(s, a)
  BY Zenon, HeldIs DEF Held
<1> QED  BY Zenon, <1>1, PageMoves

(* One that is not dialing has, before it begins, no more than before. *)
LEMMA FreshGoes ==
  ASSUME SetFacts, NEW s, Fit(s), NEW b, Fresh(s, b), NEW t, Goes(s, t), s.phase.kind # "Dial"
  PROVE  Fresh(t, b)
<1>1. t.len = s.len /\ Fit(t) /\ Seated(s, t)
  BY Zenon DEF Goes
<1>2. ASSUME NoneOpen(s)  PROVE  NoneOpen(t)
  <2> SUFFICES ASSUME NEW i \in Slots  PROVE  t.slots[i].in_flight = 0
    BY Zenon DEF NoneOpen
  <2>1. /\ t.slots[i].in_flight \in Nat /\ s.slots[i].in_flight = 0
        /\ t.slots[i].in_flight <= s.slots[i].in_flight
    BY Zenon, <1>1, <1>2, FitCounts DEF NoneOpen, Seated
  <2> QED  BY <2>1
<1> QED  BY Zenon, <1>1, <1>2 DEF Fresh

(* A handler of a worker keeps its page, and dials only what is not up. *)
LEMMA GoKept ==
  ASSUME SetFacts, NEW s, NEW a, Held(s, a), NEW t, Goes(s, t), Redialing(t) <=> Redialing(s),
         t.len <= a.share
  PROVE  Kept(s, t, a)
<1>1. Fit(s) /\ BenchPage(s, a.bench)
  BY Zenon, HeldIs
<1>2. Page(t, a)
  BY Zenon, PageGoes
<1>3. Rests(s) /\ Fresh(s, a.bench) => Fresh(t, a.bench)
  <2>1. Rests(s) => s.phase.kind # "Dial"
    BY DEF Rests
  <2> QED  BY Zenon, <1>1, <2>1, FreshGoes
<1>4. a.bench \in {"Warmup", "Echo"} => Occupied(t) = Occupied(s)
  <2>1. a.bench \in {"Warmup", "Echo"} => s.phase.kind # "Dial"
    BY Zenon, <1>1, "Dial" # "Warmup", "Dial" # "Echo" DEF BenchPage
  <2> QED  BY Zenon, <2>1 DEF Goes, Seated
<1>5. DialsVacant(s, t)
  BY Zenon DEF Goes, DialsVacant
<1> QED  BY Zenon, <1>2, <1>3, <1>4, <1>5 DEF Kept, Orderly

(* One that moves it as above does. *)
LEMMA MoveKept ==
  ASSUME SetFacts, NEW s, NEW a, Held(s, a), NEW t, Moves(s, t)
  PROVE  Kept(s, t, a)
<1>1. Fit(s) /\ DialPage(s, a.share)
  BY Zenon, HeldIs
<1>2. Goes(s, t)
  BY Zenon, <1>1, MovesGoes
<1>3. t.at = s.at /\ t.phase.kind = s.phase.kind /\ t.len = s.len
  BY Zenon DEF Moves, Balanced
<1>4. (Redialing(t) <=> Redialing(s)) /\ t.len <= a.share
  BY Zenon, <1>1, <1>3 DEF Redialing, DialPage
<1> QED  BY Zenon, <1>2, <1>4, GoKept

(* What the network and the timers make of a connection. *)
LEMMA NetKept ==
  ASSUME SetFacts, NEW s, NEW a, Held(s, a), NEW t, NEW i \in Slots, NetStep(s, t, i)
  PROVE  Kept(s, t, a)
<1>0. Fit(s)
  BY Zenon, HeldIs
<1>1. Moves(s, t)
  <2>1. CASE \E r, rq \in SentAs : t = Established(s, i, r, rq)
    BY Zenon, <1>0, <2>1, EstablishedMoves
  <2>2. CASE \E k \in Kinds, res \in {"ok", "bad", "err"}, r, rq \in SentAs :
               s.slots[i].streams[k] > 0 /\ t = StreamDone(s, i, k, res, r, rq)
    BY Zenon, <1>0, <2>2, StreamDoneMoves
  <2>3. CASE \E rq \in {"ok", "failed"} : t = SendQueued(s, i, rq)
    BY Zenon, <1>0, <2>3, SendQueuedMoves
  <2>4. CASE t = Closed(s, i)
    BY Zenon, <1>0, <2>4, ClosedMoves
  <2>5. CASE t = [s EXCEPT !.slots[i].goaway = TRUE] \/ t = [s EXCEPT !.slots[i].closing = TRUE]
    <3>1. /\ Moves(s, [s EXCEPT !.slots[i].goaway = TRUE])
          /\ Moves(s, [s EXCEPT !.slots[i].closing = TRUE])
      BY Zenon, <1>0, UpdateMoves
    <3> QED  BY Zenon, <2>5, <3>1
  <2>6. CASE t = DialFailed(s, i)
    BY Zenon, <1>0, <2>6, DialFailedMoves
  <2> QED  BY Zenon, <2>1, <2>2, <2>3, <2>4, <2>5, <2>6 DEF NetStep
<1> QED  BY Zenon, <1>1, MoveKept

-----------------------------------------------------------------------------
(* Dialing. *)

(* s0 differs from s in the lists of what is to be dialed, or in its loop. *)
Twin(s, s0) ==
  /\ DOMAIN s0 = DOMAIN s /\ s0.slots = s.slots /\ s0.phase = s.phase
  /\ s0.len = s.len /\ s0.free = s.free

(* What a dial does to the one it does to the other. *)
LEMMA TwinGoes ==
  ASSUME NEW s, Fit(s), NEW s0, Twin(s, s0)
  PROVE  Fit(s0) /\ \A t : Goes(s0, t) => Goes(s, t)
<1>1. Fit(s0)
  BY Zenon, SamePhase DEF Twin, Fit
<1>2. Occupied(s0) = Occupied(s) /\ Made(s0) = Made(s) /\ InFlight(s0) = InFlight(s)
  BY Zenon DEF Twin, Occupied, Made, InState, InFlight
<1> QED  BY Zenon, <1>1, <1>2 DEF Twin, Goes, Seated

(* What is dialed for, and how long the vector of slots may become. *)
LEMMA DialKept ==
  ASSUME SetFacts, NEW s, NEW a, Held(s, a), NEW s0, Twin(s, s0),
         NEW j, MayDial(s0, j), NEW r \in {"ok", "bind", "send"},
         s.phase.kind = "Dial" => s.starts > 0 \/ s.retries # <<>>,
         s0.at = s.at \/ (s.phase.kind = "Dial" /\ s0.at = "poll")
  PROVE  Kept(s, Dial(s0, j, r), a)
<1> DEFINE t == Dial(s0, j, r)
<1>1. Fit(s) /\ WorkerInv(s) /\ DialPage(s, a.share) /\ a.share \in Nat
  BY Zenon, HeldIs
<1>2. Fit(s0) /\ \A u : Goes(s0, u) => Goes(s, u)
  BY Zenon, <1>1, TwinGoes
<1>3. Goes(s, t) /\ t.at = s0.at
  BY Zenon, <1>2, DialGoes
<1> HIDE DEF t
<1>4. t.phase.kind = s.phase.kind
  BY Zenon, <1>3 DEF Goes, Balanced
<1>5. s.phase.kind = "Dial" => s.at # "redialing" /\ t.at # "redialing"
  BY Zenon, <1>1, <1>3, "Dial" # "Idle", "poll" # "redialing",
     "redialing" \in {"redialing", "exited"} DEF WorkerInv, Inv, ControlInv
<1>6. Redialing(t) <=> Redialing(s)
  BY Zenon, <1>3, <1>4, <1>5 DEF Redialing
<1>9. t.len <= a.share
  <2>1. s.len <= a.share
    BY Zenon, <1>1 DEF DialPage
  <2>2. CASE t.len = s.len
    BY Zenon, <2>1, <2>2
  <2>3. CASE s.phase.kind = "Dial" /\ s.free = <<>> /\ t.len = s.len + 1
    BY Zenon, <1>1, <2>3, LenRoom
  <2> QED  BY Zenon, <1>3, <2>2, <2>3 DEF Goes
<1>10. Kept(s, t, a)
  BY Zenon, <1>3, <1>6, <1>9, GoKept
<1> QED  BY Zenon, <1>10 DEF t

(* alloc_slot finds a vacant slot. *)
LEMMA AllocIsVacant ==
  ASSUME NEW s, WorkerInv(s), AllocIdx(s) <= MaxSlots
  PROVE  AllocIdx(s) \in Slots /\ s.slots[AllocIdx(s)].state = "vacant"
<1>1. s \in WorkerState /\ FreeInv(s)
  BY Zenon DEF WorkerInv, Inv, SlotsInv
<1>2. s.free \in Seq(Slots) /\ s.len \in 0..MaxSlots
  BY Zenon, <1>1 DEF WorkerState
<1>3. CASE s.free # <<>>
  <2>1. Len(s.free) \in DOMAIN s.free /\ s.free[Len(s.free)] \in Slots
    BY <1>2, <1>3
  <2>2. AllocIdx(s) = s.free[Len(s.free)]
    BY Zenon, <1>3 DEF AllocIdx
  <2>3. AllocIdx(s) \in Range(s.free)
    BY Zenon, <2>1, <2>2 DEF Range
  <2> QED  BY Zenon, <1>1, <2>1, <2>2, <2>3 DEF FreeInv
<1>4. CASE s.free = <<>>
  <2>1. AllocIdx(s) = s.len + 1
    BY Zenon, <1>4 DEF AllocIdx
  <2>2. AllocIdx(s) \in Slots /\ AllocIdx(s) > s.len
    BY <1>2, <2>1, WorkerAssumption DEF Slots
  <2> QED  BY Zenon, <1>1, <2>2 DEF FreeInv
<1> QED  BY Zenon, <1>3, <1>4

(* drive: a dial of the ones this pass starts. *)
LEMMA NextDialKept ==
  ASSUME SetFacts, NEW s, NEW a, Held(s, a), s.at = "dialing", AllocIdx(s) <= MaxSlots,
         NEW r \in {"ok", "bind", "send"}
  PROVE  Kept(s, DialNext(s, r), a)
<1> DEFINE s0 == [s EXCEPT !.starts = @ - 1, !.at = IF s.starts = 1 THEN "poll" ELSE @]
           j == FirstDial("New", 0)
<1>1. WorkerInv(s) /\ s \in WorkerState
  BY Zenon, HeldIs
<1>2. DialNext(s, r) = Dial(s0, j, r)
  BY Zenon DEF DialNext
<1>4. s.phase.kind = "Dial" /\ s.starts > 0
  BY Zenon, <1>1 DEF WorkerInv, Inv, ControlInv
<1>5. /\ Twin(s, s0) /\ s0.at \in {s.at, "poll"}
  BY <1>1 DEF WorkerState, Twin
<1>6. AllocIdx(s) \in Slots /\ s.slots[AllocIdx(s)].state = "vacant"
  BY Zenon, <1>1, AllocIsVacant
<1>7. j \in Job /\ j.purpose = "New" /\ j.slot = 0
  BY WorkerAssumption DEF FirstDial, Job, Purposes
<1> HIDE DEF s0, j
<1>8. MayDial(s0, j)
  <2>1. AllocIdx(s0) = AllocIdx(s)
    BY Zenon, <1>5 DEF Twin, AllocIdx
  <2> QED  BY Zenon, <1>4, <1>5, <1>6, <1>7, <2>1 DEF MayDial, Twin
<1> QED  BY Zenon, <1>2, <1>4, <1>5, <1>8, DialKept

(* fire_retries: the dial that is due. *)
LEMMA RetryKept ==
  ASSUME SetFacts, NEW s, NEW a, Held(s, a), s.at = "poll", s.retries # <<>>,
         Head(s.retries).slot = 0 => AllocIdx(s) <= MaxSlots,
         NEW r \in {"ok", "bind", "send"}
  PROVE  Kept(s, FireRetry(s, r), a)
<1> DEFINE s0 == [s EXCEPT !.retries = Tail(@)]
           j == Head(s.retries)
<1>1. WorkerInv(s) /\ s \in WorkerState
  BY Zenon, HeldIs
<1>2. FireRetry(s, r) = Dial(s0, j, r)
  BY Zenon DEF FireRetry
<1>4. s.retries # <<>> /\ s.at = "poll" /\ (j.slot = 0 => AllocIdx(s) <= MaxSlots)
  BY Zenon
<1>5. Twin(s, s0) /\ s0.at = s.at
  BY <1>1 DEF WorkerState, Twin
<1>6. j \in Job /\ 1 \in 1..Len(s.retries) /\ j = s.retries[1]
  BY <1>1, <1>4 DEF WorkerState
<1>7. s.phase.kind \in {"Dial", "Echo", "RatePrep"}
  <2>1. s.phase.kind \in {"Idle", "Dial", "Echo", "RatePrep", "Rate"}
    BY Zenon, <1>1 DEF WorkerState, Phase
  <2>2. ~Quiet(s)
    BY Zenon, <1>1, <1>4 DEF WorkerInv, Inv, DialsInv
  <2> QED  BY <1>4, <2>1, <2>2 DEF Quiet
<1> HIDE DEF s0, j
<1>8. MayDial(s0, j)
  <2>1. AllocIdx(s0) = AllocIdx(s)
    BY Zenon, <1>5 DEF Twin, AllocIdx
  <2>2. DialsInv(s, 0)
    BY Zenon, <1>1 DEF WorkerInv, Inv
  <2>3. \A p : DialsFor(s, p) =>
          /\ j.purpose = p
          /\ p = "New" => j.slot = 0
          /\ p # "New" => j.slot \in Slots /\ s.slots[j.slot].state = "broken"
    BY Zenon, <1>6 DEF DialsFor
  <2>4. CASE s.phase.kind = "Dial"
    <3>1. j.purpose = "New" /\ j.slot = 0
      BY Zenon, <2>2, <2>3, <2>4 DEF DialsInv
    <3>2. AllocIdx(s) \in Slots /\ s.slots[AllocIdx(s)].state = "vacant"
      BY Zenon, <1>1, <1>4, <3>1, AllocIsVacant
    <3> QED  BY Zenon, <1>5, <1>6, <2>1, <2>4, <3>1, <3>2 DEF MayDial, Twin
  <2>5. CASE s.phase.kind # "Dial"
    <3>1. PICK p \in {"RedialEcho", "RedialRate"} : DialsFor(s, p)
      BY Zenon, <1>7, <2>2, <2>5 DEF DialsInv, Redialing
    <3>2. p # "New"
      OBVIOUS
    <3>3. j.purpose # "New" /\ j.slot \in Slots /\ s.slots[j.slot].state = "broken"
      BY Zenon, <2>3, <3>1, <3>2
    <3> QED  BY Zenon, <1>5, <1>6, <2>5, <3>3 DEF MayDial, Twin
  <2> QED  BY Zenon, <2>4, <2>5
<1> QED  BY Zenon, <1>2, <1>4, <1>5, <1>8, DialKept

(* start, Rate: the dial of a broken connection. *)
LEMMA RedialKept ==
  ASSUME SetFacts, NEW s, NEW a, Held(s, a), s.at = "redialing", NEW i \in s.todo,
         NEW r \in {"ok", "bind", "send"}
  PROVE  Kept(s, Dial([s EXCEPT !.todo = @ \ {i}], FirstDial("RedialRate", i), r), a)
<1> DEFINE s0 == [s EXCEPT !.todo = @ \ {i}]
           j == FirstDial("RedialRate", i)
<1>1. WorkerInv(s) /\ s \in WorkerState
  BY Zenon, HeldIs
<1>5. Twin(s, s0) /\ s0.at = s.at
  BY <1>1 DEF WorkerState, Twin
<1>6. s.phase.kind = "Idle" /\ s.todo \subseteq InState(s, "broken")
  BY Zenon, <1>1, "redialing" \in {"redialing", "exited"}
     DEF WorkerInv, Inv, ControlInv, DialsInv
<1>7. i \in Slots /\ s.slots[i].state = "broken"
  BY Zenon, <1>6 DEF InState
<1>8. j \in Job /\ j.purpose # "New" /\ j.slot = i
  BY <1>7, WorkerAssumption DEF FirstDial, Job, Purposes, Slots
<1> HIDE DEF s0, j
<1>9. MayDial(s0, j)
  BY Zenon, <1>5, <1>6, <1>7, <1>8, "Idle" # "Dial" DEF MayDial, Twin
<1>10. Kept(s, Dial(s0, j, r), a)
  BY Zenon, <1>5, <1>6, <1>9, "Idle" # "Dial", DialKept
<1> QED  BY Zenon, <1>10 DEF s0, j

(* A dial. *)
LEMMA DialStepKept ==
  ASSUME SetFacts, NEW s, NEW a, Held(s, a), NEW t, DialStep(s, t)
  PROVE  Kept(s, t, a)
<1>1. PICK r \in DialedAs :
        \/ /\ s.at = "poll" /\ s.retries # <<>>
           /\ Head(s.retries).slot = 0 => AllocIdx(s) <= MaxSlots
           /\ t = FireRetry(s, r)
        \/ s.at = "dialing" /\ AllocIdx(s) <= MaxSlots /\ t = DialNext(s, r)
        \/ /\ s.at = "redialing"
           /\ \E i \in s.todo : t = Dial([s EXCEPT !.todo = @ \ {i}], FirstDial("RedialRate", i), r)
  BY Zenon DEF DialStep
<1>2. r \in {"ok", "bind", "send"}
  BY Zenon DEF DialedAs
<1> QED  BY Zenon, <1>1, <1>2, RetryKept, NextDialKept, RedialKept

-----------------------------------------------------------------------------
(* The loops of drive. *)

(* t differs from s in its loop and in what the books do not hold. *)
LEMMA KeepKept ==
  ASSUME SetFacts, NEW s, NEW a, Held(s, a), NEW t, Formed(t),
         t.slots = s.slots, t.len = s.len,
         Balanced(s.phase, t.phase), t.phase.answered = s.phase.answered,
         t.at # "redialing" /\ s.at # "redialing"
  PROVE  Kept(s, t, a)
<1>1. Fit(s) /\ DialPage(s, a.share)
  BY Zenon, HeldIs
<1>2. t.phase.kind = s.phase.kind
  BY Zenon DEF Balanced
<1>3. Fit(t)
  BY Zenon, <1>1, <1>2 DEF Fit
<1>4. Occupied(t) = Occupied(s) /\ Made(t) = Made(s) /\ InFlight(t) = InFlight(s)
  BY Zenon DEF Occupied, Made, InState, InFlight
<1>5. Seated(s, t)
  <2>1. /\ Cardinality(Made(s)) \in Nat /\ s.phase.ok \in Int /\ t.phase.ok \in Int
        /\ InFlight(s) \in Nat /\ s.phase.answered \in Int
        /\ \A i \in Slots : s.slots[i].in_flight \in Nat
    BY Zenon, <1>1, <1>3, FitCounts
  <2>2. \A i \in Slots : t.slots[i].in_flight <= s.slots[i].in_flight
    BY <2>1
  <2>3. s.phase.ok <= t.phase.ok
    BY Zenon DEF Balanced
  <2>4. Cardinality(Made(t)) + s.phase.ok <= Cardinality(Made(s)) + t.phase.ok
    BY <1>4, <2>1, <2>3
  <2>5. InFlight(t) + t.phase.answered <= InFlight(s) + s.phase.answered
    BY <1>4, <2>1
  <2> QED  BY Zenon, <1>4, <2>2, <2>4, <2>5 DEF Seated
<1>6. \A i \in Slots : NoNewDial(s.slots[i], t.slots[i])
  BY Zenon DEF NoNewDial
<1>7. Goes(s, t)
  BY Zenon, <1>3, <1>5, <1>6 DEF Goes
<1>8. t.len <= a.share
  BY Zenon, <1>1 DEF DialPage
<1>9. Redialing(t) <=> Redialing(s)
  BY Zenon, <1>2 DEF Redialing
<1> QED  BY Zenon, <1>7, <1>8, <1>9, GoKept

(* What a loop changes of a worker whose benchmark goes on. *)
Loops(s, t) ==
  /\ DOMAIN t = DOMAIN s /\ t.slots = s.slots /\ t.len = s.len /\ t.at \in {"poll", "ticking"}
  /\ t.phase \in {s.phase, [s.phase EXCEPT !.ticks = @ + 1], [s.phase EXCEPT !.grace = TRUE]}

(* A loop that goes on keeps the books. *)
LEMMA LoopKept ==
  ASSUME SetFacts, NEW s, NEW a, Held(s, a), NEW t, Loops(s, t), s.phase.kind # "Idle"
  PROVE  Kept(s, t, a)
<1> DEFINE p == s.phase
           q == t.phase
<1>1. s \in WorkerState /\ WorkerInv(s) /\ Fit(s) /\ p \in Phase
  BY Zenon, HeldIs
<1>2. /\ DOMAIN q = DOMAIN p /\ q.kind = p.kind /\ q.measure = p.measure /\ q.slots = p.slots
      /\ q.exhausted = p.exhausted /\ q.remaining = p.remaining
      /\ q.concurrency = p.concurrency /\ q.send_times = p.send_times
      /\ q.active = p.active /\ q.ok = p.ok /\ q.failed = p.failed
      /\ q.in_flight = p.in_flight /\ q.answered = p.answered /\ q.recv_times = p.recv_times
  <2>1. CASE q = p
    BY Zenon, <2>1
  <2>2. CASE q = [p EXCEPT !.ticks = @ + 1]
    BY Zenon, <1>1, <2>2 DEF Phase
  <2>3. CASE q = [p EXCEPT !.grace = TRUE]
    BY Zenon, <1>1, <2>3 DEF Phase
  <2> QED  BY Zenon, <2>1, <2>2, <2>3 DEF Loops
<1>3. Balanced(p, q)
  <2>1. Balanced(p, p)
    BY Zenon, <1>1, BalancedSelf
  <2> QED  BY Zenon, <1>2, <2>1 DEF Balanced
<1>4. Formed(t)
  BY Zenon, <1>1, <1>2 DEF Loops, Fit, Formed
<1>5. s.at # "redialing" /\ t.at # "redialing"
  <2>1. s.at # "redialing"
    BY Zenon, <1>1, "redialing" \in {"redialing", "exited"} DEF WorkerInv, Inv, ControlInv
  <2> QED  BY <2>1 DEF Loops
<1> QED  BY Zenon, <1>2, <1>3, <1>4, <1>5, KeepKept DEF Loops

(* drive_echo and drive_rate, and the loop of rate_tick. *)
LEMMA LoopsOn ==
  ASSUME NEW s \in WorkerState, NEW i
  PROVE  /\ Loops(s, [s EXCEPT !.at = "poll"])
         /\ Loops(s, [s EXCEPT !.at = "ticking", !.todo = s.phase.conns, !.phase.ticks = @ + 1])
         /\ s.at = "poll" => Loops(s, [s EXCEPT !.phase.grace = TRUE])
         /\ s.at = "ticking" => Loops(s, [s EXCEPT !.todo = @ \ {i}])
BY DEF WorkerState, Loops

-----------------------------------------------------------------------------
(* The counters of a benchmark. *)

(* The requests that are open are as before. *)
LEMMA SameRate ==
  ASSUME NEW s, NEW a, RatePage(s, a), NEW t, t.slots = s.slots,
         Redialing(t) => Redialing(s) \/ NoneOpen(s), t.phase.kind # "Rate",
         t.phase.recv_times <= t.phase.answered
  PROVE  RatePage(t, a)
BY Zenon DEF RatePage, NoneOpen

(* A worker that works, outside BenchEcho, with its page right. *)
LEMMA WorksKept ==
  ASSUME NEW s, NEW a, NEW t, BenchPage(t, a.bench), DialPage(t, a.share), EchoPage(t, a),
         RatePage(t, a), DialsVacant(s, t), ~Rests(s), a.bench \notin {"Warmup", "Echo"}
  PROVE  Kept(s, t, a)
BY Zenon DEF Kept, Orderly, Page

(* One whose connections are as before dials nothing. *)
LEMMA SameVacant ==
  ASSUME NEW s, NEW t, \A i \in Slots : /\ t.slots[i].state = s.slots[i].state
                                        /\ t.slots[i].dial = s.slots[i].dial
  PROVE  DialsVacant(s, t)
BY Zenon DEF DialsVacant, NoNewDial

(* The dials started go from what remains to what is active. *)
LEMMA StartSum ==
  ASSUME NEW remaining \in Nat, NEW active \in Nat, NEW concurrency \in Nat, NEW ok \in Nat,
         NEW failed \in Nat, NEW n \in Nat, n <= remaining, n <= concurrency - active
  PROVE  /\ active + n <= concurrency
         /\ (remaining - n) + (active + n) + ok + failed = remaining + active + ok + failed
OBVIOUS

(* drive: how many dials this pass starts. *)
LEMMA StartDialsKept ==
  ASSUME NEW s, NEW a, Held(s, a), s.at = "poll", s.phase.kind = "Dial", Starts(s) > 0
  PROVE  Kept(s, DriveDial(s), a)
<1> DEFINE p == s.phase
           n == Starts(s)
           t == DriveDial(s)
           q == t.phase
<1>1. /\ s \in WorkerState /\ p \in Phase
      /\ BenchPage(s, a.bench) /\ DialPage(s, a.share) /\ RatePage(s, a)
  BY Zenon, HeldIs
<1>2. n > 0
  OBVIOUS
<1>3. /\ p.remaining \in Nat /\ p.active \in Nat /\ p.concurrency \in Nat
      /\ p.ok \in Nat /\ p.failed \in Nat
  BY Zenon, <1>1 DEF Phase
<1>4. n \in Nat /\ n <= p.remaining /\ n <= p.concurrency - p.active
  <2> HIDE DEF p
  <2>1. p.concurrency - p.active \in Int
    BY <1>3
  <2> QED  BY <1>2, <1>3, <2>1 DEF Starts, p
<1>5. /\ t.slots = s.slots /\ t.len = s.len /\ t.at = "dialing"
      /\ t.phase = [p EXCEPT !.remaining = @ - n, !.active = @ + n]
  BY Zenon, <1>1 DEF DriveDial, WorkerState
<1> HIDE DEF n, t
<1>6. /\ q.kind = "Dial" /\ q.remaining = p.remaining - n /\ q.active = p.active + n
      /\ q.concurrency = p.concurrency /\ q.ok = p.ok /\ q.failed = p.failed
      /\ q.answered = p.answered /\ q.recv_times = p.recv_times
  BY Zenon, <1>1, <1>5 DEF Phase
<1>7. ~Redialing(t)
  BY <1>5, <1>6 DEF Redialing
<1>9. BenchPage(t, a.bench)
  BY Zenon, <1>1, <1>6, <1>7, "Dial" # "Echo", "Dial" # "Rate" DEF BenchPage
<1>10. DialPage(t, a.share)
  <2>1. Made(t) = Made(s)
    BY Zenon, <1>5 DEF Made, InState
  <2>2. /\ p.active + n <= p.concurrency
        /\ (p.remaining - n) + (p.active + n) + p.ok + p.failed
             = p.remaining + p.active + p.ok + p.failed
    <3> HIDE DEF p
    <3> QED  BY <1>3, <1>4, StartSum
  <2> QED  BY Zenon, <1>1, <1>5, <1>6, <2>1, <2>2 DEF DialPage
<1>11. EchoPage(t, a)
  BY Zenon, <1>6, "Dial" # "Echo" DEF EchoPage
<1>12. RatePage(t, a)
  <2>1. q.recv_times <= q.answered
    BY Zenon, <1>6, <1>1 DEF RatePage
  <2> QED  BY Zenon, <1>5, <1>6, <1>7, <1>1, <2>1, "Dial" # "Rate", SameRate
<1>13. ~Rests(s) /\ a.bench \notin {"Warmup", "Echo"}
  <2>1. a.bench = "Dial"
    BY Zenon, <1>1 DEF BenchPage
  <2> QED  BY <2>1 DEF Rests
<1>14. DialsVacant(s, t)
  BY Zenon, <1>5, SameVacant
<1>15. Kept(s, t, a)
  BY Zenon, <1>9, <1>10, <1>11, <1>12, <1>13, <1>14, WorksKept
<1> QED  BY Zenon, <1>15 DEF t

(* start, Rate: the redials are dialed, and RatePrep begins. *)
LEMMA RedialsDialedKept ==
  ASSUME NEW s, NEW a, Held(s, a), s.at = "redialing"
  PROVE  Kept(s, EndRedials(s), a)
<1> DEFINE t == EndRedials(s)
<1>1. /\ s \in WorkerState
      /\ BenchPage(s, a.bench) /\ DialPage(s, a.share) /\ EchoPage(s, a) /\ RatePage(s, a)
  BY Zenon, HeldIs
<1>3. /\ t.slots = s.slots /\ t.len = s.len /\ t.phase.kind = "RatePrep"
      /\ t.phase.recv_times <= t.phase.answered
  <2>1. /\ t.slots = s.slots /\ t.len = s.len
        /\ t.phase = [Idle EXCEPT !.kind = "RatePrep", !.redials = s.broken]
    BY Zenon, <1>1 DEF EndRedials, WorkerState
  <2>2. /\ [Idle EXCEPT !.kind = "RatePrep", !.redials = s.broken].kind = "RatePrep"
        /\ [Idle EXCEPT !.kind = "RatePrep", !.redials = s.broken].recv_times = 0
        /\ [Idle EXCEPT !.kind = "RatePrep", !.redials = s.broken].answered = 0
    BY Zenon DEF Idle
  <2>3. 0 <= 0
    OBVIOUS
  <2> QED  BY Zenon, <2>1, <2>2, <2>3
<1> HIDE DEF t
<1>4. a.bench = "Rate" /\ Redialing(s)
  BY Zenon, <1>1 DEF BenchPage, Redialing
<1>5. BenchPage(t, a.bench)
  BY <1>3, <1>4 DEF BenchPage
<1>6. DialPage(t, a.share) /\ EchoPage(t, a)
  BY Zenon, <1>1, <1>3, "RatePrep" # "Dial", "RatePrep" # "Echo" DEF DialPage, EchoPage
<1>7. RatePage(t, a)
  BY Zenon, <1>1, <1>3, <1>4, "RatePrep" # "Rate", SameRate
<1>8. ~Rests(s) /\ a.bench \notin {"Warmup", "Echo"}
  BY <1>4 DEF Rests
<1>9. DialsVacant(s, t)
  BY Zenon, <1>3, SameVacant
<1>10. Kept(s, t, a)
  BY Zenon, <1>5, <1>6, <1>7, <1>8, <1>9, WorksKept
<1> QED  BY Zenon, <1>10 DEF t

(* Nothing open is a total of zero. *)
LEMMA TotalZero ==
  ASSUME SetFacts, NEW n \in Nat, NEW f, \A i \in 1..n : f[i] = 0
  PROVE  Total(f, n) = 0
<1>1. \A i \in 1..n : 1..f[i] = {}
  OBVIOUS
<1>2. UNION {{i} \X (1..f[i]) : i \in 1..n} = {}
  BY <1>1
<1> QED  BY Zenon, <1>2 DEF Total, SetFacts, CountEmpty

(* drive, RatePrep: the measured run begins. *)
LEMMA RateBeginKept ==
  ASSUME SetFacts, NEW s, NEW a, Held(s, a), s.at = "poll", s.phase.kind = "RatePrep"
  PROVE  Kept(s, StartRateRun(s), a)
<1> DEFINE t == StartRateRun(s)
<1>1. /\ s \in WorkerState /\ s.slots \in [Slots -> Conn] /\ a.most \in Nat
      /\ BenchPage(s, a.bench) /\ DialPage(s, a.share) /\ EchoPage(s, a) /\ RatePage(s, a)
  BY Zenon, HeldIs
<1>3. /\ t.slots = [i \in Slots |-> IF i \in InState(s, "ready")
                                    THEN [s.slots[i] EXCEPT !.in_flight = 0] ELSE s.slots[i]]
      /\ t.len = s.len /\ t.at = s.at
      /\ t.phase = [Idle EXCEPT !.kind = "Rate", !.conns = InState(s, "ready")]
  BY Zenon, <1>1 DEF StartRateRun, WorkerState
<1> HIDE DEF t
<1>4. /\ t.phase.kind = "Rate" /\ t.phase.recv_times = 0 /\ t.phase.answered = 0
      /\ t.phase.send_times = 0
  BY <1>3 DEF Idle
<1>5. a.bench = "Rate" /\ Redialing(s) /\ RatePage(s, a) /\ NoneOpen(s)
  BY Zenon, <1>1 DEF BenchPage, Redialing, RatePage
<1>6. ASSUME NEW i \in Slots
      PROVE  t.slots[i].in_flight = 0 /\ t.slots[i].streams["Rate"] = 0
  <2>1. s.slots[i].in_flight = 0 /\ s.slots[i].streams["Rate"] = 0 /\ s.slots[i] \in Conn
    BY Zenon, <1>1, <1>5 DEF NoneOpen, RatePage
  <2>2. t.slots[i] \in {s.slots[i], [s.slots[i] EXCEPT !.in_flight = 0]}
    BY Zenon, <1>3
  <2> QED  BY Zenon, <2>1, <2>2 DEF Conn
<1>7. BenchPage(t, a.bench) /\ ~Redialing(t)
  BY <1>3, <1>4, <1>5 DEF BenchPage, Redialing
<1>8. DialPage(t, a.share) /\ EchoPage(t, a)
  BY Zenon, <1>1, <1>3, <1>4, "Rate" # "Dial", "Rate" # "Echo" DEF DialPage, EchoPage
<1>9. RatePage(t, a)
  <2>1. InFlight(t) = 0
    <3> DEFINE f == [i \in Slots |-> t.slots[i].in_flight]
    <3>1. \A i \in 1..MaxSlots : f[i] = 0
      BY Zenon, <1>6 DEF Slots
    <3>2. MaxSlots \in Nat
      BY WorkerAssumption
    <3> HIDE DEF f
    <3>3. Total(f, MaxSlots) = 0
      BY Zenon, <3>1, <3>2, TotalZero
    <3> QED  BY Zenon, <3>3 DEF f, InFlight
  <2>3. 0 <= a.most /\ 0 <= 0 /\ 0 + 0 <= 0
    <3>1. PICK m \in Nat : m = a.most
      BY Zenon, <1>1
    <3> QED  BY <3>1
  <2>4. a.bench \notin {"Dial", "Warmup", "Echo"}
    BY <1>5
  <2> QED  BY Zenon, <1>4, <1>6, <1>7, <2>1, <2>3, <2>4 DEF RatePage
<1>10. ~Rests(s) /\ a.bench \notin {"Warmup", "Echo"}
  BY <1>5 DEF Rests
<1>11. DialsVacant(s, t)
  <2>1. ASSUME NEW i \in Slots
        PROVE  t.slots[i].state = s.slots[i].state /\ t.slots[i].dial = s.slots[i].dial
    <3>1. t.slots[i] \in {s.slots[i], [s.slots[i] EXCEPT !.in_flight = 0]} /\ s.slots[i] \in Conn
      BY Zenon, <1>1, <1>3
    <3> QED  BY Zenon, <3>1 DEF Conn
  <2> QED  BY Zenon, <2>1, SameVacant
<1>12. Kept(s, t, a)
  BY Zenon, <1>7, <1>8, <1>9, <1>10, <1>11, WorksKept
<1> QED  BY Zenon, <1>12 DEF t

(* drive: the next part of a benchmark. *)
LEMMA TurnKept ==
  ASSUME SetFacts, NEW s, NEW a, Held(s, a), NEW t, TurnStep(s, t)
  PROVE  Kept(s, t, a)
<1>1. /\ s \in WorkerState
      /\ s.at = "echoing" => s.phase.kind = "Echo"
      /\ s.at = "ticking" => s.phase.kind = "Rate"
  BY Zenon, HeldIs DEF WorkerInv, Inv, ControlInv
<1>2. "Echo" # "Idle" /\ "Rate" # "Idle"
  OBVIOUS
<1>3. CASE s.at = "poll" /\ s.phase.kind = "Dial" /\ Starts(s) > 0 /\ t = DriveDial(s)
  BY Zenon, <1>3, StartDialsKept
<1>4. CASE s.at = "redialing" /\ t = EndRedials(s)
  BY Zenon, <1>4, RedialsDialedKept
<1>5. CASE s.at = "poll" /\ s.phase.kind = "RatePrep" /\ t = StartRateRun(s)
  BY Zenon, <1>5, RateBeginKept
<1>6. CASE s.at \in {"echoing", "ticking"} /\ t = [s EXCEPT !.at = "poll"]
  <2>1. Loops(s, t) /\ s.phase.kind # "Idle"
    BY Zenon, <1>1, <1>2, <1>6, LoopsOn
  <2> QED  BY Zenon, <2>1, LoopKept
<1>7. CASE /\ s.phase.kind = "Rate"
           /\ t = [s EXCEPT !.at = "ticking", !.todo = s.phase.conns, !.phase.ticks = @ + 1]
  <2>1. Loops(s, t)
    BY Zenon, <1>1, <1>7, LoopsOn
  <2> QED  BY Zenon, <1>2, <1>7, <2>1, LoopKept
<1>8. CASE s.at = "poll" /\ s.phase.kind = "Rate" /\ t = [s EXCEPT !.phase.grace = TRUE]
  <2>1. Loops(s, t)
    BY Zenon, <1>1, <1>8, LoopsOn
  <2> QED  BY Zenon, <1>2, <1>8, <2>1, LoopKept
<1> QED  BY Zenon, <1>3, <1>4, <1>5, <1>6, <1>7, <1>8 DEF TurnStep

(* rate_tick: a connection and its batch. *)
Batched(c, d, n) ==
  /\ d.in_flight = c.in_flight + n /\ d.streams["Rate"] = c.streams["Rate"] + n
  /\ d.state = c.state

(* A batch on one connection counts its requests as open and as sent. *)
LEMMA TickConnIs ==
  ASSUME NEW s \in WorkerState, NEW todo, NEW i \in Slots, NEW n \in Nat, NEW r
  PROVE  LET u == TickConn([s EXCEPT !.todo = todo], i, n, r)
         IN  /\ u.len = s.len /\ u.at = s.at /\ u.phase = [s.phase EXCEPT !.send_times = @ + n]
             /\ \A k \in Slots : k # i => u.slots[k] = s.slots[k]
             /\ Batched(s.slots[i], u.slots[i], n)
<1> DEFINE c == s.slots[i]
           d == [c EXCEPT !.streams["Rate"] = @ + n, !.in_flight = @ + n]
           t == [s EXCEPT !.todo = todo]
           v == [t EXCEPT !.slots[i].streams["Rate"] = @ + n, !.slots[i].in_flight = @ + n,
                          !.phase.send_times = @ + n]
           u == TickConn(t, i, n, r)
<1>1. s.slots \in [Slots -> Conn] /\ c \in Conn
  BY Zenon DEF WorkerState
<1>2. /\ v.slots = [s.slots EXCEPT ![i] = d] /\ v.len = s.len /\ v.at = s.at
      /\ v.phase = [s.phase EXCEPT !.send_times = @ + n] /\ DOMAIN v = DOMAIN s
  BY Zenon, <1>1 DEF WorkerState
<1>3. Batched(c, d, n) /\ Batched(c, [d EXCEPT !.closing = TRUE], n)
  BY <1>1 DEF Batched, Conn, Kinds
<1>4. u = v \/ u = [v EXCEPT !.slots[i].closing = TRUE]
  BY Zenon DEF TickConn, TrySend
<1> HIDE DEF u, v, d
<1>8. PICK e : e \in {d, [d EXCEPT !.closing = TRUE]} /\ u.slots = [s.slots EXCEPT ![i] = e]
  <2>1. CASE u = v
    BY Zenon, <1>2, <2>1
  <2>2. CASE u = [v EXCEPT !.slots[i].closing = TRUE]
    <3>1. u.slots = [v.slots EXCEPT ![i] = [v.slots[i] EXCEPT !.closing = TRUE]]
      BY Zenon, <1>2, <2>2 DEF WorkerState
    <3>2. v.slots[i] = d
      BY Zenon, <1>1, <1>2
    <3>3. u.slots = [s.slots EXCEPT ![i] = [d EXCEPT !.closing = TRUE]]
      BY Zenon, <1>1, <1>2, <3>1, <3>2
    <3> QED  BY Zenon, <3>3
  <2> QED  BY Zenon, <1>4, <2>1, <2>2
<1>5. \A k \in Slots : k # i => u.slots[k] = s.slots[k]
  BY Zenon, <1>1, <1>8
<1>6. u.slots[i] = d \/ u.slots[i] = [d EXCEPT !.closing = TRUE]
  BY Zenon, <1>1, <1>8
<1>7. u.len = s.len /\ u.at = s.at /\ u.phase = [s.phase EXCEPT !.send_times = @ + n]
  BY Zenon, <1>2, <1>4 DEF WorkerState
<1> QED  BY Zenon, <1>3, <1>5, <1>6, <1>7 DEF u, t

(* Sums of naturals. *)
LEMMA NatPlus == \A x, y \in Nat : x + y \in Nat
OBVIOUS

(* rate_tick: the next connection, with a batch. *)
LEMMA TickBatchKept ==
  ASSUME SetFacts, NEW s, NEW a, Held(s, a), s.at = "ticking", NEW i \in s.todo,
         NEW n \in Nat, NEW r,
         s.slots[i].state = "ready", s.slots[i].in_flight + n <= a.most
  PROVE  Kept(s, TickConn([s EXCEPT !.todo = @ \ {i}], i, n, r), a)
<1> DEFINE p == s.phase
           u == TickConn([s EXCEPT !.todo = s.todo \ {i}], i, n, r)
           q == u.phase
<1>1. /\ s \in WorkerState /\ p \in Phase /\ Fit(s) /\ WorkerInv(s) /\ a.most \in Nat
      /\ BenchPage(s, a.bench) /\ DialPage(s, a.share) /\ RatePage(s, a)
  BY Zenon, HeldIs
<1>3. i \in Slots
  BY Zenon, <1>1 DEF WorkerState
<1>4. /\ u.len = s.len /\ u.at = s.at /\ q = [p EXCEPT !.send_times = @ + n]
      /\ \A k \in Slots : k # i => u.slots[k] = s.slots[k]
      /\ Batched(s.slots[i], u.slots[i], n)
  BY Zenon, <1>1, <1>3, TickConnIs
<1>5. TickConn([s EXCEPT !.todo = @ \ {i}], i, n, r) = u
  BY Zenon
<1> HIDE DEF u
<1>6. p.kind = "Rate"
  BY Zenon, <1>1 DEF WorkerInv, Inv, ControlInv
<1>7. /\ q.kind = "Rate" /\ q.send_times = p.send_times + n /\ q.answered = p.answered
      /\ q.recv_times = p.recv_times
  BY Zenon, <1>1, <1>4, <1>6 DEF Phase
<1>8. a.bench = "Rate" /\ RatePage(s, a)
  BY Zenon, <1>1, <1>6 DEF BenchPage
<1>9. ~Redialing(u)
  BY <1>4, <1>7 DEF Redialing
<1>10. BenchPage(u, a.bench) /\ DialPage(u, a.share)
       /\ EchoPage(u, a)
  <2>1. s.len <= a.share
    BY Zenon, <1>1 DEF DialPage
  <2> QED  BY Zenon, <1>4, <1>7, <1>8, <1>9, <2>1, "Rate" # "Dial", "Rate" # "Echo"
           DEF BenchPage, DialPage, EchoPage
<1>11. ASSUME NEW k \in Slots
       PROVE  /\ u.slots[k].in_flight = u.slots[k].streams["Rate"]
              /\ u.slots[k].in_flight <= a.most
              /\ u.slots[k].in_flight \in Nat
              /\ u.slots[k].in_flight = IF k = i THEN s.slots[i].in_flight + n
                                        ELSE s.slots[k].in_flight
  <2>1. /\ s.slots[k].in_flight = s.slots[k].streams["Rate"]
        /\ s.slots[k].in_flight <= a.most
    BY Zenon, <1>8 DEF RatePage
  <2>2. s.slots[k].in_flight \in Nat
    BY Zenon, <1>1, FitCounts
  <2>3. CASE k # i
    BY Zenon, <1>4, <2>1, <2>2, <2>3
  <2>4. CASE k = i
    <3>1. /\ u.slots[i].in_flight = s.slots[i].in_flight + n
          /\ u.slots[i].streams["Rate"] = s.slots[i].streams["Rate"] + n
      BY Zenon, <1>4 DEF Batched
    <3>3. PICK x \in Nat : x = s.slots[i].in_flight
      BY Zenon, <2>2, <2>4
    <3>4. x + n \in Nat /\ x + n <= a.most
      BY Zenon, <3>3, NatPlus
    <3> QED  BY Zenon, <2>1, <2>4, <3>1, <3>3, <3>4
  <2> QED  BY Zenon, <2>3, <2>4
<1>12. InFlight(u) <= InFlight(s) + n /\ InFlight(u) \in Nat /\ InFlight(s) \in Nat
  <2> DEFINE f == [k \in Slots |-> s.slots[k].in_flight]
             g == [k \in Slots |-> u.slots[k].in_flight]
  <2>1. f \in [1..MaxSlots -> Nat] /\ g \in [1..MaxSlots -> Nat] /\ i \in 1..MaxSlots
    BY Zenon, <1>1, <1>3, <1>11, FitCounts DEF Slots
  <2>2. g[i] = f[i] + n /\ \A k \in 1..MaxSlots : k # i => g[k] = f[k]
    BY Zenon, <1>3, <1>11 DEF Slots
  <2>3. MaxSlots \in Nat
    BY WorkerAssumption
  <2>4. InFlight(s) = Total(f, MaxSlots) /\ InFlight(u) = Total(g, MaxSlots)
    BY Zenon DEF InFlight
  <2> HIDE DEF f, g
  <2>5. Total(g, MaxSlots) <= Total(f, MaxSlots) + n
    BY Zenon, <2>1, <2>2, <2>3, TotalPlus
  <2>6. Total(g, MaxSlots) \in Nat /\ Total(f, MaxSlots) \in Nat
    BY Zenon, <2>1, <2>3, UnitsFinite
  <2> QED  BY Zenon, <2>4, <2>5, <2>6
<1>13. RatePage(u, a)
  <2>1. p.answered + InFlight(s) <= p.send_times /\ p.recv_times <= p.answered
    BY Zenon, <1>6, <1>8 DEF RatePage
  <2>2. p.answered \in Nat /\ p.send_times \in Nat
    BY Zenon, <1>1 DEF Phase
  <2> HIDE DEF p, q
  <2>3. q.answered + InFlight(u) <= q.send_times
    BY <1>7, <1>12, <2>1, <2>2
  <2>4. a.bench \notin {"Dial", "Warmup", "Echo"}
    BY <1>8
  <2> QED  BY Zenon, <1>7, <1>9, <1>11, <2>1, <2>3, <2>4 DEF RatePage, q
<1>14. ~Rests(s) /\ a.bench \notin {"Warmup", "Echo"}
  BY <1>8 DEF Rests
<1>15. DialsVacant(s, u)
  <2>1. u.slots[i].state = "ready"
    BY Zenon, <1>4 DEF Batched
  <2> QED  BY Zenon, <1>4, <2>1, "ready" # "connecting" DEF DialsVacant, NoNewDial
<1>16. Kept(s, u, a)
  BY Zenon, <1>10, <1>13, <1>14, <1>15, WorksKept
<1> QED  BY Zenon, <1>5, <1>16

(* rate_tick: the next connection, with or without a batch. *)
LEMMA TickKept ==
  ASSUME SetFacts, NEW s, NEW a, Held(s, a), NEW t, TickStep(s, t, a.most)
  PROVE  Kept(s, t, a)
<1>1. /\ s \in WorkerState /\ s.at = "ticking" /\ s.phase.kind = "Rate"
  BY Zenon, HeldIs DEF TickStep, WorkerInv, Inv, ControlInv
<1>2. PICK i \in s.todo :
        \/ t = [s EXCEPT !.todo = @ \ {i}]
        \/ \E n \in Nat, r \in SentAs :
             /\ s.slots[i].state = "ready" /\ s.slots[i].in_flight + n <= a.most
             /\ t = TickConn([s EXCEPT !.todo = @ \ {i}], i, n, r)
  BY Zenon DEF TickStep
<1>3. CASE t = [s EXCEPT !.todo = @ \ {i}]
  <2>1. Loops(s, t)
    BY Zenon, <1>1, <1>3, LoopsOn
  <2> QED  BY Zenon, <1>1, <2>1, "Rate" # "Idle", LoopKept
<1>4. CASE \E n \in Nat, r \in SentAs :
             /\ s.slots[i].state = "ready" /\ s.slots[i].in_flight + n <= a.most
             /\ t = TickConn([s EXCEPT !.todo = @ \ {i}], i, n, r)
  <2>1. PICK n \in Nat, r \in SentAs :
          /\ s.slots[i].state = "ready" /\ s.slots[i].in_flight + n <= a.most
          /\ t = TickConn([s EXCEPT !.todo = @ \ {i}], i, n, r)
    BY Zenon, <1>4
  <2>2. Kept(s, TickConn([s EXCEPT !.todo = @ \ {i}], i, n, r), a)
    BY Zenon, <1>1, <2>1, TickBatchKept
  <2> QED  BY Zenon, <2>1, <2>2
<1> QED  BY Zenon, <1>2, <1>3, <1>4

(* Every step of a worker by itself keeps its page. *)
LEMMA HandlesKept ==
  ASSUME SetFacts
  PROVE PageHandles
<1> SUFFICES ASSUME NEW s, NEW t, NEW a, Held(s, a), Handles(s, t, a.most)  PROVE  Kept(s, t, a)
  BY Zenon DEF PageHandles
<1> QED  BY Zenon, NetKept, DialStepKept, TurnKept, TickKept DEF Handles

-----------------------------------------------------------------------------
(* drive_echo, which draws from the shared counter. *)

(* The account after a draw differs in what was drawn, and in the job. *)
Drew(a, e) ==
  /\ SameTerms(a, e) /\ Cardinality(a.drawn) \in Nat
  /\ Cardinality(e.drawn) = Cardinality(a.drawn) + 1
  /\ a.job.issued >= a.job.times => e.job.issued >= e.job.times

(* The number drawn is a round trip in flight. *)
LEMMA TakePage ==
  ASSUME NEW s, NEW a, Held(s, a), NEW e, Drew(a, e), Ready(s)
  PROVE  LET t == EchoTake(s)
         IN  /\ t \in WorkerState /\ Fit(t) /\ Page(t, e)
             /\ t.slots = s.slots /\ t.phase.kind = "Echo" /\ t.at = "echoing"
<1> DEFINE t == EchoTake(s)
           p == s.phase
           q == t.phase
<1>0. /\ s \in WorkerState /\ Fit(s) /\ s.phase.kind = "Echo" /\ s.phase.idle # <<>>
      /\ s.at \in {"poll", "echoing"} /\ p \in Phase
      /\ BenchPage(s, a.bench) /\ DialPage(s, a.share) /\ EchoPage(s, a) /\ RatePage(s, a)
  BY Zenon, HeldIs DEF Ready
<1>20. /\ e.bench = a.bench /\ e.share = a.share /\ e.conc = a.conc /\ e.most = a.most
       /\ Cardinality(e.drawn) = Cardinality(a.drawn) + 1
       /\ a.job.issued >= a.job.times => e.job.issued >= e.job.times
  BY Zenon DEF Drew, SameTerms
<1>1. p \in Phase /\ p.idle \in Seq(Slots) /\ p.in_flight \in Nat
  BY Zenon, <1>0 DEF Phase
<1>2. Tail(p.idle) \in Seq(Slots) /\ p.in_flight + 1 \in Nat
  BY <1>0, <1>1
<1>3. /\ t.slots = s.slots /\ t.len = s.len /\ t.at = "echoing" /\ DOMAIN t = DOMAIN s
      /\ q = [p EXCEPT !.idle = Tail(@), !.in_flight = @ + 1]
  BY Zenon, <1>0 DEF EchoTake, WorkerState
<1>21. \A x \in Seq(Slots), y \in Nat : [p EXCEPT !.idle = x, !.in_flight = y] \in Phase
  BY Zenon, <1>1 DEF Phase
<1> HIDE DEF t
<1>4. q \in Phase
  <2> HIDE DEF p
  <2>1. [p EXCEPT !.idle = Tail(p.idle), !.in_flight = p.in_flight + 1] \in Phase
    BY Zenon, <1>21, <1>2
  <2> QED  BY Zenon, <1>3, <2>1
<1>5. t \in WorkerState
  <2>1. t = [s EXCEPT !.at = "echoing", !.phase = q]
    BY Zenon, <1>0, <1>3 DEF EchoTake, WorkerState, t
  <2> HIDE DEF q
  <2> QED  BY Zenon, <1>0, <1>4, <2>1 DEF WorkerState
<1>6. /\ q.kind = "Echo" /\ q.measure = p.measure /\ q.slots = p.slots /\ q.ok = p.ok
      /\ q.failed = p.failed /\ q.in_flight = p.in_flight + 1 /\ q.answered = p.answered
      /\ q.recv_times = p.recv_times /\ q.exhausted = p.exhausted /\ q.active = p.active
      /\ DOMAIN q = DOMAIN p
  BY Zenon, <1>0, <1>1, <1>3 DEF Phase
<1>7. ~Redialing(t) /\ ~Redialing(s)
  BY <1>0, <1>3, <1>6 DEF Redialing
<1>8. Fit(t)
  <2>1. q.in_flight \in Int
    BY <1>1, <1>6
  <2>2. Formed(t)
    BY Zenon, <1>0, <1>3, <1>6, <2>1 DEF Fit, Formed
  <2> QED  BY Zenon, <1>0, <1>3, <1>6, <2>2 DEF Fit
<1>9. EchoPage(t, e)
  <2>1. /\ p.measure => Cardinality(a.drawn) = p.in_flight + p.ok + p.failed
        /\ Staffed(s, a.conc) => p.slots > 0 /\ (p.exhausted => a.job.issued >= a.job.times)
    BY Zenon, <1>0 DEF EchoPage
  <2>2. p.ok \in Nat /\ p.failed \in Nat
    BY Zenon, <1>1 DEF Phase
  <2>3. Staffed(t, e.conc) <=> Staffed(s, a.conc)
    <3>1. t.slots = s.slots
      BY Zenon, <1>3
    <3>2. Occupied(t) = Occupied(s)
      BY Zenon, <3>1 DEF Occupied, InState
    <3> QED  BY Zenon, <1>20, <3>2 DEF Staffed
  <2>4. ASSUME p.measure  PROVE  Cardinality(e.drawn) = q.in_flight + q.ok + q.failed
    <3>1. Cardinality(a.drawn) = p.in_flight + p.ok + p.failed
      BY Zenon, <2>1, <2>4
    <3>2. Cardinality(e.drawn) = (p.in_flight + 1) + p.ok + p.failed
      <4>1. PICK x \in Nat, y \in Nat, z \in Nat :
              x = p.in_flight /\ y = p.ok /\ z = p.failed
        BY Zenon, <1>1, <2>2
      <4>2. Cardinality(a.drawn) = x + y + z
        BY Zenon, <3>1, <4>1
      <4>3. Cardinality(e.drawn) = (x + 1) + y + z
        BY <1>20, <4>2
      <4> QED  BY Zenon, <4>1, <4>3
    <3> QED  BY Zenon, <1>6, <3>2
  <2> QED  BY Zenon, <1>6, <1>20, <2>1, <2>3, <2>4 DEF EchoPage
<1>10. BenchPage(t, a.bench)
  BY Zenon, <1>0, <1>6, <1>7, "Echo" # "Dial", "Echo" # "Rate" DEF BenchPage
<1>11. DialPage(t, a.share)
  BY Zenon, <1>0, <1>3, <1>6, "Echo" # "Dial" DEF DialPage
<1>12. RatePage(t, a)
  <2>1. RatePage(s, a) /\ p.recv_times <= p.answered
    BY Zenon, <1>0 DEF RatePage
  <2>2. t.slots = s.slots /\ q.kind # "Rate" /\ q.recv_times <= q.answered
    BY Zenon, <1>3, <1>6, <2>1, "Echo" # "Rate"
  <2> QED  BY Zenon, <1>7, <2>1, <2>2, SameRate
<1>13. Page(t, e)
  <2>1. RatePage(t, e)
    BY Zenon, <1>12, <1>20 DEF RatePage
  <2> QED  BY Zenon, <1>9, <1>10, <1>11, <1>20, <2>1 DEF Page
<1> QED  BY Zenon, <1>3, <1>5, <1>6, <1>8, <1>13 DEF t

(* What is issued is a dial or a request on a connection there is. *)
LEMMA IssueGoes ==
  ASSUME SetFacts, NEW s, WorkerInv(s), s.phase.kind = "Echo", s.phase.idle # <<>>,
         Fit(EchoTake(s)),
         NEW rd \in {"ok", "bind", "send"}, NEW rs,
         EchoTake(s).slots = s.slots, EchoTake(s).phase.kind = "Echo"
  PROVE  LET t == EchoIssue(s, rd, rs)
         IN  Goes(EchoTake(s), t) /\ t.at = EchoTake(s).at
<1> DEFINE i == Head(s.phase.idle)
           u == EchoTake(s)
           j == FirstDial("RedialEcho", i)
<1>1. s \in WorkerState /\ EchoInv(s, {})
  BY Zenon DEF WorkerInv, Inv
<1>2. s.phase.idle \in Seq(Slots)
  BY Zenon, <1>1 DEF WorkerState, Phase
<1>3. i \in Slots /\ i \in Range(s.phase.idle)
  BY <1>2 DEF Range
<1>4. s.slots[i].state # "vacant"
  BY Zenon, <1>1, <1>3 DEF EchoInv
<1>5. CASE s.slots[i].state = "broken"
  <2>1. j \in Job /\ j.purpose # "New" /\ j.slot = i
    <3> HIDE DEF i
    <3> QED  BY <1>3, WorkerAssumption DEF FirstDial, Job, Purposes, Slots
  <2>2. EchoIssue(s, rd, rs) = Dial(u, j, rd)
    BY <1>5 DEF EchoIssue
  <2>4. Fit(u) /\ u.phase.kind = "Echo" /\ u.slots = s.slots
    BY Zenon
  <2> HIDE DEF u, j, i
  <2>3. MayDial(u, j)
    BY Zenon, <1>3, <1>5, <2>1, <2>4, "Echo" # "Dial" DEF MayDial
  <2>5. Goes(u, Dial(u, j, rd)) /\ Dial(u, j, rd).at = u.at
    BY Zenon, <2>3, <2>4, DialGoes
  <2> QED  BY Zenon, <2>2, <2>5 DEF u
<1>6. CASE s.slots[i].state # "broken"
  <2>1. EchoIssue(s, rd, rs) = SendEcho(u, i, rs)
    BY Zenon, <1>4, <1>6 DEF EchoIssue
  <2> HIDE DEF u, i
  <2>2. Moves(u, SendEcho(u, i, rs))
    BY Zenon, <1>3, SendEchoMoves DEF u
  <2> QED  BY Zenon, <2>1, <2>2, MovesGoes DEF Moves, u
<1> QED  BY Zenon, <1>5, <1>6

(* drive_echo issues a round trip. *)
LEMMA IssuesKept ==
  ASSUME SetFacts
  PROVE PageIssues
<1> SUFFICES ASSUME NEW s, NEW t, NEW a, NEW e, Held(s, a), Issues(s, t), Drew(a, e)
             PROVE  Page(t, e) /\ Orderly(s, t, a.bench) /\ t.phase.kind = "Echo"
  BY Zenon DEF PageIssues, Drew
<1> DEFINE u == EchoTake(s)
<1>1. /\ WorkerInv(s) /\ s.phase.kind = "Echo" /\ s.phase.idle # <<>> /\ Ready(s)
      /\ DialPage(s, a.share) /\ a.share \in Nat /\ a.most \in Nat
  BY Zenon, HeldIs DEF Issues, Ready
<1>2. PICK rd \in DialedAs, rs \in SentAs : t = EchoIssue(s, rd, rs)
  BY Zenon DEF Issues
<1>3. /\ u \in WorkerState /\ Fit(u) /\ Page(u, e)
      /\ u.slots = s.slots /\ u.phase.kind = "Echo" /\ u.at = "echoing"
  BY Zenon, <1>1, TakePage
<1>4. rd \in {"ok", "bind", "send"}
  BY Zenon DEF DialedAs
<1>5. Goes(u, t) /\ t.at = u.at
  BY Zenon, <1>1, <1>2, <1>3, <1>4, IssueGoes
<1> HIDE DEF u
<1>6. t.phase.kind = "Echo" /\ Seated(u, t)
  BY Zenon, <1>3, <1>5 DEF Goes, Balanced
<1>7. (Redialing(t) <=> Redialing(u)) /\ t.len <= e.share
  <2>1. Redialing(t) <=> Redialing(u)
    BY Zenon, <1>3, <1>5, <1>6 DEF Redialing
  <2>2. t.len = u.len /\ u.len <= e.share
    BY Zenon, <1>3, <1>5, "Echo" # "Dial" DEF Goes, Page, DialPage
  <2> QED  BY Zenon, <2>1, <2>2
<1>8. Page(t, e)
  <2>1. e.share \in Nat /\ e.most \in Nat
    BY Zenon, <1>1 DEF Drew, SameTerms
  <2> QED  BY Zenon, <1>3, <1>5, <1>7, <2>1, PageMoves
<1>9. Orderly(s, t, a.bench)
  <2>1. Occupied(t) = Occupied(u)
    BY Zenon, <1>3, <1>6, "Echo" # "Dial" DEF Seated
  <2>2. Occupied(u) = Occupied(s)
    BY Zenon, <1>3 DEF Occupied, InState
  <2>3. DialsVacant(s, t)
    BY Zenon, <1>3, <1>5 DEF Goes, DialsVacant
  <2> QED  BY Zenon, <2>1, <2>2, <2>3 DEF Orderly
<1> QED  BY Zenon, <1>6, <1>8, <1>9

(* The worker meets the end of the job. *)
LEMMA ExhaustsKept == PageExhausts
<1> SUFFICES ASSUME NEW s, NEW t, NEW a, NEW e, Held(s, a), Exhausts(s, t), SameTerms(a, e),
                    e.drawn = a.drawn, e.job.issued >= e.job.times
             PROVE  Page(t, e) /\ Orderly(s, t, a.bench) /\ t.phase.kind = "Echo"
  BY Zenon DEF PageExhausts
<1> DEFINE p == s.phase
           q == t.phase
<1>1. /\ s \in WorkerState /\ p \in Phase
      /\ BenchPage(s, a.bench) /\ DialPage(s, a.share) /\ EchoPage(s, a) /\ RatePage(s, a)
  BY Zenon, HeldIs
<1>2. /\ p.kind = "Echo" /\ s.at \in {"poll", "echoing"}
      /\ t = [s EXCEPT !.phase.exhausted = TRUE, !.at = "echoing"]
  BY Zenon DEF Exhausts, Ready
<1>3. e.bench = a.bench /\ e.share = a.share /\ e.conc = a.conc /\ e.most = a.most
  BY Zenon DEF SameTerms
<1>4. /\ t.slots = s.slots /\ t.len = s.len /\ t.at = "echoing"
      /\ t.phase = [p EXCEPT !.exhausted = TRUE]
  BY Zenon, <1>1, <1>2 DEF WorkerState
<1>5. /\ q.kind = "Echo" /\ q.measure = p.measure /\ q.slots = p.slots /\ q.ok = p.ok
      /\ q.failed = p.failed /\ q.in_flight = p.in_flight /\ q.answered = p.answered
      /\ q.recv_times = p.recv_times
  <2>1. p.kind = "Echo" /\ q = [p EXCEPT !.exhausted = TRUE]
    BY Zenon, <1>2, <1>4
  <2> HIDE DEF q
  <2> QED  BY Zenon, <1>1, <2>1 DEF Phase
<1>7. ~Redialing(t) /\ ~Redialing(s)
  BY <1>2, <1>4, <1>5 DEF Redialing
<1>8. Occupied(t) = Occupied(s)
  BY Zenon, <1>4 DEF Occupied, InState
<1>9. BenchPage(t, e.bench)
  BY Zenon, <1>1, <1>2, <1>3, <1>5, <1>7, "Echo" # "Dial", "Echo" # "Rate" DEF BenchPage
<1>13. DialPage(t, e.share)
  BY Zenon, <1>1, <1>3, <1>4, <1>5, "Echo" # "Dial" DEF DialPage
<1>10. EchoPage(t, e)
  BY Zenon, <1>1, <1>2, <1>3, <1>5, <1>8 DEF EchoPage, Staffed
<1>11. RatePage(t, e)
  <2>1. RatePage(t, a)
    <3>1. q.recv_times <= q.answered
      BY Zenon, <1>1, <1>5 DEF RatePage
    <3> QED  BY Zenon, <1>1, <1>4, <1>5, <1>7, <3>1, "Echo" # "Rate", SameRate
  <2> QED  BY Zenon, <1>3, <2>1 DEF RatePage
<1>12. DialsVacant(s, t)
  BY Zenon, <1>4, SameVacant
<1> QED  BY Zenon, <1>5, <1>8, <1>9, <1>10, <1>11, <1>12, <1>13 DEF Page, Orderly

-----------------------------------------------------------------------------
(* finish, and the commands. *)

(* The page of the worker when it is idle again. *)
LEMMA FinishPage ==
  ASSUME NEW s \in WorkerState, NEW a, Page(s, a)
  PROVE  Page(Finish(s), a) /\ Finish(s).slots = s.slots
<1> DEFINE t == Finish(s)
<1>1. t.slots = s.slots /\ t.len = s.len /\ t.at = "poll" /\ t.phase = Idle
  BY Zenon DEF Finish, WorkerState
<1> HIDE DEF t
<1>2. t.phase.kind = "Idle" /\ t.phase.recv_times <= t.phase.answered
  BY <1>1 DEF Idle
<1>3. ~Redialing(t)
  BY <1>1, <1>2 DEF Redialing
<1>4. BenchPage(t, a.bench)
  BY <1>2, <1>3 DEF BenchPage
<1>5. DialPage(t, a.share) /\ EchoPage(t, a)
  BY Zenon, <1>1, <1>2, "Idle" # "Dial", "Idle" # "Echo" DEF Page, DialPage, EchoPage
<1>6. RatePage(t, a)
  BY Zenon, <1>1, <1>2, <1>3, "Idle" # "Rate", SameRate DEF Page
<1> QED  BY Zenon, <1>1, <1>2, <1>4, <1>5, <1>6 DEF Page, t

(* The page of a worker that begins on BenchDial. *)
LEMMA StartDialPage ==
  ASSUME SetFacts, NEW s, NEW a, Held(s, a), a.bench = "Dial", s.len = 0, s.at = "poll",
         NEW n \in Nat, a.share > 0 => n > 0
  PROVE  Page(StartDial(s, a.share, n), a) /\ StartDial(s, a.share, n).slots = s.slots
<1> DEFINE t == StartDial(s, a.share, n)
           q == t.phase
<1>1. s \in WorkerState /\ FreeInv(s) /\ RatePage(s, a)
  BY Zenon, HeldIs DEF WorkerInv, Inv, SlotsInv
<1>9. a.share \in Nat
  BY Zenon, HeldIs
<1>2. /\ t.slots = s.slots /\ t.len = s.len /\ t.at = s.at
      /\ q = [Idle EXCEPT !.kind = "Dial", !.remaining = a.share, !.concurrency = n]
  BY Zenon, <1>1 DEF StartDial, WorkerState
<1> HIDE DEF t
<1>3. /\ q.kind = "Dial" /\ q.remaining = a.share /\ q.concurrency = n /\ q.active = 0
      /\ q.ok = 0 /\ q.failed = 0 /\ q.answered = 0 /\ q.recv_times = 0
  BY <1>2 DEF Idle
<1>4. ~Redialing(t)
  BY <1>2, <1>3 DEF Redialing
<1>5. BenchPage(t, a.bench)
  BY <1>3, <1>4 DEF BenchPage
<1>6. DialPage(t, a.share)
  <2>1. Made(t) = {}
    <3>1. \A i \in Slots : t.slots[i].state = "vacant"
      <4>1. \A i \in Slots : i > s.len
        BY DEF Slots
      <4> QED  BY Zenon, <1>1, <1>2, <4>1 DEF FreeInv
    <3> QED  BY <3>1 DEF Made, InState
  <2>2. Cardinality(Made(t)) = 0
    BY Zenon, <2>1 DEF SetFacts, CountEmpty
  <2>3. 0 <= n /\ a.share + 0 + 0 + 0 = a.share /\ 0 <= 0 /\ 0 <= a.share
    <3>1. PICK m \in Nat : m = a.share
      BY Zenon, <1>9
    <3> QED  BY <3>1
  <2> QED  BY Zenon, <1>2, <1>3, <2>2, <2>3 DEF DialPage
<1>7. EchoPage(t, a)
  BY Zenon, <1>3, "Dial" # "Echo" DEF EchoPage
<1>8. RatePage(t, a)
  <2>1. q.recv_times <= q.answered
    BY <1>3
  <2> QED  BY Zenon, <1>1, <1>2, <1>3, <1>4, <2>1, "Dial" # "Rate", SameRate
<1> QED  BY Zenon, <1>2, <1>5, <1>6, <1>7, <1>8 DEF Page, t

(* The page of a worker that begins on BenchEcho, or on the warm-up. *)
LEMMA StartEchoPage ==
  ASSUME SetFacts, NEW s, NEW a, Held(s, a), a.bench \in {"Warmup", "Echo"}, a.drawn = {},
         s.at = "poll",
         NEW c \in Nat, c = a.conc, NEW idle \in Seq(Slots), Range(idle) = Occupied(s),
         NEW measure, measure = (a.bench = "Echo")
  PROVE  LET t == StartEcho(s, idle, c, measure)
         IN  Page(t, a) /\ t.slots = s.slots /\ Occupied(t) = Occupied(s)
<1> DEFINE slots == IF c < Len(idle) THEN c ELSE Len(idle)
           t == StartEcho(s, idle, c, measure)
           q == t.phase
<1>10. s \in WorkerState /\ DialPage(s, a.share) /\ RatePage(s, a)
  BY Zenon, HeldIs
<1>1. /\ t.slots = s.slots /\ t.len = s.len /\ t.at = s.at
      /\ q = [Idle EXCEPT !.kind = "Echo", !.slots = slots, !.idle = idle,
                          !.exhausted = (slots = 0), !.measure = measure]
  BY Zenon, <1>10 DEF StartEcho, WorkerState
<1> HIDE DEF t, slots
<1>2. /\ q.kind = "Echo" /\ q.slots = slots /\ q.in_flight = 0 /\ q.ok = 0 /\ q.failed = 0
      /\ q.answered = 0 /\ q.recv_times = 0
      /\ (q.measure <=> a.bench = "Echo") /\ (q.exhausted <=> slots = 0)
  <2> DEFINE P(x, y, e, m) == [Idle EXCEPT !.kind = "Echo", !.slots = x, !.idle = y,
                                           !.exhausted = e, !.measure = m]
  <2>1. ASSUME NEW x, NEW y, NEW e, NEW m
        PROVE  /\ P(x, y, e, m).kind = "Echo" /\ P(x, y, e, m).slots = x
               /\ P(x, y, e, m).in_flight = 0 /\ P(x, y, e, m).ok = 0
               /\ P(x, y, e, m).failed = 0 /\ P(x, y, e, m).answered = 0
               /\ P(x, y, e, m).recv_times = 0 /\ P(x, y, e, m).measure = m
               /\ P(x, y, e, m).exhausted = e
    BY DEF Idle
  <2>2. PICK e, m : e = (slots = 0) /\ m = measure
    BY Zenon
  <2>3. q = P(slots, idle, e, m)
    BY Zenon, <1>1, <2>2
  <2>4. /\ q.kind = "Echo" /\ q.slots = slots /\ q.in_flight = 0 /\ q.ok = 0 /\ q.failed = 0
        /\ q.answered = 0 /\ q.recv_times = 0 /\ q.measure = m /\ q.exhausted = e
    <3> HIDE DEF P, q
    <3> QED  BY <2>1, <2>3
  <2> QED  BY Zenon, <2>2, <2>4
<1>4. ~Redialing(t)
  BY <1>1, <1>2 DEF Redialing
<1>5. BenchPage(t, a.bench)
  BY <1>2, <1>4 DEF BenchPage
<1>6. DialPage(t, a.share)
  BY Zenon, <1>1, <1>2, <1>10, "Echo" # "Dial" DEF DialPage
<1>7. Occupied(t) = Occupied(s)
  BY Zenon, <1>1 DEF Occupied, InState
<1>8. EchoPage(t, a)
  <2>1. Cardinality(a.drawn) = q.in_flight + q.ok + q.failed
    <3>1. Cardinality({}) = 0
      BY Zenon DEF SetFacts, CountEmpty
    <3> QED  BY <1>2, <3>1
  <2>2. ASSUME Staffed(t, a.conc)  PROVE  slots > 0 /\ slots # 0
    <3>1. c > 0 /\ Range(idle) # {}
      BY Zenon, <1>7, <2>2 DEF Staffed
    <3>2. idle # <<>>
      BY <3>1 DEF Range
    <3>3. Len(idle) > 0
      BY <3>2
    <3> QED  BY <3>1, <3>3 DEF slots
  <2> QED  BY Zenon, <1>2, <2>1, <2>2 DEF EchoPage
<1>9. RatePage(t, a)
  <2>1. q.recv_times <= q.answered
    BY <1>2
  <2> QED  BY Zenon, <1>1, <1>2, <1>4, <1>10, <2>1, "Echo" # "Rate", SameRate
<1> QED  BY Zenon, <1>1, <1>5, <1>6, <1>7, <1>8, <1>9 DEF Page, t

(* start, Rate. *)
LEMMA StartRatePage ==
  ASSUME NEW s \in WorkerState, NEW a, a.bench = "Rate", Page(s, a), NoneOpen(s),
         s.phase.kind = "Idle"
  PROVE  Page(StartRate(s), a) /\ StartRate(s).slots = s.slots
<1> DEFINE t == StartRate(s)
<1>1. t.slots = s.slots /\ t.len = s.len /\ t.at = "redialing" /\ t.phase = s.phase
  BY Zenon DEF StartRate, WorkerState
<1> HIDE DEF t
<1>2. BenchPage(t, a.bench)
  BY <1>1 DEF BenchPage
<1>3. DialPage(t, a.share) /\ EchoPage(t, a)
  BY Zenon, <1>1, "Idle" # "Dial", "Idle" # "Echo" DEF Page, DialPage, EchoPage
<1>4. RatePage(t, a)
  BY Zenon, <1>1, "Idle" # "Rate", SameRate DEF Page, RatePage
<1> QED  BY Zenon, <1>1, <1>2, <1>3, <1>4 DEF Page, t

(* close_all. *)
LEMMA CloseAllPage ==
  ASSUME NEW s, NEW a, Held(s, a), a.bench \in {"Stop", "Abort"}, s.phase.kind = "Idle"
  PROVE  Page(CloseAll(s), a) /\ DialsVacant(s, CloseAll(s))
<1> DEFINE t == CloseAll(s)
<1>1. s \in WorkerState /\ s.slots \in [Slots -> Conn] /\ \A i \in Slots : SlotInv(s.slots[i], i)
  BY Zenon, HeldIs DEF WorkerInv, Inv, SlotsInv
<1>2. /\ t.slots = [i \in Slots |-> IF s.slots[i].state = "vacant" THEN NoConn
                                    ELSE [s.slots[i] EXCEPT !.closing = TRUE]]
      /\ t.len = s.len /\ t.at = "exited" /\ t.phase = s.phase
  BY Zenon, <1>1 DEF CloseAll, WorkerState
<1> HIDE DEF t
<1>3. ASSUME NEW i \in Slots
      PROVE  /\ t.slots[i].in_flight = s.slots[i].in_flight
             /\ t.slots[i].streams = s.slots[i].streams
             /\ t.slots[i].state = s.slots[i].state /\ t.slots[i].dial = s.slots[i].dial
  <2>1. s.slots[i] \in Conn /\ (s.slots[i].state = "vacant" => s.slots[i] = NoConn)
    BY Zenon, <1>1 DEF SlotInv
  <2>2. t.slots[i] = IF s.slots[i].state = "vacant" THEN NoConn
                     ELSE [s.slots[i] EXCEPT !.closing = TRUE]
    BY Zenon, <1>2
  <2>3. CASE s.slots[i].state = "vacant"
    BY Zenon, <2>1, <2>2, <2>3
  <2>4. CASE s.slots[i].state # "vacant"
    BY Zenon, <2>1, <2>2, <2>4 DEF Conn
  <2> QED  BY Zenon, <2>3, <2>4
<1>4. BenchPage(t, a.bench) /\ ~Redialing(t)
  BY <1>2 DEF BenchPage, Redialing
<1>5. DialPage(t, a.share) /\ EchoPage(t, a)
  BY Zenon, <1>2, "Idle" # "Dial", "Idle" # "Echo" DEF Held, Page, DialPage, EchoPage
<1>6. RatePage(t, a)
  <2>1. a.bench \notin {"Dial", "Warmup", "Echo"}
    OBVIOUS
  <2> QED  BY Zenon, <1>2, <1>3, <1>4, <2>1, "Idle" # "Rate" DEF Held, Page, RatePage
<1>7. DialsVacant(s, t)
  BY Zenon, <1>3 DEF DialsVacant, NoNewDial
<1> QED  BY Zenon, <1>4, <1>5, <1>6, <1>7 DEF Page, t

(* A worker carries out what main asks. *)
LEMMA BeginsKept ==
  ASSUME SetFacts
  PROVE PageBegins
<1> SUFFICES ASSUME NEW s, NEW t, NEW a, NEW cmd, Held(s, a), Fresh(s, a.bench), Begins(s, t, cmd),
                    Asks(cmd, a), cmd.concurrency \in Nat, a.drawn = {}
             PROVE  Page(t, a) /\ Orderly(s, t, a.bench)
  BY Zenon DEF PageBegins
<1>1. s \in WorkerState /\ s.phase.kind = "Idle" /\ s.at = "poll" /\ Page(s, a)
  BY Zenon, HeldIs DEF Held, Begins, Rests
<1>2. \A u : u.slots = s.slots => Orderly(s, u, a.bench)
  <2>1. \A u : u.slots = s.slots => Occupied(u) = Occupied(s)
    BY Zenon DEF Occupied, InState
  <2> QED  BY Zenon, <2>1, SameVacant DEF Orderly
<1>3. CASE cmd.kind = "Dial" /\ t = StartDial(s, cmd.count, cmd.concurrency)
  <2>1. a.bench = "Dial"
    BY Zenon, <1>3, "Dial" # "Stop" DEF Asks
  <2>2. cmd.count = a.share /\ s.len = 0 /\ (a.share > 0 => cmd.concurrency > 0)
    BY Zenon, <2>1 DEF Asks, Fresh
  <2>3. Page(t, a) /\ t.slots = s.slots
    <3>1. t = StartDial(s, a.share, cmd.concurrency)
      BY Zenon, <1>3, <2>2
    <3>2. Page(StartDial(s, a.share, cmd.concurrency), a)
            /\ StartDial(s, a.share, cmd.concurrency).slots = s.slots
      BY Zenon, <1>1, <2>1, <2>2, StartDialPage
    <3> QED  BY Zenon, <3>1, <3>2
  <2> QED  BY Zenon, <1>2, <2>3
<1>4. CASE /\ cmd.kind \in {"Warmup", "Echo"}
           /\ \E idle \in [1..Cardinality(Occupied(s)) -> Occupied(s)] :
                Lists(idle, Occupied(s)) /\ t = StartEcho(s, idle, cmd.concurrency, cmd.kind = "Echo")
  <2>1. PICK idle \in [1..Cardinality(Occupied(s)) -> Occupied(s)] :
          Lists(idle, Occupied(s)) /\ t = StartEcho(s, idle, cmd.concurrency, cmd.kind = "Echo")
    BY Zenon, <1>4
  <2>2. a.bench \in {"Warmup", "Echo"} /\ a.bench = cmd.kind
    BY Zenon, <1>4, "Warmup" # "Stop", "Echo" # "Stop" DEF Asks
  <2>3. cmd.concurrency = a.conc
    BY Zenon, <2>2 DEF Asks
  <2>4. idle \in Seq(Slots)
    <3>1. Occupied(s) \subseteq Slots
      BY Zenon DEF Occupied
    <3>2. IsFiniteSet(Slots)
      BY WorkerAssumption DEF Slots, SetFacts, CountInterval
    <3>3. Cardinality(Occupied(s)) \in Nat
      BY Zenon, <3>1, <3>2 DEF SetFacts, CountSubset, CountIsNat
    <3>4. PICK n \in Nat, S \in SUBSET Slots : n = Cardinality(Occupied(s)) /\ S = Occupied(s)
      BY Zenon, <3>1, <3>3
    <3>5. idle \in [1..n -> S]
      BY Zenon, <3>4
    <3> QED  BY <3>5
  <2>5. Range(idle) = Occupied(s)
    BY Zenon, <2>1 DEF Lists
  <2>6. PICK measure : measure = (a.bench = "Echo")
    BY Zenon
  <2>7. t = StartEcho(s, idle, cmd.concurrency, measure)
    BY Zenon, <2>1, <2>2, <2>6
  <2>8. /\ Page(StartEcho(s, idle, cmd.concurrency, measure), a)
        /\ StartEcho(s, idle, cmd.concurrency, measure).slots = s.slots
    BY SMTT(30), <1>1, <2>2, <2>3, <2>4, <2>5, <2>6, StartEchoPage
  <2>9. Page(t, a) /\ t.slots = s.slots
    BY Zenon, <2>7, <2>8
  <2> QED  BY Zenon, <1>2, <2>9
<1>5. CASE cmd.kind = "Rate" /\ t = StartRate(s)
  <2>1. a.bench = "Rate"
    BY Zenon, <1>5, "Rate" # "Stop" DEF Asks
  <2>2. NoneOpen(s)
    BY Zenon, <2>1 DEF Fresh
  <2> QED  BY Zenon, <1>1, <1>2, <1>5, <2>1, <2>2, StartRatePage
<1>6. CASE cmd.kind = "Stop" /\ t = CloseAll(s)
  <2>1. a.bench \in {"Stop", "Abort"}
    BY Zenon, <1>6 DEF Asks
  <2>2. a.bench \notin {"Warmup", "Echo"}
    BY <2>1
  <2> QED  BY Zenon, <1>1, <1>6, <2>1, <2>2, CloseAllPage DEF Orderly
<1> QED  BY Zenon, <1>3, <1>4, <1>5, <1>6 DEF Begins

(* The page of a worker that was just made is empty. *)
LEMMA NewKept == PageNew
<1> SUFFICES ASSUME NEW a, a.share \in Nat, a.most \in Nat, a.bench = "Dial"
             PROVE  Page(NewWorker, a) /\ Fresh(NewWorker, a.bench)
  BY Zenon DEF PageNew
<1> DEFINE s == NewWorker
<1>1. /\ s.phase = Idle /\ s.at = "poll" /\ s.len = 0
      /\ \A i \in Slots : s.slots[i] = NoConn
  BY DEF NewWorker
<1> HIDE DEF s
<1>2. s.phase.kind = "Idle" /\ s.phase.recv_times = 0 /\ s.phase.answered = 0
  BY <1>1 DEF Idle
<1>3. \A i \in Slots : s.slots[i].in_flight = 0 /\ s.slots[i].streams["Rate"] = 0
  <2>1. NoConn.in_flight = 0 /\ NoConn.streams["Rate"] = 0
    BY DEF NoConn, NoStreams, Kinds
  <2> QED  BY Zenon, <1>1, <2>1
<1>4. ~Redialing(s)
  BY <1>1, <1>2 DEF Redialing
<1>5. BenchPage(s, a.bench)
  BY <1>2, <1>4 DEF BenchPage
<1>6. 0 <= a.share /\ 0 <= a.most /\ 0 <= 0
  <2>1. PICK m \in Nat, n \in Nat : m = a.share /\ n = a.most
    BY Zenon
  <2> QED  BY <2>1
<1>7. DialPage(s, a.share) /\ EchoPage(s, a)
  BY Zenon, <1>1, <1>2, <1>6, "Idle" # "Dial", "Idle" # "Echo" DEF DialPage, EchoPage
<1>8. RatePage(s, a)
  BY Zenon, <1>2, <1>3, <1>6, "Idle" # "Rate" DEF RatePage, NoneOpen
<1>9. Fresh(s, a.bench)
  BY Zenon, <1>1, "Dial" # "Rate" DEF Fresh
<1> QED  BY Zenon, <1>5, <1>7, <1>8, <1>9 DEF Page, s

(* A worker keeps its page, in every step it makes. *)
LEMMA PagesHold ==
  ASSUME SetFacts
  PROVE PageKeeps
<1>1. PageFinishes
  BY Zenon, HeldIs, FinishPage DEF PageFinishes, Held
<1> QED  BY Zenon, <1>1, HandlesKept, IssuesKept, ExhaustsKept, BeginsKept, NewKept DEF PageKeeps
=============================================================================
