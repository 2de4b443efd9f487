-------------------------- MODULE WorkerInvariant ---------------------------
(***************************************************************************)
(* The inductive invariant of one worker, for an environment in which      *)
(* registering a socket does not fail.                                     *)
(*                                                                         *)
(* A worker's handlers pass through states in which they hold something    *)
(* that is in no field: a slot whose round trip is between two places, or  *)
(* a dial that is in neither the slots nor the retries.  Inv(s, H, n) is   *)
(* the invariant of a worker whose handler holds the round trips of the    *)
(* slots H and n dials; WorkerInv is the case of nothing held.             *)
(***************************************************************************)
EXTENDS Worker

(* What a connection carries, by its state. *)
SlotInv(c, i) ==
  /\ c.state = "vacant" => c = NoConn
  /\ c.state = "connecting" =>
       /\ c.dial \in Job /\ c.dial.slot = i
       /\ c.streams["Echo"] = 0 /\ c.streams["Rate"] = 0
       /\ c.queued \in {<<>>, <<"Dial">>}
       /\ c.queued = <<>> \/ c.streams["Dial"] = 0
       /\ c.streams["Dial"] <= 1
       /\ ~c.h3 => c.queued = <<>> /\ c.streams["Dial"] = 0
  /\ c.state # "connecting" => c.dial = NoJob /\ c.streams["Dial"] = 0
  /\ c.state = "ready" =>
       /\ c.h3
       /\ c.queued \in {<<>>, <<"Echo">>}
       /\ c.queued = <<>> \/ c.streams["Echo"] = 0
       /\ c.streams["Echo"] <= 1
  /\ c.state = "broken" => c.streams = NoStreams /\ c.queued = <<>>
  /\ c.in_flight <= c.streams["Rate"]

(* Every dial under way or waiting to be retried is for purpose p; what is
   retried is a broken connection, in one retry, or else a new one. *)
DialsFor(s, p) ==
  /\ \A i \in Slots : s.slots[i].state = "connecting" => s.slots[i].dial.purpose = p
  /\ \A n \in 1..Len(s.retries) : s.retries[n].purpose = p
  /\ p = "New" => \A n \in 1..Len(s.retries) : s.retries[n].slot = 0
  /\ p # "New" =>
       /\ \A n \in 1..Len(s.retries) :
            s.retries[n].slot \in Slots /\ s.slots[s.retries[n].slot].state = "broken"
       /\ \A m, n \in 1..Len(s.retries) :
            s.retries[m].slot = s.retries[n].slot => m = n

Retried(s, i) == \E n \in 1..Len(s.retries) : s.retries[n].slot = i

(* The dials that are under way or wait to be retried. *)
Dials(s) == Len(s.retries) + Cardinality(InState(s, "connecting"))

(* Connection c carries a round trip, and slot i is busy with one. *)
Carries(c) ==
  \/ c.state = "connecting"
  \/ c.state = "ready" /\ (c.streams["Echo"] = 1 \/ c.queued # <<>>)

Busy(s, i) == Carries(s.slots[i]) \/ Retried(s, i)
BusySlots(s) == {i \in Slots : Busy(s, i)}

NoEcho(s) ==
  \A i \in Slots : s.slots[i].state = "ready" =>
                     s.slots[i].streams["Echo"] = 0 /\ s.slots[i].queued = <<>>

EchoInv(s, H) ==
  /\ IsInjective(s.phase.idle)
  /\ \A i \in Slots : i \in Range(s.phase.idle)
                        <=> s.slots[i].state # "vacant" /\ ~Busy(s, i) /\ i \notin H
  /\ s.phase.in_flight = Cardinality(BusySlots(s) \cup H)
  /\ s.phase.in_flight <= s.phase.slots

(* The slots that are vacant: the free ones, and those past the end. *)
FreeInv(s) ==
  /\ IsInjective(s.free)
  /\ \A i \in Slots : i \in Range(s.free) <=> i <= s.len /\ s.slots[i].state = "vacant"
  /\ \A i \in Slots : i > s.len => s.slots[i].state = "vacant"

Redialing(s) == s.phase.kind = "RatePrep" \/ s.at = "redialing"
Quiet(s) == s.phase.kind = "Rate" \/ (s.phase.kind = "Idle" /\ s.at # "redialing")

SlotsInv(s) ==
  /\ \A i \in Slots : SlotInv(s.slots[i], i)
  /\ FreeInv(s)
  /\ s.ready = Cardinality(InState(s, "ready"))

(* What is being dialed, by the phase, and how many dials its counter is for.
   The dials that start makes before it sets RatePrep count in none, and are
   at most as many as RatePrep will wait for. *)
DialsInv(s, n) ==
  /\ s.phase.kind = "Dial" =>
       DialsFor(s, "New") /\ s.phase.active = s.starts + Dials(s) + n
  /\ s.phase.kind = "Echo" => DialsFor(s, "RedialEcho")
  /\ Redialing(s) => DialsFor(s, "RedialRate")
  /\ s.phase.kind = "RatePrep" => s.phase.redials >= Dials(s) + n
  /\ s.at = "redialing" =>
       /\ s.todo \subseteq InState(s, "broken")
       /\ s.broken >= Cardinality(s.todo) + Dials(s) + n
       /\ \A i \in s.todo : ~Retried(s, i)
  /\ Quiet(s) => s.retries = <<>> /\ InState(s, "connecting") = {}

(* Which loop the worker is in, by its phase. *)
ControlInv(s) ==
  /\ s.at = "dialing" => s.phase.kind = "Dial"
  /\ s.at = "echoing" => s.phase.kind = "Echo"
  /\ s.at = "ticking" => s.phase.kind = "Rate"
  /\ s.at \in {"redialing", "exited"} => s.phase.kind = "Idle"
  /\ s.at # "panicked"
  /\ s.starts > 0 <=> s.at = "dialing"

Inv(s, H, n) ==
  /\ s \in WorkerState
  /\ SlotsInv(s)
  /\ DialsInv(s, n)
  /\ IF s.phase.kind = "Echo" THEN EchoInv(s, H) ELSE NoEcho(s)
  /\ ControlInv(s)

WorkerInv(s) == Inv(s, {}, 0)

(* A handler of s holds the dial job. *)
Holding(s, j) ==
  /\ j \in Job
  /\ \/ j.purpose = "New" /\ s.phase.kind = "Dial" /\ j.slot = 0
     \/ /\ \/ j.purpose = "RedialEcho" /\ s.phase.kind = "Echo"
           \/ j.purpose = "RedialRate" /\ Redialing(s)
        /\ j.slot \in Slots /\ s.slots[j.slot].state = "broken" /\ ~Retried(s, j.slot)
        /\ s.at = "redialing" => j.slot \notin s.todo
  /\ Inv(s, IF j.purpose = "RedialEcho" THEN {j.slot} ELSE {}, 1)
=============================================================================
