------------------------------- MODULE Server -------------------------------
(***************************************************************************)
(* A worker thread of the quiche server (frameworks/quiche/src/server.rs): *)
(* its sockets, read within a budget under an edge-triggered poll, the     *)
(* connections it tells apart by their IDs, the slots they live in, the    *)
(* list of dirty connections and the lazy heap of timers.                  *)
(*                                                                         *)
(* What a datagram holds is chosen when it is read: the connection ID it   *)
(* is for, and whether it is an Initial that a new connection is accepted  *)
(* for.  quiche is abstract: receiving or a timeout may close the          *)
(* connection and moves its timer to any moment, or to none.               *)
(***************************************************************************)
EXTENDS Integers, Sequences, FiniteSets, Functions, Heap

CONSTANTS
  NumSockets,   \* the sockets of this worker
  Ids,          \* the connection IDs; a random one is taken to be new
  READ_BUDGET,
  MaxClients,   \* a bound on the slots
  MaxArrivals,  \* a bound on the datagrams
  MaxTime,      \* a bound on the clock
  Span          \* how far ahead a timer of quiche may be (a bound)

ASSUME ServerAssumption ==
  /\ {NumSockets, READ_BUDGET, MaxClients, MaxArrivals, MaxTime, Span} \subseteq Nat \ {0}
  /\ IsFiniteSet(Ids)

VARIABLES
  now, queued, failed, edge,  \* the clock; the datagrams in each socket's buffer;
                              \* the sockets with an error to report; those that
                              \* became readable since the last poll
  arrivals,
  unread, todo, budget,  \* the list of sockets to read, the rest of it in this
                         \* round, and what is left of the budget
  clients, len, free,  \* the slots, how many there are, and the vacant ones
  ids,                 \* which slot an ID belongs to, 0 for none
  dirty, timers, at

io == <<queued, failed, edge, arrivals, unread, todo, budget>>
slots == <<clients, len, free, ids>>
vars == <<now, io, slots, dirty, timers, at>>

Sockets == 1..NumSockets
Slots == 1..MaxClients
None == 0
Times == 1..(MaxTime + Span)

(* A slot that holds None; closed is what conn.is_closed answers and timeout
   what conn.timeout_instant does. *)
NoClient ==
  [some |-> FALSE, closed |-> FALSE, ids |-> {}, timeout |-> None, deadline |-> None,
   scheduled |-> None, dirty |-> FALSE]

Client ==
  [some : BOOLEAN, closed : BOOLEAN, ids : SUBSET Ids, timeout : Times \cup {None},
   deadline : Times \cup {None}, scheduled : Times \cup {None}, dirty : BOOLEAN]

Init ==
  /\ now = 1
  /\ queued = [s \in Sockets |-> 0] /\ failed = {} /\ edge = {} /\ arrivals = 0
  /\ unread = <<>> /\ todo = <<>> /\ budget = READ_BUDGET
  /\ clients = [i \in Slots |-> NoClient] /\ len = 0 /\ free = <<>>
  /\ ids = [d \in Ids |-> 0]
  /\ dirty = <<>> /\ timers = EmptyHeap /\ at = "poll"

Timeouts == {None} \cup (now + 1)..(now + Span)

-----------------------------------------------------------------------------
(* The network and the clock. *)

Arrive(s) ==
  /\ arrivals < MaxArrivals
  /\ arrivals' = arrivals + 1
  /\ queued' = [queued EXCEPT ![s] = @ + 1]
  /\ edge' = edge \cup {s}
  /\ UNCHANGED <<now, failed, unread, todo, budget, slots, dirty, timers, at>>

(* An ICMP error for an earlier send. *)
SendFails(s) ==
  /\ arrivals < MaxArrivals
  /\ arrivals' = arrivals + 1
  /\ failed' = failed \cup {s}
  /\ edge' = edge \cup {s}
  /\ UNCHANGED <<now, queued, unread, todo, budget, slots, dirty, timers, at>>

(* fire_timers reads the clock once. *)
Tick ==
  /\ at # "timers" /\ now < MaxTime
  /\ now' = now + 1
  /\ UNCHANGED <<io, slots, dirty, timers, at>>

(* The bound on the clock is where a behaviour may stay. *)
EndOfTime == at = "poll" /\ now = MaxTime /\ UNCHANGED vars

-----------------------------------------------------------------------------
(* The lists that hold each of these sockets once. *)
InAnyOrder(S) ==
  {list \in UNION {[1..n -> S] : n \in 0..NumSockets} : IsInjective(list) /\ Range(list) = S}

(* Worker::run: poll does not block while a socket is unread, and otherwise
   returns for an edge or at the top of the heap. *)
Due == \E e \in Entries(timers) : e[1] <= now

Poll ==
  /\ at = "poll" /\ (unread # <<>> \/ edge # {} \/ Due)
  /\ \E new \in InAnyOrder(edge \ Range(unread)) : todo' = unread \o new
  /\ unread' = <<>> /\ edge' = {} /\ budget' = READ_BUDGET
  /\ at' = "read"
  /\ UNCHANGED <<now, queued, failed, arrivals, slots, dirty, timers>>

(* read_socket: the next socket of the list, until it would block ... *)
ReadBlocked ==
  /\ at = "read" /\ todo # <<>> /\ budget > 0
  /\ queued[Head(todo)] = 0 /\ Head(todo) \notin failed
  /\ todo' = Tail(todo) /\ budget' = READ_BUDGET
  /\ UNCHANGED <<now, queued, failed, edge, arrivals, unread, slots, dirty, timers, at>>

(* Slip of run: a socket whose budget is spent is left to the next edge. *)
ReadSpentForgets ==
  /\ at = "read" /\ todo # <<>> /\ budget = 0
  /\ todo' = Tail(todo) /\ budget' = READ_BUDGET
  /\ UNCHANGED <<now, queued, failed, edge, arrivals, unread, slots, dirty, timers, at>>

(* ... or the budget is spent, after which it stays unread. *)
ReadSpent ==
  /\ at = "read" /\ todo # <<>> /\ budget = 0
  /\ unread' = Append(unread, Head(todo))
  /\ todo' = Tail(todo) /\ budget' = READ_BUDGET
  /\ UNCHANGED <<now, queued, failed, edge, arrivals, slots, dirty, timers, at>>

(* recv_from answers with the error first. *)
ReadError ==
  /\ at = "read" /\ todo # <<>> /\ budget > 0 /\ Head(todo) \in failed
  /\ failed' = failed \ {Head(todo)}
  /\ budget' = budget - 1
  /\ UNCHANGED <<now, queued, edge, arrivals, unread, todo, slots, dirty, timers, at>>

(* The slot a new connection takes. *)
AllocIdx == IF free # <<>> THEN free[Len(free)] ELSE len + 1

MarkedList(c, i) == IF c.dirty THEN dirty ELSE Append(dirty, i)

(* on_datagram, for a connection that is known, or with a new one. *)
Received(i, c) ==
  \E t \in Timeouts, closed \in {c.closed, TRUE} :
    /\ clients' = [clients EXCEPT ![i] = [c EXCEPT !.timeout = t, !.closed = closed,
                                                   !.dirty = TRUE]]
    /\ dirty' = MarkedList(c, i)

Known(dcid) ==
  /\ ids[dcid] # 0
  /\ IF clients[ids[dcid]].some THEN Received(ids[dcid], clients[ids[dcid]])
     ELSE UNCHANGED <<clients, dirty>>
  /\ UNCHANGED <<len, free, ids>>

Accept(dcid, scid) ==
  /\ ids[dcid] = 0 /\ ids[scid] = 0 /\ scid # dcid /\ AllocIdx <= MaxClients
  /\ len' = IF free # <<>> THEN len ELSE len + 1
  /\ free' = IF free # <<>> THEN SubSeq(free, 1, Len(free) - 1) ELSE free
  /\ ids' = [ids EXCEPT ![dcid] = AllocIdx, ![scid] = AllocIdx]
  /\ Received(AllocIdx, [NoClient EXCEPT !.some = TRUE, !.ids = {dcid, scid}])

(* A datagram without a header, or one for no connection that opens none: it is
   no Initial, its version is not supported, or quiche does not accept it. *)
Ignored == UNCHANGED <<slots, dirty>>

ReadDatagram ==
  /\ at = "read" /\ todo # <<>> /\ budget > 0
  /\ queued[Head(todo)] > 0 /\ Head(todo) \notin failed
  /\ queued' = [queued EXCEPT ![Head(todo)] = @ - 1]
  /\ budget' = budget - 1
  /\ Ignored \/ \E dcid \in Ids : Known(dcid) \/ \E scid \in Ids : Accept(dcid, scid)
  /\ UNCHANGED <<now, failed, edge, arrivals, unread, todo, timers, at>>

ReadDone ==
  /\ at = "read" /\ todo = <<>>
  /\ at' = "timers"
  /\ UNCHANGED <<now, io, slots, dirty, timers>>

(* Slip of fire_timers: what is popped stays scheduled. *)
StillScheduled(c) == c

Unscheduled(c) == [c EXCEPT !.scheduled = None]

(* fire_timers, for the earliest entry; a stale one is dropped, an early one
   leads to a flush, which sets the timer anew. *)
FireTimer(e) ==
  LET i == e[2]
      c == clients[i]
      u == Unscheduled(c) IN
  /\ at = "timers" /\ e[1] <= now
  /\ \A f \in Entries(timers) : e[1] <= f[1]
  /\ timers' = Popped(timers, e)
  /\ IF ~c.some \/ c.scheduled # e[1] THEN UNCHANGED <<clients, dirty>>
     ELSE IF c.deadline # None /\ c.deadline <= now THEN Received(i, u)
     ELSE /\ clients' = [clients EXCEPT ![i] = [u EXCEPT !.dirty = TRUE]]
          /\ dirty' = MarkedList(c, i)
  /\ UNCHANGED <<now, io, len, free, ids, at>>

TimersDone ==
  /\ at = "timers" /\ ~Due
  /\ at' = "flush"
  /\ UNCHANGED <<now, io, slots, dirty, timers>>

(* Slip of remove: only the server's own ID goes. *)
RemoveOneId(i) ==
  LET kept == CHOOSE d \in clients[i].ids : TRUE IN
  /\ clients' = [clients EXCEPT ![i] = NoClient]
  /\ ids' = [d \in Ids |-> IF d \in clients[i].ids \ {kept} THEN 0 ELSE ids[d]]
  /\ free' = Append(free, i)
  /\ UNCHANGED <<len, timers>>

(* remove: the IDs that are still its own, and the slot. *)
RemoveClient(i) ==
  /\ clients' = [clients EXCEPT ![i] = NoClient]
  /\ ids' = [d \in Ids |-> IF d \in clients[i].ids /\ ids[d] = i THEN 0 ELSE ids[d]]
  /\ free' = Append(free, i)
  /\ UNCHANGED <<len, timers>>

(* Slip of flush: an earlier deadline waits for the entry already in the heap. *)
ArmOnce(i, t) ==
  LET c == clients[i]
      push == t # None /\ c.scheduled = None IN
  /\ clients' = [clients EXCEPT ![i] = [c EXCEPT !.dirty = FALSE, !.timeout = t, !.deadline = t,
                                          !.scheduled = IF push THEN t ELSE @]]
  /\ timers' = IF push THEN Pushed(timers, <<t, i>>) ELSE timers
  /\ UNCHANGED <<len, free, ids>>

(* The timer a flush sets. *)
Arm(i, t) ==
  LET c == clients[i]
      push == t # None /\ (c.scheduled = None \/ t < c.scheduled) IN
  /\ clients' = [clients EXCEPT ![i] = [c EXCEPT !.dirty = FALSE, !.timeout = t, !.deadline = t,
                                          !.scheduled = IF push THEN t ELSE @]]
  /\ timers' = IF push THEN Pushed(timers, <<t, i>>) ELSE timers
  /\ UNCHANGED <<len, free, ids>>

(* flush_dirty, with flush: what is closed is removed, what a failing send closes
   too, and the timer of the others is set to what quiche wants after sending. *)
FlushNext ==
  LET i == dirty[Len(dirty)] IN
  /\ at = "flush" /\ dirty # <<>>
  /\ dirty' = SubSeq(dirty, 1, Len(dirty) - 1)
  /\ IF ~clients[i].some THEN UNCHANGED <<slots, timers>>
     ELSE \/ RemoveClient(i)
          \/ ~clients[i].closed /\ \E t \in Timeouts : Arm(i, t)
  /\ UNCHANGED <<now, io, at>>

FlushDone ==
  /\ at = "flush" /\ dirty = <<>>
  /\ at' = "poll"
  /\ UNCHANGED <<now, io, slots, dirty, timers>>

Round ==
  \/ Poll \/ ReadBlocked \/ ReadSpent \/ ReadError \/ ReadDatagram \/ ReadDone
  \/ \E e \in Entries(timers) : FireTimer(e)
  \/ TimersDone \/ FlushNext \/ FlushDone

Next == Tick \/ EndOfTime \/ Round \/ \E s \in Sockets : Arrive(s) \/ SendFails(s)

Spec == Init /\ [][Next]_vars

(* The thread takes the steps it can. *)
FairSpec == Spec /\ WF_vars(Round)

-----------------------------------------------------------------------------
(* Properties. *)

(* The state of the worker; a spent budget is never overdrawn. *)
TypeOK ==
  /\ now \in 1..MaxTime
  /\ queued \in [Sockets -> 0..MaxArrivals] /\ failed \subseteq Sockets /\ edge \subseteq Sockets
  /\ arrivals \in 0..MaxArrivals
  /\ unread \in Seq(Sockets) /\ todo \in Seq(Sockets) /\ budget \in 0..READ_BUDGET
  /\ clients \in [Slots -> Client] /\ len \in 0..MaxClients /\ free \in Seq(Slots)
  /\ ids \in [Ids -> 0..MaxClients]
  /\ dirty \in Seq(Slots)
  /\ IsAHeap(timers) /\ Entries(timers) \subseteq Times \X Slots
  /\ at \in {"poll", "read", "timers", "flush"}

(* on_datagram hands a datagram to the connection its ID belongs to: an ID in
   the map is that of a live connection, and the IDs of a live connection lead
   to it and to no other, whichever connections went before in its slot. *)
IdsExact ==
  /\ \A d \in Ids : ids[d] # 0 => d \in clients[ids[d]].ids
  /\ \A i \in Slots : \A d \in clients[i].ids : ids[d] = i
  /\ \A i \in Slots : clients[i].some <=> clients[i].ids # {}

(* The free list holds each vacant slot once: a slot is neither lost nor given
   to two connections. *)
FreeExact ==
  /\ IsInjective(free)
  /\ Range(free) = {i \in 1..len : ~clients[i].some}
  /\ \A i \in Slots : clients[i].some => i <= len

(* The list of dirty connections has each of them once and no other, although
   flush removes connections and slots are taken again. *)
DirtyExact ==
  /\ IsInjective(dirty)
  /\ Range(dirty) = {i \in Slots : clients[i].dirty}

(* When the worker polls, no closed connection is left, and the heap has an
   entry for every connection no later than the moment quiche wants. *)
TimersArmed ==
  at = "poll" =>
    \A i \in Slots :
      LET c == clients[i] IN
      c.some =>
        /\ ~c.closed
        /\ c.deadline = c.timeout
        /\ c.deadline # None => /\ c.scheduled # None /\ c.scheduled <= c.deadline
                                /\ <<c.scheduled, i>> \in Entries(timers)

(* When the worker polls, a socket with datagrams is on the list or will be
   reported: what the budget left is not forgotten. *)
NothingUnread ==
  at = "poll" => \A s \in Sockets : queued[s] > 0 => s \in edge \cup Range(unread)

(* Every datagram is read. *)
AllRead == \A s \in Sockets : queued[s] > 0 ~> queued[s] = 0
=============================================================================
