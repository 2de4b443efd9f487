------------------------------- MODULE Timers -------------------------------
(***************************************************************************)
(* The clock side of a client worker (benchcli-rust/src/engine.rs): the    *)
(* rounds of its event loop, the lazy heap of timers, the list of dirty    *)
(* connections and the keepalive.                                          *)
(*                                                                         *)
(* The heap is lazy: an entry is never removed when its connection's       *)
(* deadline moves or the connection is replaced, and a later deadline gets *)
(* no entry until the earlier one has fired.  What quiche wants is         *)
(* abstract: its timer moves to any moment, or to none, whenever the       *)
(* connection receives, sends or times out.  A handler takes no time; the  *)
(* clock runs while the loop polls, and poll may return late.              *)
(***************************************************************************)
EXTENDS Integers, Sequences, FiniteSets, Heap

CONSTANTS
  NumSlots,     \* how many slots there are
  MaxTime,      \* a bound on the clock
  Span,         \* how far ahead a timer of quiche may be (a bound)
  Second,       \* the ticks of a second
  IdleTimeout,  \* cfg.idle_timeout, in ticks
  DialTimeout,  \* cfg.dial_timeout, in ticks
  MaxTimers,    \* a bound on the entries of the heap when a dial adds one
  MaxFaults     \* a bound on refused and failed sends

ASSUME TimersAssumption ==
  /\ {NumSlots, MaxTime, Span, Second, IdleTimeout, DialTimeout, MaxTimers}
       \subseteq Nat \ {0}
  /\ MaxFaults \in Nat

VARIABLES
  now,             \* the clock
  conns,           \* the slots
  timers,          \* the heap, of <<time, slot>>
  dirty,           \* the indices of connections to flush
  readable,        \* the sockets poll is to report
  next_keepalive,
  at,              \* where the round is
  faults

vars == <<now, conns, timers, dirty, readable, next_keepalive, at, faults>>

Slots == 1..NumSlots
None == 0
Latest == MaxTime + Span + DialTimeout + Second
Times == 1..Latest
Instants == Times \cup {None}

(* The keepalive of Worker::new. *)
KeepAlive == IF IdleTimeout \div 4 > Second THEN IdleTimeout \div 4 ELSE Second

(* timeout is what q.timeout_instant answers; unsent says that quiche was given
   something to send that no flush has come to; left that a flush broke off with
   packets still in quiche; open that a request is unanswered. *)
Vacant ==
  [state |-> "vacant", timeout |-> None, attempt_deadline |-> None, deadline |-> None,
   scheduled |-> None, dirty |-> FALSE, last_active |-> 1, unsent |-> FALSE, left |-> FALSE,
   open |-> FALSE]

Fresh ==
  [Vacant EXCEPT !.state = "connecting", !.attempt_deadline = now + DialTimeout,
                 !.last_active = now, !.unsent = TRUE]

Live(c) == c.state \in {"connecting", "ready"}
Timeouts == {None} \cup (now + 1)..(now + Span)

Earlier(a, b) == IF a = None \/ (b # None /\ b < a) THEN b ELSE a

Init ==
  /\ now = 1
  /\ conns = [i \in Slots |-> Vacant]
  /\ timers = EmptyHeap
  /\ dirty = <<>>
  /\ readable = {}
  /\ next_keepalive = 1 + Second
  /\ at = "poll"
  /\ faults = 0

-----------------------------------------------------------------------------
(* The methods. *)

(* mark_dirty, as what becomes of the connection and of the list. *)
Marked(c) == [c EXCEPT !.dirty = TRUE]
MarkedList(c, i, list) == IF c.dirty THEN list ELSE Append(list, i)

(* Slips of schedule: the end of the dial is left out; an earlier deadline gets
   no entry while there is one. *)
DeadlineOfQuiche(c) == c.timeout

(* schedule: the deadline is worked out again, and gets an entry only if it is
   earlier than the one the connection waits for. *)
Deadline(c) == Earlier(c.timeout, c.attempt_deadline)

MustPushFirst(c) == Deadline(c) # None /\ c.scheduled = None

MustPush(c) == Deadline(c) # None /\ (c.scheduled = None \/ Deadline(c) < c.scheduled)

Schedule(c) ==
  [c EXCEPT !.deadline = Deadline(c),
            !.scheduled = IF MustPush(c) THEN Deadline(c) ELSE @]

Push(c, i, heap) == IF MustPush(c) THEN Pushed(heap, <<Deadline(c), i>>) ELSE heap

(* What process makes of a connection: nothing, an answer, or its end, after
   which a new connection's slot is vacant and any other connection broken. *)
Processed(c) ==
  {c}
  \cup {d \in {[c EXCEPT !.state = "ready", !.attempt_deadline = None, !.open = FALSE]} : Live(c)}
Ended(c) ==
  IF c.state = "connecting"
  THEN {Vacant, [c EXCEPT !.state = "broken", !.attempt_deadline = None, !.open = FALSE]}
  ELSE {[c EXCEPT !.state = IF @ = "ready" THEN "broken" ELSE @, !.open = FALSE]}

(* A Vacant slot keeps no flag, whoever is on the list. *)
After(d, c) == IF d.state = "vacant" THEN d ELSE [d EXCEPT !.dirty = c.dirty]

(* flush: the packets are "sent", or the sending breaks off at a "full" socket or
   because it "failed", after some of them and with packets left in quiche or not;
   or there are none ("idle").  The mark is cleared whatever happens, and a failure
   is processed once the timer is set. *)
FlushOutcomes(c) ==
  IF c.unsent \/ c.left
  THEN {[r |-> "sent", some |-> TRUE, left |-> FALSE]}
       \cup [r : {"full", "failed"}, some : BOOLEAN, left : BOOLEAN]
  ELSE {[r |-> "idle", some |-> FALSE, left |-> FALSE]}

Flush(i, c, list) ==
  \E o \in FlushOutcomes(c), t \in Timeouts :
    LET u == [c EXCEPT !.dirty = FALSE, !.unsent = FALSE, !.left = o.left, !.timeout = t,
                       !.last_active = IF o.some THEN now ELSE @]
        v == Schedule(u)
    IN  /\ faults' = IF o.r \in {"full", "failed"} THEN faults + 1 ELSE faults
        /\ faults' <= MaxFaults
        /\ timers' = Push(u, i, timers)
        /\ IF o.r = "failed"
           THEN \E d \in Ended(v) : /\ conns' = [conns EXCEPT ![i] = After(d, Marked(v))]
                                    /\ dirty' = MarkedList(v, i, list)
           ELSE conns' = [conns EXCEPT ![i] = v] /\ dirty' = list

-----------------------------------------------------------------------------
(* The rounds of Worker::run. *)

(* The clock, and the datagrams. *)
Tick ==
  /\ at = "poll" /\ now < MaxTime
  /\ now' = now + 1
  /\ UNCHANGED <<conns, timers, dirty, readable, next_keepalive, at, faults>>

Receive(i) ==
  /\ at = "poll" /\ conns[i].state # "vacant" /\ i \notin readable
  /\ readable' = readable \cup {i}
  /\ UNCHANGED <<now, conns, timers, dirty, next_keepalive, at, faults>>

(* poll returns for a socket or at next_wakeup: the keepalive, or the top of
   the heap if that is sooner. *)
Due(t) == \E e \in Entries(timers) : e[1] <= t

Wake ==
  /\ at = "poll" /\ (readable # {} \/ next_keepalive <= now \/ Due(now))
  /\ at' = "read"
  /\ UNCHANGED <<now, conns, timers, dirty, readable, next_keepalive, faults>>

(* poll also returns for a command of the main thread, or for a signal. *)
WakeEarly ==
  /\ at = "poll"
  /\ at' = "read"
  /\ UNCHANGED <<now, conns, timers, dirty, readable, next_keepalive, faults>>

(* on_readable: quiche is handed the datagrams, and process follows, also when
   there were none or the socket failed. *)
OnReadable(i) ==
  LET c == conns[i] IN
  /\ at = "read" /\ i \in readable
  /\ readable' = readable \ {i}
  /\ IF c.state = "vacant" THEN UNCHANGED <<conns, dirty>>
     ELSE /\ dirty' = MarkedList(c, i, dirty)
          /\ \/ \E t \in Timeouts, u \in BOOLEAN :
                  LET e == [c EXCEPT !.timeout = t, !.unsent = u, !.last_active = now]
                  IN  \E d \in Processed(e) \cup Ended(e) :
                        conns' = [conns EXCEPT ![i] = After(d, Marked(c))]
             \/ \E d \in {c} \cup Ended(c) :
                  conns' = [conns EXCEPT ![i] = After(d, Marked(c))]
  /\ UNCHANGED <<now, timers, next_keepalive, at, faults>>

ReadDone ==
  /\ at = "read" /\ readable = {}
  /\ at' = "timers"
  /\ UNCHANGED <<now, conns, timers, dirty, readable, next_keepalive, faults>>

(* fire_timers, for the earliest entry: it may be stale (its connection gone,
   replaced or waiting for another), early (the deadline has moved on), the
   end of a dial, or quiche's. *)
Top(e) == e \in Entries(timers) /\ \A f \in Entries(timers) : e[1] <= f[1]

FireTimer(e) ==
  LET i == e[2]
      c == conns[i]
      u == [c EXCEPT !.scheduled = None]
      heap == Popped(timers, e)
      stale == c.state = "vacant" \/ c.scheduled # e[1]
      due == c.deadline # None /\ c.deadline <= now
      expired == c.state = "connecting" /\ c.attempt_deadline <= now IN
  /\ at = "timers" /\ Top(e) /\ e[1] <= now
  /\ \/ stale /\ timers' = heap /\ UNCHANGED <<conns, dirty>>
     \/ /\ ~stale /\ ~due
        /\ timers' = Push(u, i, heap)
        /\ conns' = [conns EXCEPT ![i] = Schedule(u)]
        /\ UNCHANGED dirty
     \/ /\ ~stale /\ due /\ expired
        /\ timers' = heap
        /\ \E d \in Ended(u) : conns' = [conns EXCEPT ![i] = d]
        /\ UNCHANGED dirty
     \/ /\ ~stale /\ due /\ ~expired
        /\ timers' = heap
        /\ dirty' = MarkedList(u, i, dirty)
        /\ \E t \in Timeouts, s \in BOOLEAN :
             LET v == [u EXCEPT !.timeout = t, !.unsent = s]
             IN  \E d \in {v} \cup Ended(v) : conns' = [conns EXCEPT ![i] = After(d, Marked(u))]
  /\ UNCHANGED <<now, readable, next_keepalive, at, faults>>

TimersDone ==
  /\ at = "timers" /\ ~Due(now)
  /\ at' = "drive"
  /\ UNCHANGED <<now, conns, timers, dirty, readable, next_keepalive, faults>>

(* fire_retries and drive: a connection is dialed, and flushed at once, or a
   request is sent on one. *)
Dial(i) ==
  /\ at = "drive" /\ ~Live(conns[i]) /\ Size(timers) < MaxTimers
  /\ Flush(i, Fresh, dirty)
  /\ UNCHANGED <<now, readable, next_keepalive, at>>

Send(i) ==
  LET c == conns[i] IN
  /\ at = "drive" /\ c.state = "ready" /\ ~c.open
  /\ \E t \in Timeouts :
       conns' = [conns EXCEPT ![i] = [Marked(c) EXCEPT !.open = TRUE, !.unsent = TRUE,
                                                       !.timeout = t]]
  /\ dirty' = MarkedList(c, i, dirty)
  /\ UNCHANGED <<now, timers, readable, next_keepalive, at, faults>>

DriveDone ==
  /\ at = "drive"
  /\ at' = "keepalive"
  /\ UNCHANGED <<now, conns, timers, dirty, readable, next_keepalive, faults>>

(* keepalive. *)
Quiet(c) == c.state = "ready" /\ ~c.open

(* Slips of keepalive: a connection is quiet for longer before it is pinged; the
   one that is pinged is not put on the list. *)
PingedLate(i) == Quiet(conns[i]) /\ now - conns[i].last_active > KeepAlive

Pinged(i) == Quiet(conns[i]) /\ now - conns[i].last_active >= KeepAlive

KeepaliveUnlisted ==
  /\ at = "keepalive"
  /\ IF now < next_keepalive THEN UNCHANGED <<conns, next_keepalive>>
     ELSE /\ next_keepalive' = now + Second
          /\ conns' = [i \in Slots |-> IF Pinged(i) THEN [Marked(conns[i]) EXCEPT !.unsent = TRUE]
                                       ELSE conns[i]]
  /\ at' = "flush"
  /\ UNCHANGED <<now, timers, readable, faults, dirty>>

Keepalive ==
  /\ at = "keepalive"
  /\ IF now < next_keepalive THEN UNCHANGED <<conns, dirty, next_keepalive>>
     ELSE /\ next_keepalive' = now + Second
          /\ conns' = [i \in Slots |-> IF Pinged(i) THEN [Marked(conns[i]) EXCEPT !.unsent = TRUE]
                                       ELSE conns[i]]
          /\ \E count \in 0..NumSlots : \E list \in [1..count -> Slots] :
               /\ Range(list) = {i \in Slots : Pinged(i) /\ ~conns[i].dirty}
               /\ \A m, n \in DOMAIN list : m < n => list[m] < list[n]
               /\ dirty' = dirty \o list
  /\ at' = "flush"
  /\ UNCHANGED <<now, timers, readable, faults>>

(* flush_dirty. *)
FlushNext ==
  LET i == dirty[Len(dirty)]
      rest == SubSeq(dirty, 1, Len(dirty) - 1) IN
  /\ at = "flush" /\ dirty # <<>>
  /\ IF conns[i].dirty THEN Flush(i, conns[i], rest)
     ELSE dirty' = rest /\ UNCHANGED <<conns, timers, faults>>
  /\ UNCHANGED <<now, readable, next_keepalive, at>>

FlushDone ==
  /\ at = "flush" /\ dirty = <<>>
  /\ at' = "poll"
  /\ UNCHANGED <<now, conns, timers, dirty, readable, next_keepalive, faults>>

(* The bound on the clock is where a behaviour may stay. *)
EndOfTime == at = "poll" /\ now = MaxTime /\ UNCHANGED vars

Round ==
  \/ Wake \/ ReadDone \/ TimersDone \/ DriveDone \/ Keepalive \/ FlushNext \/ FlushDone
  \/ \E i \in Slots : OnReadable(i)
  \/ \E e \in Entries(timers) : FireTimer(e)

Next ==
  \/ Tick \/ WakeEarly \/ Round \/ EndOfTime
  \/ \E i \in Slots : Receive(i) \/ Dial(i) \/ Send(i)

Spec == Init /\ [][Next]_vars

(* The clock runs to its bound, and the thread takes the steps it can; nothing
   but a socket or a timer is sure to wake it. *)
FairSpec == Spec /\ WF_vars(Tick) /\ WF_vars(Round)

-----------------------------------------------------------------------------
(* Properties. *)

Conn ==
  [state : {"vacant", "connecting", "ready", "broken"}, timeout : Instants,
   attempt_deadline : Instants, deadline : Instants, scheduled : Instants,
   dirty : BOOLEAN, last_active : Times, unsent : BOOLEAN, left : BOOLEAN, open : BOOLEAN]

(* Every instant is within reach of the clock, and the heap, the list and the
   sockets name slots. *)
TypeOK ==
  /\ now \in 1..MaxTime
  /\ conns \in [Slots -> Conn]
  /\ IsAHeap(timers) /\ Entries(timers) \subseteq Times \X Slots
  /\ dirty \in Seq(Slots)
  /\ readable \subseteq Slots
  /\ next_keepalive \in Times
  /\ at \in {"poll", "read", "timers", "drive", "keepalive", "flush"}
  /\ faults \in 0..MaxFaults

On(i, list) == \E n \in DOMAIN list : list[n] = i

(* A marked connection is on the list, which is empty when the loop polls. *)
Listed ==
  /\ at = "poll" => dirty = <<>>
  /\ \A i \in Slots : conns[i].dirty => On(i, dirty)

(* One that is not marked has nothing to send, its deadline is the one quiche
   and the dial want now, and it waits for an entry that comes no later. *)
Settled(c) ==
  /\ c.state = "vacant" => ~c.dirty /\ c.scheduled = None
  /\ Live(c) /\ ~c.dirty =>
       /\ ~c.unsent
       /\ c.deadline = Deadline(c)
       /\ Deadline(c) # None => c.scheduled # None /\ c.scheduled <= c.deadline

(* And the entry a connection waits for is in the heap. *)
Armed ==
  \A i \in Slots :
    /\ Settled(conns[i])
    /\ conns[i].scheduled # None => <<conns[i].scheduled, i>> \in Entries(timers)

(* A quiet connection was active lately or is about to be pinged. *)
Warm ==
  /\ next_keepalive <= now + Second
  /\ faults = 0 =>
       \A i \in Slots : Quiet(conns[i]) =>
         \/ next_keepalive - conns[i].last_active < KeepAlive + Second
         \/ at = "flush" /\ conns[i].dirty /\ conns[i].unsent

TInv == TypeOK /\ Listed /\ Armed /\ Warm

(* When the loop polls, the heap wakes it in time for every connection it has
   to wake for: the deadline is the one quiche and the dial want now, and an
   entry the connection waits for comes no later.  Neither a stale entry nor
   a moved deadline loses a timer.  And the invariant holds that this and the
   next two properties rest on. *)
TimersArmed ==
  /\ TInv
  /\ at = "poll" =>
       \A i \in Slots :
         LET c == conns[i] IN
         Live(c) /\ Deadline(c) # None =>
           /\ c.deadline = Deadline(c)
           /\ c.scheduled # None /\ c.scheduled <= c.deadline
           /\ <<c.scheduled, i>> \in Entries(timers)

(* A connection that was marked is on the list, and when the loop polls none is
   left marked, or with packets that no flush has come to: mark_dirty and
   flush_dirty agree whatever is replaced in between.  Only what a send was refused
   for is still in quiche then, without a mark: "its loss recovery sends it again"
   (engine.rs, line 1036), or the next flush of the connection. *)
NothingUnflushed ==
  /\ \A i \in Slots : conns[i].dirty => \E n \in DOMAIN dirty : dirty[n] = i
  /\ at = "poll" => \A i \in Slots : ~conns[i].dirty /\ ~(Live(conns[i]) /\ conns[i].unsent)
  /\ faults = 0 => \A i \in Slots : ~conns[i].left

(* The next keepalive comes less than the keepalive time and a second after
   a quiet connection's last packet, as long as no send was refused. *)
QuietIsPinged ==
  at = "poll" /\ faults = 0 =>
    \A i \in Slots : Quiet(conns[i]) =>
      next_keepalive - conns[i].last_active < KeepAlive + Second

(* A dial attempt ends once its time is up. *)
AttemptsEnd ==
  \A i \in Slots :
    []<>~(conns[i].state = "connecting" /\ conns[i].attempt_deadline <= now)
=============================================================================
