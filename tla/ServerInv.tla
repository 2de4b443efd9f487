----------------------------- MODULE ServerInv ------------------------------
(***************************************************************************)
(* The inductive invariant of the server's worker.                         *)
(***************************************************************************)
EXTENDS Server

(* read_socket: what is in a socket's buffer is on a list of the worker or will
   be reported, also in the middle of a round. *)
UnreadInv ==
  /\ \A s \in Sockets : queued[s] > 0 => s \in edge \cup Range(unread) \cup Range(todo)
  /\ at # "read" => todo = <<>>
  /\ \A s \in Sockets : queued[s] <= arrivals

(* flush, fire_timers and remove, of a connection: its scheduled is in the heap,
   and unless it will be flushed in this round it is alive and its timer set. *)
ClientInv(c, i) ==
  /\ ~c.some => c = NoClient
  /\ c.scheduled # None => <<c.scheduled, i>> \in Entries(timers)
  /\ c.some /\ ~c.dirty =>
       /\ ~c.closed /\ c.deadline = c.timeout
       /\ c.deadline # None => c.scheduled # None /\ c.scheduled <= c.deadline

(* The state of the worker between any two steps: the lists of slots and IDs
   are exact, every connection's timer is armed or will be, and no socket is
   forgotten.  It is inductive. *)
SInv ==
  /\ TypeOK /\ IdsExact /\ FreeExact /\ DirtyExact /\ UnreadInv
  /\ at = "poll" => dirty = <<>>
  /\ \A i \in Slots : ClientInv(clients[i], i)
=============================================================================
