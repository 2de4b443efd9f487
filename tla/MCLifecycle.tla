---------------------------- MODULE MCLifecycle -----------------------------
EXTENDS Lifecycle
Setup(role, matrix, combos, left, stale) ==
  [role |-> role, matrix |-> matrix, combos |-> combos, left |-> left, stale |-> stale]
(* The drivers on one machine and on the nodes of two. *)
MCSetups ==
  {Setup("both", FALSE, 1, {1, 2}, {1, 2}), Setup("both", TRUE, 2, {1}, {1}),
   Setup("client", FALSE, 1, 1..N, 1..N), Setup("client", TRUE, 2, 1..N, 1..N),
   Setup("server", FALSE, 1, {}, {1}), Setup("server", TRUE, 1, {1, 2}, {})}
=============================================================================
