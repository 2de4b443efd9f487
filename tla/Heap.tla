-------------------------------- MODULE Heap --------------------------------
(***************************************************************************)
(* The BinaryHeap both programs keep their timers in: how often each entry *)
(* is in it.  An entry may be in the heap more than once.  Which entry is  *)
(* popped, one with the earliest time, is the caller's to say.             *)
(***************************************************************************)
EXTENDS Integers, Functions

EmptyHeap == [e \in {} |-> 0]

Entries(heap) == DOMAIN heap

Size(heap) == FoldFunction(+, 0, heap)

Pushed(heap, e) ==
  [f \in DOMAIN heap \cup {e} |->
     IF f \notin DOMAIN heap THEN 1 ELSE IF f = e THEN heap[f] + 1 ELSE heap[f]]

Popped(heap, e) ==
  [f \in {g \in DOMAIN heap : g # e \/ heap[g] > 1} |-> IF f = e THEN heap[f] - 1 ELSE heap[f]]

IsAHeap(heap) == heap \in [DOMAIN heap -> Nat \ {0}]
=============================================================================
