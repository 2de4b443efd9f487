------------------------------- MODULE Split --------------------------------
(***************************************************************************)
(* How main.rs divides a total over the worker threads.                    *)
(***************************************************************************)
EXTENDS Naturals, FiniteSets

(* f[1] + ... + f[n], as the number of pairs with a first component in 1..n
   and f[i] second components for the first component i. *)
Total(f, n) == Cardinality(UNION {{i} \X (1..f[i]) : i \in 1..n})

(* split: n parts that differ by at most one. *)
SplitEven(total, n) ==
  [i \in 1..n |-> (total * i) \div n - (total * (i - 1)) \div n]

(* split_by: in proportion to holds, a function on 1..n.  What the divisions
   leave over goes, one each, to the first workers that hold more. *)
SplitBy(total, holds, n) ==
  LET sum == Total(holds, n)
      capped == IF total < sum THEN total ELSE sum
      parts == [i \in 1..n |-> (capped * holds[i]) \div sum]
      left == capped - Total(parts, n)
      short == {i \in 1..n : parts[i] < holds[i]}
      extra(i) == i \in short /\ Cardinality({j \in short : j < i}) < left
  IN  IF sum = 0 THEN [i \in 1..n |-> 0]
      ELSE [i \in 1..n |-> IF extra(i) THEN parts[i] + 1 ELSE parts[i]]
=============================================================================
