----------------------------- MODULE MCRespond -----------------------------
EXTENDS Respond, TLC

Echo(len) == [echo |-> TRUE, len |-> len, trailers |-> FALSE]

(* An echo of any length within the limit or beyond, one with trailers, or
   another path; beside it an echo of one byte. *)
MCRequests ==
  {(0 :> r) @@ (4 :> Echo(1)) :
     r \in {Echo(len) : len \in 0..(MAX_BODY + 1)}
           \cup {[Echo(MAX_BODY) EXCEPT !.trailers = TRUE], [Echo(1) EXCEPT !.echo = FALSE]}}
=============================================================================
