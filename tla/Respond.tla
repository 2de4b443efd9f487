------------------------------ MODULE Respond ------------------------------
(***************************************************************************)
(* What the quiche server does with the requests of one connection         *)
(* (process, respond and resume of frameworks/quiche/src/server.rs): it    *)
(* gathers their bodies as h3 reports them, answers each one that arrived  *)
(* whole, and keeps what does not fit in the stream's window for a later   *)
(* call.                                                                   *)
(*                                                                         *)
(* A byte of a request is the pair of its stream and its place.  A stream  *)
(* carries headers, bytes, perhaps trailers, and the end, as items that    *)
(* arrive in order; each item may be reported in a call of its own.  The   *)
(* window of a stream counts headers as one byte.  The responses that wait *)
(* are kept by stream: those of two streams share nothing, so the order    *)
(* they are resumed in is left open.                                       *)
(***************************************************************************)
EXTENDS Integers, Sequences, FiniteSets

CONSTANTS
  Sids,       \* the streams of the requests
  MAX_BODY,
  Requests,   \* the requests a client may make on them, at most one each
  MaxFaults   \* a bound on the resets, refusals and failures

ASSUME RespondAssumption ==
  /\ MAX_BODY \in Nat \ {0} /\ MaxFaults \in Nat /\ IsFiniteSet(Sids)
  /\ \A r \in Requests : r \in [Sids -> [echo : BOOLEAN, len : Nat, trailers : BOOLEAN]]

VARIABLES
  req,        \* the requests the client makes
  arrived,    \* how many items of each stream quiche has received
  read,       \* how many of them h3 has reported
  reset,      \* whether the client reset a stream, and h3 reported it
  stopped,    \* the streams whose response the client refused
  window,     \* the bytes each stream may carry in all
  out,        \* what the response streams carry
  established, h3, broken,
  reqs,
  pending,    \* the responses that wait, for each stream
  left,       \* of pending, what resume has still to see
  step

net == <<arrived, reset, stopped, window, established>>
respondVars == <<req, net, read, out, h3, broken, reqs, pending, left, step>>

Text == << <<"text", 0>> >>  \* the body of every error
MaxWindow == MAX_BODY + 1    \* the headers and the longest response
NoneYet == [sid \in Sids |-> <<>>]
NoReq == [some |-> FALSE, echo |-> FALSE, body |-> <<>>, too_large |-> FALSE]
Request(echo, body, too_large) ==
  [some |-> TRUE, echo |-> echo, body |-> body, too_large |-> too_large]

Items(sid) == req[sid].len + (IF req[sid].trailers THEN 3 ELSE 2)
Byte(sid, k) == <<sid, k>>

(* The item h3 reports next. *)
Kind(sid) ==
  LET k == read[sid] + 1 IN
  CASE k = 1 -> "headers"
    [] k = Items(sid) -> "fin"
    [] k > req[sid].len + 1 /\ k # Items(sid) -> "trailers"
    [] OTHER -> "data"

Readable(sid) ==
  h3 /\ ~broken /\ reset[sid] = "no" /\ read[sid] < arrived[sid]

RespondInit ==
  /\ req \in Requests
  /\ arrived = [sid \in Sids |-> 0] /\ read = [sid \in Sids |-> 0]
  /\ reset = [sid \in Sids |-> "no"] /\ stopped = {}
  /\ window = [sid \in Sids |-> 0]
  /\ out = [sid \in Sids |-> [headers |-> 0, status |-> 0, body |-> <<>>, fin |-> FALSE]]
  /\ established = FALSE /\ h3 = FALSE /\ broken = FALSE
  /\ reqs = [sid \in Sids |-> NoReq] /\ pending = NoneYet /\ left = NoneYet
  /\ step = "idle"

(* The streams that were reset or refused, and the failure of h3. *)
Faults ==
  Cardinality({sid \in Sids : reset[sid] # "no"}) + Cardinality(stopped) + (IF broken THEN 1 ELSE 0)

-----------------------------------------------------------------------------
(* What a datagram brings; process follows it. *)

Frame ==
  /\ step \in {"idle", "frames"} /\ step' = "frames"
  /\ UNCHANGED <<req, read, out, h3, broken, reqs, pending, left>>

Establish ==
  Frame /\ ~established /\ established' = TRUE /\ UNCHANGED <<arrived, reset, stopped, window>>

Deliver(sid) ==
  /\ Frame /\ established
  /\ \E k \in (arrived[sid] + 1)..Items(sid) : arrived' = [arrived EXCEPT ![sid] = k]
  /\ UNCHANGED <<reset, stopped, window, established>>

Reset(sid) ==
  /\ Frame /\ arrived[sid] > 0 /\ reset[sid] = "no" /\ Faults < MaxFaults
  /\ reset' = [reset EXCEPT ![sid] = "sent"]
  /\ UNCHANGED <<arrived, stopped, window, established>>

Stop(sid) ==
  /\ Frame /\ arrived[sid] > 0 /\ sid \notin stopped /\ Faults < MaxFaults
  /\ stopped' = stopped \cup {sid}
  /\ UNCHANGED <<arrived, reset, window, established>>

Open(sid) ==
  /\ Frame /\ window[sid] < MaxWindow
  /\ \E w \in (window[sid] + 1)..MaxWindow : window' = [window EXCEPT ![sid] = w]
  /\ UNCHANGED <<arrived, reset, stopped, established>>

-----------------------------------------------------------------------------
(* The loop of process. *)

(* h3 starts with the first call after the handshake, unless it fails to. *)
Process ==
  /\ step = "frames"
  /\ \/ h3' = (h3 \/ established) /\ step' = IF h3' THEN "poll" ELSE "idle"
     \/ ~h3 /\ established /\ h3' = FALSE /\ step' = "idle"
  /\ UNCHANGED <<req, net, read, out, broken, reqs, pending, left>>

OnHeaders(sid) ==
  /\ step = "poll" /\ Readable(sid) /\ Kind(sid) \in {"headers", "trailers"}
  /\ read' = [read EXCEPT ![sid] = @ + 1]
  /\ reqs' = [reqs EXCEPT ![sid] =
                Request(Kind(sid) = "headers" /\ req[sid].echo, <<>>, FALSE)]
  /\ UNCHANGED <<req, net, out, h3, broken, pending, left, step>>

(* Slip of process: a body at the limit is cut there and echoed. *)
GatheredCut(r, piece) ==
  IF Len(r.body) + Len(piece) > MAX_BODY THEN r ELSE [r EXCEPT !.body = @ \o piece]

(* A request with a piece of its body that recv_body read. *)
Gathered(r, piece) ==
  IF ~r.some THEN r
  ELSE IF Len(r.body) + Len(piece) > MAX_BODY THEN [r EXCEPT !.too_large = TRUE]
  ELSE IF r.too_large THEN r ELSE [r EXCEPT !.body = @ \o piece]

OnData(sid) ==
  /\ step = "poll" /\ Readable(sid) /\ Kind(sid) = "data"
  /\ \E n \in (read[sid] + 1)..arrived[sid] :
       /\ n <= req[sid].len + 1
       /\ read' = [read EXCEPT ![sid] = n]
       /\ reqs' = [reqs EXCEPT ![sid] =
                     Gathered(@, [k \in 1..(n - read[sid]) |-> Byte(sid, read[sid] + k - 1)])]
  /\ UNCHANGED <<req, net, out, h3, broken, pending, left, step>>

(* resume, for a stream that carries o and has room: whether anything is left
   of the response, and how far it and the stream are. *)
Resumed(p, o, room) ==
  LET h == IF p.headers THEN 1 ELSE 0
      rest == Len(p.body) - p.off
      n == IF room - h < rest THEN room - h ELSE rest IN
  IF room < h THEN [keep |-> TRUE, p |-> p, o |-> o]
  ELSE [keep |-> n < rest,
        p |-> [p EXCEPT !.headers = FALSE, !.off = @ + n],
        o |-> [headers |-> o.headers + h, status |-> p.status,
               body |-> o.body \o SubSeq(p.body, p.off + 1, p.off + n), fin |-> n = rest]]

Room(sid) == window[sid] - out[sid].headers - Len(out[sid].body)

(* resume, with the error of a stream that the client stopped. *)
Resume(p) ==
  IF p.stream \in stopped THEN [keep |-> FALSE, p |-> p, o |-> out[p.stream]]
  ELSE Resumed(p, out[p.stream], Room(p.stream))

Answer(sid, r) ==
  LET status == IF r.too_large THEN 413 ELSE IF r.echo THEN 200 ELSE 404 IN
  [stream |-> sid, headers |-> TRUE, status |-> status, off |-> 0,
   body |-> IF status = 200 THEN r.body ELSE Text]

(* Slip of respond: what does not fit is dropped. *)
OnFinishedDrops(sid) ==
  /\ step = "poll" /\ Readable(sid) /\ Kind(sid) = "fin"
  /\ read' = [read EXCEPT ![sid] = @ + 1]
  /\ reqs' = [reqs EXCEPT ![sid] = NoReq]
  /\ out' = [out EXCEPT ![sid] = Resume(Answer(sid, reqs[sid])).o]
  /\ UNCHANGED <<req, net, h3, broken, pending, left, step>>

(* The request's end, with respond. *)
OnFinished(sid) ==
  /\ step = "poll" /\ Readable(sid) /\ Kind(sid) = "fin"
  /\ read' = [read EXCEPT ![sid] = @ + 1]
  /\ reqs' = [reqs EXCEPT ![sid] = NoReq]
  /\ IF reqs[sid].some
     THEN LET x == Resume(Answer(sid, reqs[sid])) IN
          /\ out' = [out EXCEPT ![sid] = x.o]
          /\ pending' = [pending EXCEPT ![sid] = IF x.keep THEN Append(@, x.p) ELSE @]
     ELSE UNCHANGED <<out, pending>>
  /\ UNCHANGED <<req, net, h3, broken, left, step>>

(* Slip of process: a reset stream keeps its response. *)
OnResetKeeps(sid) ==
  /\ step = "poll" /\ h3 /\ ~broken /\ reset[sid] = "sent"
  /\ reset' = [reset EXCEPT ![sid] = "told"]
  /\ reqs' = [reqs EXCEPT ![sid] = NoReq]
  /\ UNCHANGED <<req, arrived, stopped, window, established, read, out, h3, broken, pending,
                 left, step>>

OnReset(sid) ==
  /\ step = "poll" /\ h3 /\ ~broken /\ reset[sid] = "sent"
  /\ reset' = [reset EXCEPT ![sid] = "told"]
  /\ reqs' = [reqs EXCEPT ![sid] = NoReq]
  /\ pending' = [pending EXCEPT ![sid] = <<>>]
  /\ UNCHANGED <<req, arrived, stopped, window, established, read, out, h3, broken, left, step>>

(* h3 has nothing more to report, or fails for good. *)
PollDone ==
  /\ step = "poll"
  /\ \/ /\ \A sid \in Sids : ~Readable(sid) /\ (broken \/ reset[sid] # "sent")
        /\ UNCHANGED broken
     \/ ~broken /\ Faults < MaxFaults /\ broken' = TRUE
  /\ left' = pending /\ pending' = NoneYet /\ step' = "resume"
  /\ UNCHANGED <<req, net, read, out, h3, reqs>>

(* The responses that wait, each once. *)
ResumeNext(sid) ==
  /\ step = "resume" /\ left[sid] # <<>>
  /\ LET x == Resume(Head(left[sid])) IN
     /\ out' = [out EXCEPT ![sid] = x.o]
     /\ pending' = [pending EXCEPT ![sid] = IF x.keep THEN Append(@, x.p) ELSE @]
  /\ left' = [left EXCEPT ![sid] = Tail(@)]
  /\ UNCHANGED <<req, net, read, h3, broken, reqs, step>>

ProcessDone ==
  /\ step = "resume" /\ left = NoneYet
  /\ step' = "idle"
  /\ UNCHANGED <<req, net, read, out, h3, broken, reqs, pending, left>>

Step ==
  \/ Process \/ PollDone \/ ProcessDone
  \/ \E sid \in Sids :
       OnHeaders(sid) \/ OnData(sid) \/ OnFinished(sid) \/ OnReset(sid) \/ ResumeNext(sid)

RespondNext ==
  \/ Step \/ Establish
  \/ \E sid \in Sids : Deliver(sid) \/ Reset(sid) \/ Stop(sid) \/ Open(sid)

RespondSpec == RespondInit /\ [][RespondNext]_respondVars

(* The server runs, and the client reads its responses: it opens the windows. *)
RespondFairSpec ==
  /\ RespondSpec /\ WF_respondVars(Step)
  /\ \A sid \in Sids : SF_respondVars(Open(sid))

-----------------------------------------------------------------------------
(* Properties. *)

Prefix(sid, n) == [k \in 1..n |-> Byte(sid, k)]

RequestBody(sid) == Prefix(sid, req[sid].len)

Expected(sid) ==
  IF req[sid].len > MAX_BODY THEN 413 ELSE IF req[sid].echo THEN 200 ELSE 404

ExpectedBody(sid) == IF Expected(sid) = 200 THEN RequestBody(sid) ELSE Text

Whole(sid) == read[sid] = Items(sid)

(* The response to a request; one with trailers begins anew with them. *)
RightStatus(sid) == IF req[sid].trailers THEN 404 ELSE Expected(sid)
RightBody(sid) == IF RightStatus(sid) = 200 THEN RequestBody(sid) ELSE Text

(* What each variable may hold. *)
ByStream(f) == f = [sid \in Sids |-> f[sid]]

RespondTypeOK ==
  /\ req \in Requests
  /\ arrived \in [Sids -> Nat] /\ read \in [Sids -> Nat] /\ window \in [Sids -> 0..MaxWindow]
  /\ \A sid \in Sids : arrived[sid] <= Items(sid) /\ read[sid] <= arrived[sid]
  /\ reset \in [Sids -> {"no", "sent", "told"}] /\ stopped \subseteq Sids
  /\ {established, h3, broken} \subseteq BOOLEAN
  /\ ByStream(out) /\ ByStream(reqs) /\ ByStream(pending) /\ ByStream(left)
  /\ step \in {"idle", "frames", "poll", "resume"}

(* A request being read: its headers, and the body until it gets too large. *)
Reading(sid) == read[sid] > 0 /\ ~Whole(sid) /\ reset[sid] # "told"

HeldOf(sid) ==
  \/ ~Reading(sid) /\ reqs[sid] = NoReq
  \/ Reading(sid) /\ read[sid] > req[sid].len + 1 /\ reqs[sid] = Request(FALSE, <<>>, FALSE)
  \/ /\ Reading(sid) /\ read[sid] <= req[sid].len + 1
     /\ \E n \in 0..MAX_BODY :
          /\ read[sid] <= MAX_BODY + 1 => n = read[sid] - 1
          /\ reqs[sid] = Request(req[sid].echo, Prefix(sid, n), read[sid] > MAX_BODY + 1)

(* A response stream: nothing, or the headers and the first bytes of the right
   response, and its end with the last one. *)
Unsent == [headers |-> 0, status |-> 0, body |-> <<>>, fin |-> FALSE]
Sent(st, body, n) ==
  [headers |-> 1, status |-> st, body |-> SubSeq(body, 1, n), fin |-> n = Len(body)]

SentOf(sid) ==
  /\ Room(sid) >= 0
  /\ \/ out[sid] = Unsent
     \/ /\ Whole(sid)
        /\ \E n \in 0..Len(RightBody(sid)) :
             out[sid] = Sent(RightStatus(sid), RightBody(sid), n)

(* The rest of a response waits once, and where it is owed. *)
Wait(sid, h, st, n, body) ==
  [stream |-> sid, headers |-> h, status |-> st, off |-> n, body |-> body]
Rest(sid) ==
  Wait(sid, out[sid].headers = 0, RightStatus(sid), Len(out[sid].body), RightBody(sid))

WaitingOf(sid) ==
  /\ pending[sid] \in {<<>>, <<Rest(sid)>>} /\ left[sid] \in {<<>>, <<Rest(sid)>>}
  /\ pending[sid] = <<>> \/ left[sid] = <<>>
  /\ left[sid] # <<>> => step = "resume"
  /\ pending[sid] # <<>> \/ left[sid] # <<>> =>
       Whole(sid) /\ reset[sid] # "told" /\ ~out[sid].fin
  /\ Whole(sid) /\ reset[sid] = "no" /\ sid \notin stopped /\ ~out[sid].fin =>
       pending[sid] # <<>> \/ left[sid] # <<>>

RInv == RespondTypeOK /\ \A sid \in Sids : HeldOf(sid) /\ SentOf(sid) /\ WaitingOf(sid)

(* However the body arrives and whenever the window opens, a response stream
   carries a prefix of the one right response: the body of its own request when
   it is an echo within MAX_BODY, after the headers, and ends with its last
   byte.  Nothing is sent before the request is whole.  (A request with
   trailers begins anew with them.) *)
ResponseIsRight ==
  \A sid \in Sids :
    LET o == out[sid] IN
    /\ o.status # 0 => Whole(sid)
    /\ o.headers = 0 => o.body = <<>> /\ ~o.fin
    /\ ~req[sid].trailers =>
         /\ o.status \in {0, Expected(sid)}
         /\ o.status # 0 =>
              \E n \in 0..Len(ExpectedBody(sid)) : o.body = SubSeq(ExpectedBody(sid), 1, n)
         /\ o.fin => o.body = ExpectedBody(sid)

(* Between two calls the server holds what it still owes and no more: the rest
   of a response waits once, from where its stream stopped, until the stream
   ends, and a request that was reset, or answered, leaves nothing.  And the
   invariant holds that both properties rest on. *)
OwedExactly ==
  /\ RInv
  /\ step = "idle" =>
       \A sid \in Sids :
         LET waiting == pending[sid] IN
         /\ reqs[sid].some => ~Whole(sid) /\ reset[sid] # "told" /\ waiting = <<>>
         /\ Len(waiting) <= 1
         /\ waiting # <<>> => Whole(sid) /\ reset[sid] # "told" /\ ~out[sid].fin
         /\ Whole(sid) /\ reset[sid] = "no" /\ sid \notin stopped /\ ~out[sid].fin
              => waiting # <<>>
         /\ \A k \in 1..Len(waiting) :
              LET p == waiting[k] IN
              p.off = Len(out[sid].body) /\ (p.headers <=> out[sid].headers = 0)

(* A request that arrived whole is answered to the end, if the client wants the
   response and the connection works. *)
Answered ==
  \A sid \in Sids :
    Whole(sid) ~> out[sid].fin \/ reset[sid] # "no" \/ sid \in stopped
=============================================================================
