---------------------------- MODULE ServerProofs ----------------------------
(***************************************************************************)
(* The safety of the quiche server: of the requests of a connection        *)
(* (Respond), and of the worker that serves the connections (Server). The  *)
(* two parts use nothing of each other.                                    *)
(***************************************************************************)
EXTENDS ServerInv, Respond, TLAPS

-----------------------------------------------------------------------------
(***************************************************************************)
(* Each response of the quiche server is the right one, sent once and in   *)
(* order, and the server holds exactly what it owes, for any requests on   *)
(* any number of streams and any MAX_BODY (Respond).  The inductive        *)
(* invariant RInv says of every stream what request the server holds, what *)
(* the response stream carries and what waits; a step touches one stream.  *)
(***************************************************************************)

-----------------------------------------------------------------------------
(* Bodies. *)

Bytes == {<<"text", 0>>} \cup (Sids \X Nat)

Joined(S, s, t, a, b) ==
  /\ s \o t \in Seq(S) /\ Len(s \o t) = a + b
  /\ \A k \in 1..(a + b) : (s \o t)[k] = IF k <= a THEN s[k] ELSE t[k - a]

(* The elements of two sequences joined. *)
LEMMA Concat ==
  ASSUME NEW S, NEW s \in Seq(S), NEW t \in Seq(S), NEW a \in Nat, NEW b \in Nat,
         Len(s) = a, Len(t) = b
  PROVE  Joined(S, s, t, a, b)
  BY DEF Joined

(* Two sequences with the same elements are the same. *)
LEMMA SeqEqual ==
  ASSUME NEW S, NEW s \in Seq(S), NEW t \in Seq(S), Len(s) = Len(t),
         \A k \in 1..Len(s) : s[k] = t[k]
  PROVE  s = t
  OBVIOUS

(* The first n bytes of a request's body. *)
LEMMA PrefixIn ==
  ASSUME NEW sid \in Sids, NEW n \in Nat
  PROVE  Prefix(sid, n) \in Seq(Bytes) /\ Len(Prefix(sid, n)) = n
<1>1. \A k \in 1..n : Byte(sid, k) \in Bytes
  BY DEF Byte, Bytes
<1> HIDE DEF Bytes
<1> QED
  BY <1>1 DEF Prefix

(* A piece that follows the first bytes makes them more. *)
Grows(sid, a, b, piece) ==
  Prefix(sid, a) \o piece = Prefix(sid, a + b) /\ Len(piece) = b

(* A piece of the body joined to the bytes before it is a longer prefix. *)
LEMMA PrefixGrows ==
  ASSUME NEW sid \in Sids, NEW a \in Nat, NEW b \in Nat, NEW piece,
         piece = [k \in 1..b |-> Byte(sid, a + k)]
  PROVE  Grows(sid, a, b, piece)
<1>1. \A k \in 1..b : Byte(sid, a + k) \in Bytes
  BY DEF Byte, Bytes
<1> HIDE DEF Bytes
<1>2. piece \in Seq(Bytes) /\ Len(piece) = b
  BY <1>1
<1> DEFINE s == Prefix(sid, a)
           t == s \o piece
           u == Prefix(sid, a + b)
<1>3. s \in Seq(Bytes) /\ Len(s) = a /\ u \in Seq(Bytes) /\ Len(u) = a + b
  BY PrefixIn
<1>4. \A k \in 1..a : s[k] = Byte(sid, k)
  BY DEF Prefix
<1>5. \A k \in 1..(a + b) : u[k] = Byte(sid, k)
  BY DEF Prefix
<1>6. \A k \in 1..b : piece[k] = Byte(sid, a + k)
  OBVIOUS
<1> HIDE DEF s, u
<1>c. Joined(Bytes, s, piece, a, b)
  BY Zenon, <1>2, <1>3, Concat
<1>7. t \in Seq(Bytes) /\ Len(t) = a + b
      /\ \A k \in 1..(a + b) : t[k] = IF k <= a THEN s[k] ELSE piece[k - a]
  BY Zenon, <1>c DEF Joined
<1> HIDE DEF t
<1>8. ASSUME NEW k \in 1..(a + b) PROVE t[k] = u[k]
  <2>1. CASE k <= a
    BY <1>4, <1>5, <1>7, <2>1
  <2>2. CASE ~(k <= a)
    <3>1. k - a \in 1..b /\ a + (k - a) = k
      BY <2>2
    <3> QED
      BY <1>5, <1>6, <1>7, <2>2, <3>1
  <2> QED
    BY <2>1, <2>2
<1>9. t = u
  BY Zenon, <1>3, <1>7, <1>8, SeqEqual
<1> QED
  BY Zenon, <1>2, <1>9 DEF s, t, u, Grows

(* The next bytes of a body follow its first ones. *)
LEMMA SubSeqGrows ==
  ASSUME NEW S, NEW B \in Seq(S), NEW n \in 0..Len(B), NEW m \in 0..(Len(B) - n)
  PROVE  SubSeq(B, 1, n) \o SubSeq(B, n + 1, n + m) = SubSeq(B, 1, n + m)
<1> DEFINE s == SubSeq(B, 1, n)
           q == SubSeq(B, n + 1, n + m)
           t == s \o q
           u == SubSeq(B, 1, n + m)
<1>0. Len(B) \in Nat /\ n \in Nat /\ m \in Nat
  OBVIOUS
<1>1. s \in Seq(S) /\ Len(s) = n /\ \A k \in 1..n : s[k] = B[k]
  BY <1>0
<1>2. u \in Seq(S) /\ Len(u) = n + m /\ \A k \in 1..(n + m) : u[k] = B[k]
  BY <1>0
<1>3. q \in Seq(S) /\ Len(q) = m /\ \A k \in 1..m : q[k] = B[n + k]
  BY <1>0
<1> HIDE DEF s, q, u
<1>c. Joined(S, s, q, n, m)
  BY Zenon, <1>0, <1>1, <1>3, Concat
<1>4. t \in Seq(S) /\ Len(t) = n + m
      /\ \A k \in 1..(n + m) : t[k] = IF k <= n THEN s[k] ELSE q[k - n]
  BY Zenon, <1>c DEF Joined
<1> HIDE DEF t
<1>5. ASSUME NEW k \in 1..(n + m) PROVE t[k] = u[k]
  <2>1. CASE k <= n
    <3>1. k \in 1..n
      BY <2>1
    <3> QED
      BY Zenon, <1>1, <1>2, <1>4, <2>1, <3>1
  <2>2. CASE ~(k <= n)
    <3>1. k - n \in 1..m /\ n + (k - n) = k
      BY <2>2
    <3> QED
      BY Zenon, <1>2, <1>3, <1>4, <2>2, <3>1
  <2> QED
    BY <2>1, <2>2
<1>6. t = u
  BY <1>2, <1>4, <1>5, SeqEqual
<1> QED
  BY <1>6 DEF s, q, t, u

-----------------------------------------------------------------------------
(* resume. *)

(* What resume makes of a response of which n bytes were sent: nothing without
   room for its headers, or m bytes are sent, within the room, and the rest is
   kept, if there is any. *)
Advances(sid, st, B, n, o, room, x) ==
  \/ o = Unsent /\ x.keep /\ x.p = Wait(sid, TRUE, st, 0, B) /\ x.o = o
  \/ \E m \in n..Len(B) :
       /\ x.o = Sent(st, B, m)
       /\ x.keep => m # Len(B) /\ x.p = Wait(sid, FALSE, st, m, B)
       /\ ~x.keep => m = Len(B)
       /\ 1 + m <= room + (IF o = Unsent THEN 0 ELSE 1 + n)

Carries(o, st, B, n) ==
  /\ o.headers = 1 /\ o.status = st /\ o.body = SubSeq(B, 1, n) /\ Len(o.body) = n
  /\ o.fin <=> n = Len(B)
  /\ o # Unsent

(* The fields of a response of which n bytes went out. *)
LEMMA SentFields ==
  ASSUME NEW S, NEW B \in Seq(S), NEW n \in 0..Len(B), NEW st
  PROVE  Carries(Sent(st, B, n), st, B, n)
<1> DEFINE b == SubSeq(B, 1, n)
           f == n = Len(B)
           o == Sent(st, B, n)
<1>1. b \in Seq(S) /\ Len(b) = n
  OBVIOUS
<1>2. o = [headers |-> 1, status |-> st, body |-> b, fin |-> f] /\ f \in BOOLEAN
  BY Zenon DEF Sent
<1> HIDE DEF b, f, o
<1>3. o.headers = 1 /\ o.status = st /\ o.body = b /\ o.fin = f
  BY Zenon, <1>2
<1>4. o # Unsent
  BY <1>3 DEF Unsent
<1> QED
  BY Zenon, <1>1, <1>2, <1>3, <1>4 DEF Carries, b, f, o

(* The fields of a response that has not begun. *)
LEMMA UnsentFields ==
  Unsent.headers = 0 /\ Unsent.status = 0 /\ Unsent.body = <<>> /\ ~Unsent.fin
  BY DEF Unsent

(* The fields of a response kept in pending. *)
LEMMA WaitFields ==
  ASSUME NEW sid, NEW h \in BOOLEAN, NEW st, NEW n, NEW B
  PROVE  LET p == Wait(sid, h, st, n, B) IN
         p.stream = sid /\ p.headers = h /\ p.status = st /\ p.off = n /\ p.body = B
  BY DEF Wait

(* resume, with room for the headers. *)
Takes(p, o, h, rest, n, x) ==
  /\ x.keep <=> n < rest
  /\ x.p = [p EXCEPT !.headers = FALSE, !.off = @ + n]
  /\ x.o.headers = o.headers + h /\ x.o.status = p.status
  /\ x.o.body = o.body \o SubSeq(p.body, p.off + 1, p.off + n)
  /\ x.o.fin \in BOOLEAN /\ (x.o.fin <=> n = rest)
  /\ x.o = [headers |-> x.o.headers, status |-> x.o.status, body |-> x.o.body, fin |-> x.o.fin]

(* What resume sends: the headers if they are due, then what fits of the body. *)
LEMMA ResumedSome ==
  ASSUME NEW p, NEW o, NEW room \in Nat, NEW h \in 0..1, h = (IF p.headers THEN 1 ELSE 0),
         h <= room, NEW rest \in Nat, rest = Len(p.body) - p.off,
         NEW x, x = Resumed(p, o, room)
  PROVE  Takes(p, o, h, rest, IF room - h < rest THEN room - h ELSE rest, x)
<1> DEFINE h0 == IF p.headers THEN 1 ELSE 0
           rest0 == Len(p.body) - p.off
           n0 == IF room - h0 < rest0 THEN room - h0 ELSE rest0
           k == n0 < rest0
           f == n0 = rest0
           q == [p EXCEPT !.headers = FALSE, !.off = @ + n0]
           g == o.headers + h0
           b == o.body \o SubSeq(p.body, p.off + 1, p.off + n0)
           r == [headers |-> g, status |-> p.status, body |-> b, fin |-> f]
<1>1. ~(room < h0)
  OBVIOUS
<1>2. x = [keep |-> k, p |-> q, o |-> r]
  BY Zenon, <1>1 DEF Resumed
<1>3. k \in BOOLEAN /\ f \in BOOLEAN
  OBVIOUS
<1> HIDE DEF k, f, q, g, b, r
<1>4. x.keep = k /\ x.p = q /\ x.o = r
  BY <1>2, <1>3
<1>5. r.headers = g /\ r.status = p.status /\ r.body = b /\ r.fin = f
  BY Zenon DEF r
<1>6. n0 = (IF room - h < rest THEN room - h ELSE rest) /\ h0 = h /\ rest0 = rest
  BY Zenon
<1> QED
  BY Zenon, <1>3, <1>4, <1>5, <1>6 DEF Takes, k, f, q, g, b, r

Fits(size, n, h, room, rest, m) ==
  /\ n + m \in n..size /\ m \in 0..(size - n)
  /\ m = rest <=> n + m = size
  /\ m < rest <=> m # rest
  /\ h = 1 /\ n = 0 => 1 + (n + m) <= room + 0
  /\ h = 0 => 1 + (n + m) <= room + (1 + n)

(* The bytes that fit the window keep the offset within the body. *)
LEMMA Fitting ==
  ASSUME NEW size \in Nat, NEW n \in 0..size, NEW h \in 0..1, NEW room \in Nat, h <= room,
         NEW rest \in Nat, n + rest = size
  PROVE  Fits(size, n, h, room, rest, IF room - h < rest THEN room - h ELSE rest)
  BY DEF Fits

(* resume takes a response that is owed to one that is owed or complete. *)
LEMMA ResumedRight ==
  ASSUME NEW S, NEW B \in Seq(S), NEW st, NEW sid, NEW n \in 0..Len(B), NEW room \in Nat,
         NEW o, NEW p,
         \/ o = Unsent /\ n = 0 /\ p = Wait(sid, TRUE, st, 0, B)
         \/ o = Sent(st, B, n) /\ n # Len(B) /\ p = Wait(sid, FALSE, st, n, B)
  PROVE  Advances(sid, st, B, n, o, room, Resumed(p, o, room))
<1> DEFINE x == Resumed(p, o, room)
           h == IF o = Unsent THEN 1 ELSE 0
           rest == Len(B) - n
           m == IF room - h < rest THEN room - h ELSE rest
<1>0. Len(B) \in Nat /\ n \in Nat /\ rest \in Nat /\ n + rest = Len(B)
  OBVIOUS
<1>c. o = Sent(st, B, n) => Carries(o, st, B, n)
  BY Zenon, SentFields
<1>1. /\ p.stream = sid /\ p.status = st /\ p.off = n /\ p.body = B
      /\ p = Wait(sid, p.headers, st, n, B) /\ p.headers \in BOOLEAN
      /\ (p.headers <=> o = Unsent)
  <2>1. CASE o = Unsent /\ n = 0 /\ p = Wait(sid, TRUE, st, 0, B)
    BY <2>1 DEF Wait
  <2>2. CASE o = Sent(st, B, n) /\ p = Wait(sid, FALSE, st, n, B)
    <3>1. o # Unsent
      BY Zenon, <1>c, <2>2 DEF Carries
    <3> QED
      BY <2>2, <3>1 DEF Wait
  <2> QED
    BY Zenon, <2>1, <2>2
<1>2. o.headers + h = 1 /\ o.body = SubSeq(B, 1, n)
  <2>1. CASE o = Unsent /\ n = 0
    <3>1. SubSeq(B, 1, 0) = <<>>
      OBVIOUS
    <3> QED
      BY <2>1, <3>1, UnsentFields
  <2>2. CASE o = Sent(st, B, n)
    <3>1. o # Unsent /\ o.headers = 1 /\ o.body = SubSeq(B, 1, n)
      BY Zenon, <1>c, <2>2 DEF Carries
    <3> QED
      BY <3>1
  <2> QED
    BY Zenon, <2>1, <2>2
<1>3. h \in 0..1 /\ h = (IF p.headers THEN 1 ELSE 0)
  BY <1>1
<1> HIDE DEF h, rest, x
<1>4. CASE room < h
  <2>1. x = [keep |-> TRUE, p |-> p, o |-> o]
    BY Zenon, <1>3, <1>4 DEF Resumed, x
  <2>2. o = Unsent
    BY <1>4 DEF h
  <2>3. p = Wait(sid, TRUE, st, 0, B)
    BY Zenon, <1>c, <2>2 DEF Carries
  <2>4. x.keep /\ x.p = p /\ x.o = o
    BY Zenon, <2>1
  <2> QED
    BY Zenon, <2>2, <2>3, <2>4 DEF Advances, x
<1>5. CASE h <= room
  <2>1. rest = Len(p.body) - p.off
    BY Zenon, <1>1 DEF rest
  <2>2. Takes(p, o, h, rest, m, x)
    BY Zenon, <1>0, <1>3, <1>5, <2>1, ResumedSome DEF x
  <2>f. Fits(Len(B), n, h, room, rest, m)
    BY Zenon, <1>0, <1>3, <1>5, Fitting
  <2>3. /\ n + m \in n..Len(B) /\ m \in 0..(Len(B) - n)
        /\ m = rest <=> n + m = Len(B)
        /\ m < rest <=> m # rest
    BY Zenon, <2>f DEF Fits
  <2> HIDE DEF m
  <2>4. x.o.body = SubSeq(B, 1, n + m)
    <3>1. x.o.body = SubSeq(B, 1, n) \o SubSeq(B, n + 1, n + m)
      BY Zenon, <1>1, <1>2, <2>2 DEF Takes
    <3> QED
      BY Zenon, <2>3, <3>1, SubSeqGrows
  <2>5. x.o = Sent(st, B, n + m)
    <3> DEFINE f == n + m = Len(B)
    <3>1. x.o.headers = 1 /\ x.o.status = st /\ x.o.fin \in BOOLEAN /\ (x.o.fin <=> f)
      BY Zenon, <1>1, <1>2, <2>2, <2>3 DEF Takes
    <3>2. x.o.fin = f
      BY Zenon, <3>1
    <3>3. x.o = [headers |-> x.o.headers, status |-> x.o.status, body |-> x.o.body, fin |-> x.o.fin]
      BY Zenon, <2>2 DEF Takes
    <3> QED
      BY Zenon, <2>4, <3>1, <3>2, <3>3 DEF Sent
  <2>6. x.p = Wait(sid, FALSE, st, n + m, B)
    <3>1. x.p = [Wait(sid, p.headers, st, n, B) EXCEPT !.headers = FALSE, !.off = n + m]
      BY Zenon, <1>1, <2>2 DEF Takes
    <3> QED
      BY Zenon, <3>1 DEF Wait
  <2>7. 1 + (n + m) <= room + (IF o = Unsent THEN 0 ELSE 1 + n)
    <3>1. o = Unsent => h = 1 /\ n = 0
      BY Zenon, <1>c DEF Carries, h
    <3>2. o # Unsent => h = 0
      BY Zenon DEF h
    <3> QED
      BY Zenon, <2>f, <3>1, <3>2 DEF Fits
  <2>8. x.keep <=> m < rest
    BY Zenon, <2>2 DEF Takes
  <2> QED
    BY Zenon, <2>3, <2>5, <2>6, <2>7, <2>8 DEF Advances, x
<1> QED
  BY <1>3, <1>4, <1>5

-----------------------------------------------------------------------------
(* The invariant of a stream. *)

LEMMA ReqFields ==
  ASSUME RespondTypeOK, NEW sid \in Sids
  PROVE  /\ req[sid].len \in Nat /\ req[sid].echo \in BOOLEAN /\ req[sid].trailers \in BOOLEAN
         /\ Items(sid) = req[sid].len + (IF req[sid].trailers THEN 3 ELSE 2)
<1>1. req \in [Sids -> [echo : BOOLEAN, len : Nat, trailers : BOOLEAN]]
  BY Zenon, RespondAssumption DEF RespondTypeOK
<1> QED
  BY Zenon, <1>1 DEF Items

(* A request has its headers, its body and its end, in that order. *)
LEMMA ItemsIn ==
  ASSUME RespondTypeOK, NEW sid \in Sids
  PROVE  Items(sid) \in Nat /\ req[sid].len + 1 < Items(sid)
  BY ReqFields

(* The right answer is a body and one of the three statuses. *)
LEMMA RightIn ==
  ASSUME RespondTypeOK, NEW sid \in Sids
  PROVE  RightBody(sid) \in Seq(Bytes) /\ RightStatus(sid) \in {200, 404, 413}
<1>1. Text \in Seq(Bytes)
  BY DEF Text, Bytes
<1>2. RequestBody(sid) \in Seq(Bytes)
  BY Zenon, ReqFields, PrefixIn DEF RequestBody
<1>3. RightStatus(sid) \in {200, 404, 413}
  BY DEF RightStatus, Expected
<1> QED
  BY Zenon, <1>1, <1>2, <1>3 DEF RightBody

(* The request says what the response is. *)
LEMMA Steady ==
  ASSUME req' = req, NEW sid
  PROVE  /\ RightStatus(sid)' = RightStatus(sid) /\ RightBody(sid)' = RightBody(sid)
         /\ Items(sid)' = Items(sid)
<1>1. Expected(sid)' = Expected(sid)
  BY DEF Expected
<1>2. RightStatus(sid)' = RightStatus(sid)
  BY Zenon, <1>1 DEF RightStatus
<1>3. RequestBody(sid)' = RequestBody(sid)
  BY Zenon DEF RequestBody
<1>4. RightBody(sid)' = RightBody(sid)
  BY Zenon, <1>2, <1>3 DEF RightBody
<1>5. Items(sid)' = Items(sid)
  BY Zenon DEF Items
<1> QED
  BY Zenon, <1>2, <1>4, <1>5

(* What a stream carries has a length, and ends only with the last byte. *)
Measured(o) == o.headers \in 0..1 /\ Len(o.body) \in Nat /\ o.fin \in BOOLEAN

(* A response has a length and headers at most once. *)
LEMMA SentShape ==
  ASSUME RespondTypeOK, NEW sid \in Sids, SentOf(sid)
  PROVE  Measured(out[sid])
<1> DEFINE B == RightBody(sid)
<1>1. CASE out[sid] = Unsent
  BY <1>1 DEF Unsent, Measured
<1>2. ASSUME NEW n \in 0..Len(B), out[sid] = Sent(RightStatus(sid), B, n)
      PROVE  Measured(out[sid])
  <2>1. B \in Seq(Bytes)
    BY Zenon, RightIn
  <2> HIDE DEF B
  <2>2. Carries(out[sid], RightStatus(sid), B, n) /\ n \in Nat
    <3>1. n \in Nat
      BY <2>1
    <3>2. Carries(Sent(RightStatus(sid), B, n), RightStatus(sid), B, n)
      BY Zenon, <2>1, SentFields
    <3> QED
      BY Zenon, <1>2, <3>1, <3>2
  <2>3. out[sid].fin \in BOOLEAN
    BY <1>2 DEF Sent
  <2> QED
    BY <2>2, <2>3 DEF Carries, Measured
<1> QED
  BY Zenon, <1>1, <1>2 DEF SentOf

(* Frames that arrive, and what process does around its loops, change no request
   and no response. *)
LEMMA NetStep ==
  ASSUME RInv, RespondTypeOK', UNCHANGED <<req, read, out, reqs, pending, left>>,
         \A sid \in Sids : /\ reset'[sid] = "told" <=> reset[sid] = "told"
                           /\ reset'[sid] = "no" => reset[sid] = "no"
                           /\ window[sid] <= window'[sid]
                           /\ left[sid] # <<>> => step' = "resume",
         stopped \subseteq stopped'
  PROVE  RInv'
<1> SUFFICES ASSUME NEW sid \in Sids
             PROVE  HeldOf(sid)' /\ SentOf(sid)' /\ WaitingOf(sid)'
  BY Zenon DEF RInv
<1>0. RespondTypeOK /\ HeldOf(sid) /\ SentOf(sid) /\ WaitingOf(sid)
  BY Zenon DEF RInv
<1>1. HeldOf(sid)'
  BY Zenon, <1>0, Steady DEF HeldOf, Reading, Whole
<1>2. SentOf(sid)'
  <2>1. Room(sid)' >= 0
    <3>1. window[sid] \in Nat /\ window'[sid] \in Nat
      BY DEF RInv, RespondTypeOK, MaxWindow
    <3>2. out[sid].headers \in Nat /\ Len(out[sid].body) \in Nat
      BY <1>0, SentShape DEF Measured
    <3>3. Room(sid) >= 0 /\ window[sid] <= window'[sid]
      BY Zenon, <1>0 DEF SentOf
    <3> QED
      BY <3>1, <3>2, <3>3 DEF Room
  <2> QED
    BY Zenon, <1>0, <2>1, Steady DEF SentOf, Whole
<1>3. WaitingOf(sid)'
  <2>1. Rest(sid)' = Rest(sid) /\ (Whole(sid)' <=> Whole(sid))
    BY Zenon, Steady DEF Rest, Whole
  <2> QED
    BY Zenon, <1>0, <2>1 DEF WaitingOf
<1> QED
  BY Zenon, <1>1, <1>2, <1>3

(* A step of process for one stream leaves the others alone. *)
LEMMA StreamStep ==
  ASSUME RInv, RespondTypeOK', NEW sid \in Sids, HeldOf(sid)', SentOf(sid)', WaitingOf(sid)',
         UNCHANGED <<req, window, stopped, step>>,
         \A s \in Sids : s # sid => /\ read'[s] = read[s] /\ reset'[s] = reset[s]
                                    /\ out'[s] = out[s] /\ reqs'[s] = reqs[s]
                                    /\ pending'[s] = pending[s] /\ left'[s] = left[s]
  PROVE  RInv'
<1> SUFFICES ASSUME NEW s \in Sids, s # sid
             PROVE  HeldOf(s)' /\ SentOf(s)' /\ WaitingOf(s)'
  BY Zenon DEF RInv
<1>0. HeldOf(s) /\ SentOf(s) /\ WaitingOf(s)
  BY Zenon DEF RInv
<1>1. HeldOf(s)'
  BY Zenon, <1>0, Steady DEF HeldOf, Reading, Whole
<1>2. SentOf(s)'
  <2>1. Room(s)' = Room(s)
    BY Zenon DEF Room
  <2> QED
    BY Zenon, <1>0, <2>1, Steady DEF SentOf, Whole
<1>3. WaitingOf(s)'
  <2>1. Rest(s)' = Rest(s) /\ (Whole(s)' <=> Whole(s))
    BY Zenon, Steady DEF Rest, Whole
  <2> QED
    BY Zenon, <1>0, <2>1 DEF WaitingOf
<1> QED
  BY Zenon, <1>1, <1>2, <1>3

-----------------------------------------------------------------------------
(* The actions. *)

LEMMA RInit ==
  ASSUME RespondInit
  PROVE  RInv
<1>1. RespondTypeOK
  <2>1. \A sid \in Sids : arrived[sid] = 0 /\ read[sid] = 0 /\ 0 <= Items(sid)
    <3> SUFFICES ASSUME NEW sid \in Sids PROVE arrived[sid] = 0 /\ read[sid] = 0 /\ 0 <= Items(sid)
      OBVIOUS
    <3>1. req \in [Sids -> [echo : BOOLEAN, len : Nat, trailers : BOOLEAN]]
      BY Zenon, RespondAssumption DEF RespondInit
    <3>2. req[sid].len \in Nat
      BY Zenon, <3>1
    <3> QED
      BY <3>2 DEF RespondInit, Items
  <2>2. 0 \in 0..MaxWindow
    BY RespondAssumption DEF MaxWindow
  <2>3. ByStream(out) /\ ByStream(reqs) /\ ByStream(pending) /\ ByStream(left)
    BY Zenon DEF RespondInit, ByStream, NoneYet
  <2>4. {established, h3, broken} \subseteq BOOLEAN /\ stopped \subseteq Sids
        /\ reset \in [Sids -> {"no", "sent", "told"}]
    BY Zenon DEF RespondInit
  <2>5. arrived \in [Sids -> Nat] /\ read \in [Sids -> Nat] /\ window \in [Sids -> 0..MaxWindow]
    BY <2>2 DEF RespondInit
  <2> QED
    BY <2>1, <2>3, <2>4, <2>5 DEF RespondInit, RespondTypeOK
<1> SUFFICES ASSUME NEW sid \in Sids
             PROVE  HeldOf(sid) /\ SentOf(sid) /\ WaitingOf(sid)
  BY Zenon, <1>1 DEF RInv
<1>2. /\ read[sid] = 0 /\ window[sid] = 0 /\ reqs[sid] = NoReq /\ out[sid] = Unsent
      /\ pending[sid] = <<>> /\ left[sid] = <<>>
  BY Zenon DEF RespondInit, NoneYet, Unsent
<1>3. Items(sid) # 0
  BY <1>1, ReqFields
<1>4. HeldOf(sid)
  BY <1>2 DEF HeldOf, Reading
<1>5. SentOf(sid)
  BY <1>2, UnsentFields DEF SentOf, Room
<1>6. WaitingOf(sid)
  BY Zenon, <1>2, <1>3 DEF WaitingOf, Whole
<1> QED
  BY Zenon, <1>4, <1>5, <1>6

(* Between the calls, and while h3 is polled, resume has nothing to see. *)
LEMMA NothingLeft ==
  ASSUME RInv, step # "resume", NEW sid \in Sids
  PROVE  left[sid] = <<>>
  BY Zenon DEF RInv, WaitingOf

(* The client and the handshake keep the invariant: they touch no response. *)
LEMMA FrameStep ==
  ASSUME RInv, \/ Establish
               \/ \E sid \in Sids : Deliver(sid) \/ Reset(sid) \/ Stop(sid) \/ Open(sid)
  PROVE  RInv'
<1>1. /\ step \in {"idle", "frames"} /\ step' = "frames"
      /\ UNCHANGED <<req, read, out, h3, broken, reqs, pending, left>>
  BY Zenon DEF Establish, Deliver, Reset, Stop, Open, Frame
<1>2. RespondTypeOK /\ \A sid \in Sids : left[sid] = <<>>
  BY <1>1, NothingLeft DEF RInv
<1>3. \A sid \in Sids : Items(sid)' = Items(sid)
  BY Zenon, <1>1, Steady
<1>4. CASE Establish
  <2>1. established' = TRUE /\ UNCHANGED <<arrived, reset, stopped, window>>
    BY Zenon, <1>4 DEF Establish
  <2>2. RespondTypeOK'
    BY <1>1, <1>2, <1>3, <2>1 DEF RespondTypeOK, ByStream
  <2>3. \A sid \in Sids : window[sid] <= window'[sid]
    BY <1>2, <2>1 DEF RespondTypeOK
  <2> QED
    BY <1>1, <1>2, <2>1, <2>2, <2>3, NetStep
<1>5. ASSUME NEW sid \in Sids, Deliver(sid)
      PROVE  RInv'
  <2>1. PICK k \in (arrived[sid] + 1)..Items(sid) : arrived' = [arrived EXCEPT ![sid] = k]
    BY Zenon, <1>5 DEF Deliver
  <2>2. UNCHANGED <<reset, stopped, window, established>>
    BY Zenon, <1>5 DEF Deliver
  <2>3. RespondTypeOK'
    <3>1. arrived \in [Sids -> Nat] /\ Items(sid) \in Nat
      BY Zenon, <1>2, ItemsIn DEF RespondTypeOK
    <3>2. k \in Nat /\ arrived[sid] <= k /\ k <= Items(sid)
      BY <2>1, <3>1
    <3>3. arrived' \in [Sids -> Nat]
      BY Zenon, <2>1, <3>1, <3>2
    <3>4. ASSUME NEW s \in Sids PROVE arrived'[s] <= Items(s) /\ read[s] <= arrived'[s]
      BY <1>2, <2>1, <3>1, <3>2 DEF RespondTypeOK
    <3> QED
      BY Zenon, <1>1, <1>2, <1>3, <2>2, <3>3, <3>4 DEF RespondTypeOK, ByStream
  <2>4. \A s \in Sids : window[s] <= window'[s]
    BY <1>2, <2>2 DEF RespondTypeOK
  <2> QED
    BY <1>1, <1>2, <2>2, <2>3, <2>4, NetStep
<1>6. ASSUME NEW sid \in Sids, Reset(sid)
      PROVE  RInv'
  <2>1. /\ reset[sid] = "no" /\ reset' = [reset EXCEPT ![sid] = "sent"]
        /\ UNCHANGED <<arrived, stopped, window, established>>
    BY Zenon, <1>6 DEF Reset
  <2>2. RespondTypeOK'
    BY <1>1, <1>2, <1>3, <2>1 DEF RespondTypeOK, ByStream
  <2>3. \A s \in Sids : /\ window[s] <= window'[s]
                        /\ reset'[s] = "told" <=> reset[s] = "told"
                        /\ reset'[s] = "no" => reset[s] = "no"
    BY <1>2, <2>1 DEF RespondTypeOK
  <2> QED
    BY <1>1, <1>2, <2>1, <2>2, <2>3, NetStep
<1>7. ASSUME NEW sid \in Sids, Stop(sid)
      PROVE  RInv'
  <2>1. stopped' = stopped \cup {sid} /\ UNCHANGED <<arrived, reset, window, established>>
    BY Zenon, <1>7 DEF Stop
  <2>2. RespondTypeOK'
    BY <1>1, <1>2, <1>3, <2>1 DEF RespondTypeOK, ByStream
  <2>3. \A s \in Sids : window[s] <= window'[s]
    BY <1>2, <2>1 DEF RespondTypeOK
  <2> QED
    BY <1>1, <1>2, <2>1, <2>2, <2>3, NetStep
<1>8. ASSUME NEW sid \in Sids, Open(sid)
      PROVE  RInv'
  <2>1. PICK w \in (window[sid] + 1)..MaxWindow : window' = [window EXCEPT ![sid] = w]
    BY Zenon, <1>8 DEF Open
  <2>2. UNCHANGED <<arrived, reset, stopped, established>>
    BY Zenon, <1>8 DEF Open
  <2>3. window \in [Sids -> 0..MaxWindow] /\ MaxWindow \in Nat
    BY <1>2, RespondAssumption DEF RespondTypeOK, MaxWindow
  <2>4. w \in 0..MaxWindow /\ window[sid] <= w
    BY <2>1, <2>3
  <2>5. window' \in [Sids -> 0..MaxWindow]
    BY Zenon, <2>1, <2>3, <2>4
  <2>6. RespondTypeOK'
    BY Zenon, <1>1, <1>2, <1>3, <2>2, <2>5 DEF RespondTypeOK, ByStream
  <2>7. \A s \in Sids : window[s] <= window'[s]
    BY <2>1, <2>3, <2>4
  <2> QED
    BY <1>1, <1>2, <2>2, <2>6, <2>7, NetStep
<1> QED
  BY Zenon, <1>4, <1>5, <1>6, <1>7, <1>8

(* process before and after its loops. *)
LEMMA ProcessStep ==
  ASSUME RInv, Process \/ ProcessDone
  PROVE  RInv'
<1>1. UNCHANGED <<req, net, read, out, broken, reqs, pending, left>>
  BY Zenon DEF Process, ProcessDone
<1>2. RespondTypeOK /\ \A sid \in Sids : left[sid] = <<>>
  <2>1. CASE Process
    <3>1. step # "resume"
      BY <2>1 DEF Process
    <3> QED
      BY Zenon, <3>1, NothingLeft DEF RInv
  <2>2. CASE ProcessDone
    BY Zenon, <2>2 DEF ProcessDone, NoneYet, RInv
  <2> QED
    BY Zenon, <2>1, <2>2
<1>3. \A sid \in Sids : Items(sid)' = Items(sid)
  BY Zenon, <1>1, Steady
<1>4. h3' \in BOOLEAN /\ step' \in {"idle", "frames", "poll", "resume"}
  BY Zenon, <1>2 DEF Process, ProcessDone, RespondTypeOK
<1>5. RespondTypeOK'
  BY Zenon, <1>1, <1>2, <1>3, <1>4 DEF RespondTypeOK, ByStream, net
<1>6. \A s \in Sids : window[s] <= window'[s]
  BY <1>1, <1>2 DEF RespondTypeOK, net
<1>7. UNCHANGED <<req, read, out, reqs, pending, left>> /\ UNCHANGED <<reset, stopped>>
  BY Zenon, <1>1 DEF net
<1> QED
  BY Zenon, <1>2, <1>5, <1>6, <1>7, NetStep

(* The end of the events of one poll keeps the invariant. *)
LEMMA PollDoneStep ==
  ASSUME RInv, PollDone
  PROVE  RInv'
<1>1. /\ left' = pending /\ pending' = NoneYet /\ step' = "resume"
      /\ UNCHANGED <<req, net, read, out, h3, reqs>>
  BY Zenon DEF PollDone
<1>2. RespondTypeOK /\ step = "poll" /\ broken' \in BOOLEAN
  BY Zenon DEF PollDone, RInv, RespondTypeOK
<1>3. \A sid \in Sids : Items(sid)' = Items(sid)
  BY Zenon, <1>1, Steady
<1>4. RespondTypeOK'
  <2>1. ByStream(pending)' /\ ByStream(left)'
    BY Zenon, <1>1, <1>2 DEF ByStream, NoneYet, RespondTypeOK
  <2>2. step' \in {"idle", "frames", "poll", "resume"}
    BY Zenon, <1>1
  <2>3. ByStream(out)' /\ ByStream(reqs)'
    BY Zenon, <1>1, <1>2 DEF ByStream, RespondTypeOK
  <2> QED
    BY Zenon, <1>1, <1>2, <1>3, <2>1, <2>2, <2>3 DEF RespondTypeOK, net
<1> SUFFICES ASSUME NEW sid \in Sids
             PROVE  HeldOf(sid)' /\ SentOf(sid)' /\ WaitingOf(sid)'
  BY Zenon, <1>4 DEF RInv
<1>5. HeldOf(sid) /\ SentOf(sid) /\ WaitingOf(sid)
  BY Zenon DEF RInv
<1>6. UNCHANGED <<reset, stopped, window>>
  BY Zenon, <1>1 DEF net
<1>7. HeldOf(sid)'
  BY Zenon, <1>1, <1>5, <1>6, Steady DEF HeldOf, Reading, Whole
<1>8. SentOf(sid)'
  <2>1. Room(sid)' = Room(sid)
    BY Zenon, <1>1, <1>6 DEF Room
  <2> QED
    BY Zenon, <1>1, <1>5, <2>1, Steady DEF SentOf, Whole
<1>9. WaitingOf(sid)'
  <2>1. Rest(sid)' = Rest(sid) /\ (Whole(sid)' <=> Whole(sid))
    BY Zenon, <1>1, Steady DEF Rest, Whole
  <2>2. left[sid] = <<>> /\ left'[sid] = pending[sid] /\ pending'[sid] = <<>>
    <3>1. step # "resume"
      BY <1>2
    <3> QED
      BY Zenon, <1>1, <3>1, NothingLeft DEF NoneYet
  <2> QED
    BY Zenon, <1>1, <1>5, <1>6, <2>1, <2>2 DEF WaitingOf
<1> QED
  BY Zenon, <1>7, <1>8, <1>9

(* Nothing is sent, and nothing waits, before a request is whole. *)
LEMMA Early ==
  ASSUME RInv, NEW sid \in Sids, ~Whole(sid)
  PROVE  out[sid] = Unsent /\ pending[sid] = <<>> /\ left[sid] = <<>>
<1>1. SentOf(sid) /\ WaitingOf(sid)
  BY Zenon DEF RInv
<1> QED
  BY Zenon, <1>1 DEF SentOf, WaitingOf

(* h3 reports an item that is not the request's end. *)
LEMMA ReadsOn ==
  ASSUME RInv, NEW sid \in Sids, NEW n \in Nat, NEW r,
         UNCHANGED <<req, net, out, h3, broken, pending, left, step>>,
         read' = [read EXCEPT ![sid] = n], reqs' = [reqs EXCEPT ![sid] = r],
         read[sid] < n, n <= arrived[sid], n # Items(sid), HeldOf(sid)'
  PROVE  RInv'
<1>1. RespondTypeOK /\ UNCHANGED <<arrived, reset, stopped, window, established>>
  BY Zenon DEF RInv, net
<1>2. \A s \in Sids : Items(s)' = Items(s)
  BY Zenon, Steady
<1>3. read \in [Sids -> Nat] /\ arrived \in [Sids -> Nat] /\ arrived[sid] <= Items(sid)
      /\ ByStream(reqs)
  BY Zenon, <1>1 DEF RespondTypeOK
<1>4. Items(sid) \in Nat
  BY Zenon, <1>1, ItemsIn
<1>5. read' \in [Sids -> Nat] /\ read'[sid] = n /\ \A s \in Sids : s # sid => read'[s] = read[s]
  BY Zenon, <1>3
<1>6. ByStream(reqs)' /\ \A s \in Sids : s # sid => reqs'[s] = reqs[s]
  BY Zenon, <1>3 DEF ByStream
<1>7. RespondTypeOK'
  <2>1. \A s \in Sids : read'[s] <= arrived[s]
    BY Zenon, <1>1, <1>5 DEF RespondTypeOK
  <2>2. ByStream(out)' /\ ByStream(pending)' /\ ByStream(left)'
    BY Zenon, <1>1 DEF RespondTypeOK, ByStream
  <2> QED
    BY Zenon, <1>1, <1>2, <1>5, <1>6, <2>1, <2>2 DEF RespondTypeOK
<1>8. ~Whole(sid) /\ ~Whole(sid)'
  BY <1>2, <1>3, <1>4, <1>5 DEF Whole
<1>9. out[sid] = Unsent /\ pending[sid] = <<>> /\ left[sid] = <<>>
  BY Zenon, <1>8, Early
<1>10. SentOf(sid)'
  <2>1. Room(sid)' = Room(sid) /\ SentOf(sid)
    BY Zenon, <1>1 DEF Room, RInv
  <2> QED
    BY Zenon, <1>9, <2>1 DEF SentOf
<1>11. WaitingOf(sid)'
  BY Zenon, <1>8, <1>9 DEF WaitingOf
<1> QED
  BY Zenon, <1>1, <1>5, <1>6, <1>7, <1>10, <1>11, StreamStep

(* What the next item is. *)
IsKind(k, i, l, x) ==
  /\ x = "headers" => k = 1
  /\ x = "fin" => k = i
  /\ x = "trailers" => k > l + 1 /\ k # i
  /\ x = "data" => k # 1 /\ k # i /\ k <= l + 1

(* Which event the next item of a stream is, by its position. *)
LEMMA KindOf ==
  ASSUME RespondTypeOK, NEW sid \in Sids
  PROVE  IsKind(read[sid] + 1, Items(sid), req[sid].len, Kind(sid))
<1> DEFINE k == read[sid] + 1
           i == Items(sid)
           l == req[sid].len
           x == Kind(sid)
<1>1. k \in Nat
  BY DEF RespondTypeOK
<1>2. i \in Nat /\ l \in Nat /\ l + 1 < i
  BY Zenon, ItemsIn, ReqFields
<1>3. x = CASE k = 1 -> "headers" [] k = i -> "fin"
            [] k > l + 1 /\ k # i -> "trailers" [] OTHER -> "data"
  BY Zenon DEF Kind
<1> HIDE DEF k, i, l, x
<1>4. k = 1 => x = "headers"
  BY <1>1, <1>2, <1>3
<1>5. k = i => x = "fin"
  BY <1>1, <1>2, <1>3
<1>6. k > l + 1 /\ k # i => x = "trailers"
  BY <1>1, <1>2, <1>3
<1>7. k # 1 /\ k # i /\ k <= l + 1 => x = "data"
  BY <1>1, <1>2, <1>3
<1>8. IsKind(k, i, l, x)
  BY <1>1, <1>2, <1>4, <1>5, <1>6, <1>7 DEF IsKind
<1> QED
  BY Zenon, <1>8 DEF k, i, l, x

(* The event Headers keeps the invariant. *)
LEMMA OnHeadersStep ==
  ASSUME RInv, NEW sid \in Sids, OnHeaders(sid)
  PROVE  RInv'
<1> DEFINE n == read[sid] + 1
           e == Kind(sid) = "headers" /\ req[sid].echo
           r == Request(e, <<>>, FALSE)
<1>1. /\ Readable(sid) /\ Kind(sid) \in {"headers", "trailers"}
      /\ UNCHANGED <<req, net, out, h3, broken, pending, left, step>>
      /\ read' = [read EXCEPT ![sid] = n] /\ reqs' = [reqs EXCEPT ![sid] = r]
  BY Zenon DEF OnHeaders
<1>2. /\ RespondTypeOK /\ read \in [Sids -> Nat] /\ arrived \in [Sids -> Nat] /\ ByStream(reqs)
      /\ read[sid] < arrived[sid] /\ reset[sid] = "no"
  BY Zenon, <1>1 DEF RInv, RespondTypeOK, Readable
<1>3. n \in Nat /\ read[sid] < n /\ n <= arrived[sid] /\ n > 0
  BY <1>2
<1>4. /\ req[sid].len \in Nat /\ req[sid].echo \in BOOLEAN /\ Items(sid) \in Nat
      /\ req[sid].len + 1 < Items(sid)
  BY Zenon, <1>2, ReqFields, ItemsIn
<1>5. \/ n = 1 /\ Kind(sid) = "headers"
      \/ n > req[sid].len + 1 /\ n # Items(sid) /\ Kind(sid) = "trailers"
  <2>1. IsKind(n, Items(sid), req[sid].len, Kind(sid))
    BY Zenon, <1>2, KindOf
  <2> QED
    BY <1>1, <2>1 DEF IsKind
<1>6. n # Items(sid)
  BY <1>4, <1>5
<1>7. read'[sid] = n /\ reqs'[sid] = r /\ Items(sid)' = Items(sid) /\ reset' = reset
  <2>1. reset' = reset /\ Items(sid)' = Items(sid)
    BY Zenon, <1>1, Steady DEF net
  <2>2. read'[sid] = n
    BY Zenon, <1>1, <1>2
  <2>3. reqs'[sid] = r
    BY Zenon, <1>1, <1>2 DEF ByStream
  <2> QED
    BY Zenon, <2>1, <2>2, <2>3
<1> HIDE DEF n
<1>8. Reading(sid)'
  BY <1>2, <1>3, <1>6, <1>7 DEF Reading, Whole
<1>9. HeldOf(sid)'
  <2>1. CASE n = 1 /\ Kind(sid) = "headers"
    <3>1. e = req[sid].echo
      BY <1>4, <2>1
    <3>2. Prefix(sid, 0) = <<>>
      BY DEF Prefix
    <3>3. (1 > MAX_BODY + 1) = FALSE /\ 0 \in 0..MAX_BODY /\ 0 = 1 - 1 /\ 1 <= req[sid].len + 1
      BY <1>4, RespondAssumption
    <3> QED
      BY Zenon, <1>1, <1>7, <1>8, <2>1, <3>1, <3>2, <3>3 DEF HeldOf
  <2>2. CASE n > req[sid].len + 1 /\ Kind(sid) = "trailers"
    <3>1. e = FALSE
      BY <2>2
    <3> QED
      BY Zenon, <1>1, <1>7, <1>8, <2>2, <3>1 DEF HeldOf
  <2> QED
    BY Zenon, <1>5, <2>1, <2>2
<1> HIDE DEF r
<1> QED
  BY Zenon, <1>1, <1>3, <1>6, <1>9, ReadsOn

Replaced(s, e, b, t, u, r) ==
  /\ [r EXCEPT !.too_large = u] = [some |-> s, echo |-> e, body |-> b, too_large |-> u]
  /\ [r EXCEPT !.body = u] = [some |-> s, echo |-> e, body |-> u, too_large |-> t]

(* A field of a record changed, the others kept. *)
LEMMA RecordEdits ==
  ASSUME NEW s, NEW e, NEW b, NEW t, NEW u, NEW r,
         r = [some |-> s, echo |-> e, body |-> b, too_large |-> t]
  PROVE  Replaced(s, e, b, t, u, r)
  BY DEF Replaced

Edits(e, b, t, r) ==
  /\ r.some = TRUE /\ r.echo = e /\ r.body = b /\ r.too_large = t
  /\ \A u : /\ [r EXCEPT !.too_large = u] = Request(e, b, u)
            /\ [r EXCEPT !.body = u] = Request(e, u, t)

(* The fields of a Req after on_data wrote its body or its too_large. *)
LEMMA ReqEdits ==
  ASSUME NEW e, NEW b, NEW t, NEW r, r = Request(e, b, t)
  PROVE  Edits(e, b, t, r)
<1>1. r.some = TRUE /\ r.echo = e /\ r.body = b /\ r.too_large = t
  BY Zenon DEF Request
<1>2. ASSUME NEW u PROVE /\ [r EXCEPT !.too_large = u] = Request(e, b, u)
                         /\ [r EXCEPT !.body = u] = Request(e, u, t)
  <2>1. r = [some |-> TRUE, echo |-> e, body |-> b, too_large |-> t]
    BY Zenon DEF Request
  <2>2. Replaced(TRUE, e, b, t, u, r)
    BY Zenon, <2>1, RecordEdits
  <2> QED
    BY Zenon, <2>2 DEF Replaced, Request
<1> QED
  BY Zenon, <1>1, <1>2 DEF Edits

(* The request after a bytes of which the server keeps the first n. *)
Keeps(sid, e, n, a, r) ==
  /\ n \in 0..MAX_BODY
  /\ a <= MAX_BODY => n = a
  /\ r = Request(e, Prefix(sid, n), a > MAX_BODY)

(* A Req that holds the first a bytes holds the first a + b after Data, or
   knows that they are too many. *)
LEMMA GatheredKeeps ==
  ASSUME NEW sid \in Sids, NEW e, NEW a \in Nat, NEW b \in Nat, NEW n, NEW r,
         Keeps(sid, e, n, a, r), NEW piece, piece = [k \in 1..b |-> Byte(sid, a + k)]
  PROVE  \E m : Keeps(sid, e, m, a + b, Gathered(r, piece))
<1> DEFINE t == a > MAX_BODY
           x == Gathered(r, piece)
<1>0. MAX_BODY \in Nat /\ n \in Nat /\ n <= MAX_BODY /\ t \in BOOLEAN
  BY RespondAssumption DEF Keeps
<1>g. Grows(sid, a, b, piece)
  BY Zenon, PrefixGrows
<1>1. r = Request(e, Prefix(sid, n), t)
  BY Zenon DEF Keeps
<1>2. /\ r.some = TRUE /\ r.body = Prefix(sid, n) /\ r.too_large = t
      /\ \A u : /\ [r EXCEPT !.too_large = u] = Request(e, Prefix(sid, n), u)
                /\ [r EXCEPT !.body = u] = Request(e, u, t)
  <2> DEFINE B == Prefix(sid, n)
  <2> HIDE DEF t, B
  <2>1. r = Request(e, B, t)
    BY Zenon, <1>1 DEF B
  <2>2. Edits(e, B, t, r)
    BY Zenon, <2>1, ReqEdits
  <2> QED
    BY Zenon, <2>2 DEF Edits, B
<1>3. Len(r.body) = n /\ Len(piece) = b
  <2>1. Len(Prefix(sid, n)) = n
    BY Zenon, <1>0, PrefixIn
  <2>2. Len(piece) = b
    BY Zenon, <1>g DEF Grows
  <2> QED
    BY Zenon, <1>2, <2>1, <2>2
<1>4. x = IF n + b > MAX_BODY THEN Request(e, Prefix(sid, n), TRUE)
          ELSE IF t THEN r ELSE Request(e, Prefix(sid, n) \o piece, t)
  BY Zenon, <1>2, <1>3 DEF Gathered
<1> HIDE DEF x
<1>5. CASE a > MAX_BODY
  <2>1. (a + b > MAX_BODY) = TRUE /\ t = TRUE /\ ~(a + b <= MAX_BODY)
    BY <1>0, <1>5
  <2>2. x = Request(e, Prefix(sid, n), TRUE)
    BY Zenon, <1>1, <1>4, <2>1
  <2>3. Keeps(sid, e, n, a + b, x)
    BY Zenon, <2>1, <2>2 DEF Keeps
  <2> QED
    BY Zenon, <2>3 DEF x
<1>6. CASE ~(a > MAX_BODY) /\ n + b > MAX_BODY
  <2>1. n = a
    BY <1>0, <1>6 DEF Keeps
  <2>2. (a + b > MAX_BODY) = TRUE /\ ~(a + b <= MAX_BODY)
    BY <1>0, <1>6, <2>1
  <2>3. x = Request(e, Prefix(sid, n), TRUE)
    BY Zenon, <1>4, <1>6
  <2>4. Keeps(sid, e, n, a + b, x)
    BY Zenon, <2>2, <2>3 DEF Keeps
  <2> QED
    BY Zenon, <2>4 DEF x
<1>7. CASE ~(a > MAX_BODY) /\ ~(n + b > MAX_BODY)
  <2>1. n = a
    BY <1>0, <1>7 DEF Keeps
  <2>2. (a + b > MAX_BODY) = FALSE /\ t = FALSE /\ a + b \in 0..MAX_BODY
    BY <1>0, <1>7, <2>1
  <2>3. Prefix(sid, n) \o piece = Prefix(sid, a + b)
    <3>1. Prefix(sid, a) \o piece = Prefix(sid, a + b)
      BY Zenon, <1>g DEF Grows
    <3> QED
      BY Zenon, <2>1, <3>1
  <2>4. x = Request(e, Prefix(sid, a + b), FALSE)
    BY Zenon, <1>4, <1>7, <2>2, <2>3
  <2>5. Keeps(sid, e, a + b, a + b, x)
    BY Zenon, <2>2, <2>4 DEF Keeps
  <2> QED
    BY Zenon, <2>5 DEF x
<1> QED
  BY Zenon, <1>5, <1>6, <1>7

(* The event Data keeps the invariant. *)
LEMMA OnDataStep ==
  ASSUME RInv, NEW sid \in Sids, OnData(sid)
  PROVE  RInv'
<1> DEFINE a == read[sid] - 1
           l == req[sid].len
           e == req[sid].echo
<1>1. /\ Readable(sid) /\ Kind(sid) = "data"
      /\ UNCHANGED <<req, net, out, h3, broken, pending, left, step>>
  BY Zenon DEF OnData
<1>2. PICK n \in (read[sid] + 1)..arrived[sid] :
        /\ n <= l + 1 /\ read' = [read EXCEPT ![sid] = n]
        /\ reqs' = [reqs EXCEPT ![sid] =
                      Gathered(reqs[sid],
                               [k \in 1..(n - read[sid]) |-> Byte(sid, read[sid] + k - 1)])]
  BY Zenon DEF OnData
<1> DEFINE b == n - read[sid]
           piece == [k \in 1..b |-> Byte(sid, read[sid] + k - 1)]
           r == Gathered(reqs[sid], piece)
<1>3. /\ RespondTypeOK /\ read \in [Sids -> Nat] /\ arrived \in [Sids -> Nat] /\ ByStream(reqs)
      /\ HeldOf(sid) /\ reset[sid] = "no"
  BY Zenon, <1>1 DEF RInv, RespondTypeOK, Readable
<1>4. l \in Nat /\ Items(sid) \in Nat /\ l + 1 < Items(sid)
  BY Zenon, <1>3, ReqFields, ItemsIn
<1> HIDE DEF l
<1>5. n \in Nat /\ read[sid] < n /\ n <= arrived[sid] /\ n # Items(sid) /\ n <= l + 1
  BY <1>2, <1>3, <1>4
<1>6. read[sid] \in Nat /\ read[sid] > 0 /\ read[sid] <= l
  <2>1. IsKind(read[sid] + 1, Items(sid), l, Kind(sid))
    BY Zenon, <1>3, KindOf DEF l
  <2>2. read[sid] + 1 # 1
    BY Zenon, <1>1, <2>1 DEF IsKind
  <2> QED
    BY <1>3, <1>4, <1>5, <2>2
<1>7. Reading(sid) /\ ~(read[sid] > l + 1) /\ read[sid] <= l + 1
  BY <1>3, <1>4, <1>6 DEF Reading, Whole
<1>8. PICK m \in 0..MAX_BODY :
        /\ read[sid] <= MAX_BODY + 1 => m = read[sid] - 1
        /\ reqs[sid] = Request(e, Prefix(sid, m), read[sid] > MAX_BODY + 1)
  BY Zenon, <1>3, <1>7 DEF HeldOf, l
<1>9. Keeps(sid, e, m, a, reqs[sid])
  <2>1. (read[sid] <= MAX_BODY + 1) = (a <= MAX_BODY)
    BY <1>6, RespondAssumption
  <2>2. (read[sid] > MAX_BODY + 1) = (a > MAX_BODY)
    BY <1>6, RespondAssumption
  <2> QED
    BY Zenon, <1>8, <2>1, <2>2 DEF Keeps
<1>10. a \in Nat /\ b \in Nat /\ a + b = n - 1
  BY <1>5, <1>6
<1>11. piece = [k \in 1..b |-> Byte(sid, a + k)]
  <2>1. \A k \in 1..b : read[sid] + k - 1 = a + k
    BY <1>6, <1>10
  <2> HIDE DEF a, b
  <2> QED
    BY Zenon, <2>1
<1>12. PICK m2 : Keeps(sid, e, m2, n - 1, r)
  <2>1. \E m2 : Keeps(sid, e, m2, a + b, r)
    <3> HIDE DEF a, b, piece, e
    <3> QED
      BY Zenon, <1>9, <1>10, <1>11, GatheredKeeps
  <2> QED
    BY Zenon, <1>10, <2>1
<1> HIDE DEF a, b, r
<1>13. read'[sid] = n /\ reqs'[sid] = r /\ Items(sid)' = Items(sid) /\ reset' = reset /\ req' = req
  <2>1. reset' = reset /\ Items(sid)' = Items(sid) /\ req' = req
    BY Zenon, <1>1, Steady DEF net
  <2>2. read'[sid] = n
    BY Zenon, <1>2, <1>3
  <2>3. reqs'[sid] = r
    BY Zenon, <1>2, <1>3 DEF ByStream, r, b
  <2> QED
    BY Zenon, <2>1, <2>2, <2>3
<1>14. HeldOf(sid)'
  <2>1. Reading(sid)'
    BY <1>3, <1>5, <1>13 DEF Reading, Whole
  <2>2. (n <= MAX_BODY + 1) = (n - 1 <= MAX_BODY)
    BY <1>5, RespondAssumption
  <2>3. (n > MAX_BODY + 1) = (n - 1 > MAX_BODY)
    BY <1>5, RespondAssumption
  <2>4. /\ m2 \in 0..MAX_BODY
        /\ n <= MAX_BODY + 1 => m2 = n - 1
        /\ r = Request(e, Prefix(sid, m2), n > MAX_BODY + 1)
    BY Zenon, <1>12, <2>2, <2>3 DEF Keeps
  <2> QED
    BY Zenon, <1>5, <1>13, <2>1, <2>4 DEF HeldOf, l
<1>15. reqs' = [reqs EXCEPT ![sid] = r]
  BY Zenon, <1>2 DEF r, b
<1> QED
  BY Zenon, <1>1, <1>2, <1>5, <1>14, <1>15, ReadsOn

(* What a stream carries, of a response of which n bytes were sent, and what
   waits for it. *)
Owes(sid, st, B, n, o, p) ==
  \/ o = Unsent /\ n = 0 /\ p = Wait(sid, TRUE, st, 0, B)
  \/ o = Sent(st, B, n) /\ n # Len(B) /\ p = Wait(sid, FALSE, st, n, B)

Far(sid, n, o, p) ==
  /\ p.stream = sid /\ o.headers = (IF o = Unsent THEN 0 ELSE 1) /\ Len(o.body) = n
  /\ o = Unsent => n = 0

(* How far a response that is owed has come. *)
LEMMA OwesFields ==
  ASSUME NEW S, NEW B \in Seq(S), NEW st, NEW sid, NEW n \in 0..Len(B), NEW o, NEW p,
         Owes(sid, st, B, n, o, p)
  PROVE  Far(sid, n, o, p)
<1>1. CASE o = Unsent /\ n = 0 /\ p = Wait(sid, TRUE, st, 0, B)
  BY <1>1, UnsentFields DEF Wait, Far
<1>2. CASE o = Sent(st, B, n) /\ p = Wait(sid, FALSE, st, n, B)
  <2>1. Carries(o, st, B, n)
    BY Zenon, <1>2, SentFields
  <2>2. p.stream = sid
    BY Zenon, <1>2 DEF Wait
  <2> QED
    BY Zenon, <2>1, <2>2 DEF Carries, Far
<1> QED
  BY Zenon, <1>1, <1>2 DEF Owes

(* What a stream carries after resume, and what waits for it. *)
LEMMA Served ==
  ASSUME RespondTypeOK, NEW sid \in Sids, req' = req, window' = window, Whole(sid)', reset'[sid] # "told",
         NEW n \in 0..Len(RightBody(sid)), NEW o, NEW room \in Nat, NEW x,
         window[sid] = room + (IF o = Unsent THEN 0 ELSE 1 + n),
         Advances(sid, RightStatus(sid), RightBody(sid), n, o, room, x),
         out'[sid] = x.o, pending'[sid] = (IF x.keep THEN <<x.p>> ELSE <<>>), left'[sid] = <<>>
  PROVE  SentOf(sid)' /\ WaitingOf(sid)'
<1> DEFINE B == RightBody(sid)
           st == RightStatus(sid)
<1>1. B \in Seq(Bytes) /\ Len(B) \in Nat
  <2>1. B \in Seq(Bytes)
    BY Zenon, RightIn
  <2> HIDE DEF B
  <2> QED
    BY <2>1
<1>2. RightBody(sid)' = B /\ RightStatus(sid)' = st
  BY Zenon, Steady
<1>3. window[sid] \in Nat
  BY RespondAssumption DEF RespondTypeOK, MaxWindow
<1> HIDE DEF B, st
<1>4. CASE o = Unsent /\ x.keep /\ x.p = Wait(sid, TRUE, st, 0, B) /\ x.o = o
  <2>1. out'[sid] = Unsent /\ pending'[sid] = <<x.p>>
    BY Zenon, <1>4
  <2>2. out'[sid].headers = 0 /\ Len(out'[sid].body) = 0 /\ ~out'[sid].fin
    BY <2>1, UnsentFields
  <2>3. SentOf(sid)'
    <3>1. Room(sid)' >= 0
      BY <1>3, <2>2 DEF Room
    <3> QED
      BY Zenon, <2>1, <3>1 DEF SentOf
  <2>4. Rest(sid)' = x.p
    BY Zenon, <1>2, <1>4, <2>2 DEF Rest
  <2>5. <<x.p>> # <<>>
    OBVIOUS
  <2>6. WaitingOf(sid)'
    BY Zenon, <2>1, <2>2, <2>4, <2>5 DEF WaitingOf
  <2> QED
    BY Zenon, <2>3, <2>6
<1>5. ASSUME NEW m \in n..Len(B),
             /\ x.o = Sent(st, B, m)
             /\ x.keep => m # Len(B) /\ x.p = Wait(sid, FALSE, st, m, B)
             /\ ~x.keep => m = Len(B)
             /\ 1 + m <= room + (IF o = Unsent THEN 0 ELSE 1 + n)
      PROVE  SentOf(sid)' /\ WaitingOf(sid)'
  <2>0. m \in 0..Len(B)
    BY <1>1 DEF B
  <2>1. Carries(out'[sid], st, B, m)
    <3> HIDE DEF B, st
    <3>1. Carries(Sent(st, B, m), st, B, m)
      BY Zenon, <1>1, <2>0, SentFields
    <3> QED
      BY Zenon, <1>1, <1>5, <3>1
  <2>2. out'[sid].headers = 1 /\ Len(out'[sid].body) = m /\ (out'[sid].fin <=> m = Len(B))
    BY Zenon, <2>1 DEF Carries
  <2>3. SentOf(sid)'
    <3>1. 1 + m <= window[sid]
      BY Zenon, <1>5
    <3>2. Room(sid)' >= 0
      BY <1>3, <2>0, <2>2, <3>1 DEF Room
    <3> QED
      BY Zenon, <1>2, <1>5, <2>0, <3>2 DEF SentOf
  <2>4. Rest(sid)' = Wait(sid, FALSE, st, m, B)
    <3>1. (1 = 0) = FALSE
      OBVIOUS
    <3> QED
      BY Zenon, <1>2, <2>2, <3>1 DEF Rest
  <2>5. <<x.p>> # <<>>
    OBVIOUS
  <2>6. CASE x.keep
    <3>1. pending'[sid] = <<Rest(sid)'>> /\ ~out'[sid].fin /\ pending'[sid] # <<>>
      BY Zenon, <1>5, <2>2, <2>4, <2>5, <2>6
    <3> QED
      BY Zenon, <2>3, <3>1 DEF WaitingOf
  <2>7. CASE ~x.keep
    <3>1. pending'[sid] = <<>> /\ out'[sid].fin
      BY Zenon, <1>5, <2>2, <2>7
    <3> QED
      BY Zenon, <2>3, <3>1 DEF WaitingOf
  <2> QED
    BY Zenon, <2>6, <2>7
<1> QED
  BY Zenon, <1>4, <1>5 DEF Advances, B, st

(* After resume a stream's response is complete or kept with what is left. *)
LEMMA Resumes ==
  ASSUME RInv, NEW sid \in Sids, UNCHANGED <<req, window, stopped>>, Whole(sid)',
         reset'[sid] # "told",
         Room(sid) >= 0, NEW n \in 0..Len(RightBody(sid)), NEW p, NEW x, x = Resume(p),
         Owes(sid, RightStatus(sid), RightBody(sid), n, out[sid], p),
         out'[sid] = x.o, pending'[sid] = (IF x.keep THEN <<x.p>> ELSE <<>>), left'[sid] = <<>>
  PROVE  SentOf(sid)' /\ WaitingOf(sid)'
<1> DEFINE B == RightBody(sid)
           st == RightStatus(sid)
           o == out[sid]
           room == Room(sid)
<1>1. RespondTypeOK /\ B \in Seq(Bytes)
  BY Zenon, RightIn DEF RInv
<1>2. /\ p.stream = sid /\ o.headers = (IF o = Unsent THEN 0 ELSE 1) /\ Len(o.body) = n
      /\ o = Unsent => n = 0
  <2>1. Far(sid, n, o, p)
    BY Zenon, <1>1, OwesFields
  <2> QED
    BY Zenon, <2>1 DEF Far
<1>3. window[sid] \in Nat /\ n \in Nat
  <2>1. Len(B) \in Nat
    BY <1>1
  <2> HIDE DEF B
  <2> QED
    BY <1>1, <2>1, RespondAssumption DEF RespondTypeOK, MaxWindow, B
<1>4. room \in Nat /\ window[sid] = room + (IF o = Unsent THEN 0 ELSE 1 + n)
  <2> DEFINE w == window[sid]
             h == o.headers
  <2>0. o = Unsent => n = 0
    BY Zenon, <1>2
  <2>1. room = w - h - n /\ h = (IF o = Unsent THEN 0 ELSE 1)
    BY Zenon, <1>2 DEF Room
  <2>2. room >= 0 /\ w \in Nat
    BY Zenon, <1>3
  <2> HIDE DEF o, room, w, h
  <2>3. room \in Nat /\ w = room + (IF o = Unsent THEN 0 ELSE 1 + n)
    BY <1>3, <2>0, <2>1, <2>2
  <2> QED
    BY Zenon, <2>3 DEF w
<1>5. CASE sid \notin stopped
  <2>1. x = Resumed(p, o, room)
    BY Zenon, <1>2, <1>5 DEF Resume
  <2> HIDE DEF B, st, o, room
  <2>2. Advances(sid, st, B, n, o, room, x)
    <3>1. n \in 0..Len(B) /\ B \in Seq(Bytes) /\ room \in Nat
      BY Zenon, <1>1, <1>4 DEF B
    <3>2. \/ o = Unsent /\ n = 0 /\ p = Wait(sid, TRUE, st, 0, B)
          \/ o = Sent(st, B, n) /\ n # Len(B) /\ p = Wait(sid, FALSE, st, n, B)
      BY Zenon DEF Owes, B, st, o
    <3>3. Advances(sid, st, B, n, o, room, Resumed(p, o, room))
      BY Zenon, <3>1, <3>2, ResumedRight
    <3> QED
      BY Zenon, <2>1, <3>3
  <2> QED
    BY Zenon, <1>1, <1>4, <2>2, Served DEF B, st
<1>6. CASE sid \in stopped
  <2>1. x = [keep |-> FALSE, p |-> p, o |-> o]
    BY Zenon, <1>2, <1>6 DEF Resume
  <2>2. x.keep = FALSE /\ x.o = o
    BY <2>1
  <2>3. out'[sid] = out[sid] /\ pending'[sid] = <<>>
    BY Zenon, <2>2
  <2>4. SentOf(sid)'
    <3>1. Room(sid)' = Room(sid)
      BY Zenon, <2>3 DEF Room
    <3> QED
      BY Zenon, <2>3, <3>1, Steady DEF SentOf, Owes
  <2>5. WaitingOf(sid)'
    BY Zenon, <1>6, <2>3 DEF WaitingOf
  <2> QED
    BY Zenon, <2>4, <2>5
<1> QED
  BY Zenon, <1>5, <1>6

(* A whole request gets the right response. *)
LEMMA AnswerRight ==
  ASSUME RespondTypeOK, NEW sid \in Sids, HeldOf(sid), reset[sid] # "told", read[sid] + 1 = Items(sid)
  PROVE  /\ reqs[sid].some = TRUE
         /\ Answer(sid, reqs[sid]) = Wait(sid, TRUE, RightStatus(sid), 0, RightBody(sid))
<1> DEFINE l == req[sid].len
           e == req[sid].echo
           r == reqs[sid]
           st == IF r.too_large THEN 413 ELSE IF r.echo THEN 200 ELSE 404
           body == IF st = 200 THEN r.body ELSE Text
<1>1. Answer(sid, r) = Wait(sid, TRUE, st, 0, body)
  BY Zenon DEF Answer, Wait
<1>2. l \in Nat /\ e \in BOOLEAN /\ req[sid].trailers \in BOOLEAN
      /\ Items(sid) = l + (IF req[sid].trailers THEN 3 ELSE 2)
  BY Zenon, ReqFields
<1>3. read[sid] \in Nat
  BY DEF RespondTypeOK
<1> HIDE DEF l
<1>4. read[sid] = IF req[sid].trailers THEN l + 2 ELSE l + 1
  BY <1>2, <1>3
<1>5. Reading(sid)
  BY <1>2, <1>3, <1>4 DEF Reading, Whole
<1>6. CASE req[sid].trailers
  <2>1. ~(read[sid] <= l + 1)
    BY <1>2, <1>4, <1>6
  <2>2. r = Request(FALSE, <<>>, FALSE)
    BY Zenon, <1>5, <2>1 DEF HeldOf, l
  <2>3. r.some = TRUE /\ r.echo = FALSE /\ r.too_large = FALSE
    BY <2>2 DEF Request
  <2>4. st = 404 /\ body = Text
    BY <2>3
  <2>5. RightStatus(sid) = 404 /\ RightBody(sid) = Text
    BY <1>6 DEF RightStatus, RightBody
  <2> HIDE DEF st, body, r
  <2> QED
    <3>1. st = RightStatus(sid) /\ body = RightBody(sid)
      BY Zenon, <2>4, <2>5
    <3>2. Answer(sid, r) = Wait(sid, TRUE, RightStatus(sid), 0, RightBody(sid))
      BY Zenon, <1>1, <3>1
    <3> QED
      BY Zenon, <2>3, <3>2 DEF r
<1>7. CASE ~req[sid].trailers
  <2>1. read[sid] = l + 1 /\ ~(read[sid] > l + 1)
    BY <1>2, <1>4, <1>7
  <2>2. PICK n \in 0..MAX_BODY :
          /\ read[sid] <= MAX_BODY + 1 => n = read[sid] - 1
          /\ r = Request(e, Prefix(sid, n), read[sid] > MAX_BODY + 1)
    BY Zenon, <1>5, <2>1 DEF HeldOf, l
  <2>3. /\ l <= MAX_BODY => n = l
        /\ (read[sid] > MAX_BODY + 1) = (l > MAX_BODY)
    BY <1>2, <2>1, <2>2, RespondAssumption
  <2> DEFINE t == l > MAX_BODY
  <2>4. r = Request(e, Prefix(sid, n), t)
    BY Zenon, <2>2, <2>3
  <2>5. Edits(e, Prefix(sid, n), t, r)
    <3> DEFINE b == Prefix(sid, n)
    <3> HIDE DEF b, t, r, e
    <3> QED
      BY Zenon, <2>4, ReqEdits DEF b
  <2>6. r.some = TRUE /\ r.echo = e /\ r.too_large = t /\ r.body = Prefix(sid, n)
    BY Zenon, <2>5 DEF Edits
  <2>t. t \in BOOLEAN
    BY <1>2, RespondAssumption
  <2> HIDE DEF r, t, e
  <2>7. st = IF t THEN 413 ELSE IF e THEN 200 ELSE 404
    BY <2>6
  <2>a. RightStatus(sid) = IF t THEN 413 ELSE IF e THEN 200 ELSE 404
    <3>1. RightStatus(sid) = Expected(sid)
      BY Zenon, <1>7 DEF RightStatus
    <3> QED
      BY Zenon, <3>1 DEF Expected, l, e, t
  <2> HIDE DEF st
  <2>b. body = IF st = 200 THEN Prefix(sid, n) ELSE Text
    BY Zenon, <2>6
  <2> HIDE DEF body
  <2>8. st = 200 => Prefix(sid, n) = RequestBody(sid)
    <3>1. st = 200 => ~t
      BY <2>7, <2>t
    <3>2. ~t => l <= MAX_BODY
      BY <1>2, RespondAssumption DEF t
    <3> QED
      BY Zenon, <2>3, <3>1, <3>2 DEF RequestBody, l
  <2>c. st = RightStatus(sid)
    BY Zenon, <2>7, <2>a
  <2>9. body = RightBody(sid)
    BY Zenon, <2>8, <2>b, <2>c DEF RightBody
  <2> QED
    BY Zenon, <1>1, <2>6, <2>c, <2>9 DEF r
<1> QED
  BY Zenon, <1>6, <1>7

(* The event Finished keeps the invariant. *)
LEMMA OnFinishedStep ==
  ASSUME RInv, NEW sid \in Sids, OnFinished(sid)
  PROVE  RInv'
<1> DEFINE n == read[sid] + 1
           p == Answer(sid, reqs[sid])
           x == Resume(p)
<1>1. /\ Readable(sid) /\ Kind(sid) = "fin"
      /\ read' = [read EXCEPT ![sid] = n] /\ reqs' = [reqs EXCEPT ![sid] = NoReq]
      /\ UNCHANGED <<req, net, h3, broken, left, step>>
  BY Zenon DEF OnFinished
<1>2. /\ RespondTypeOK /\ read \in [Sids -> Nat] /\ arrived \in [Sids -> Nat] /\ HeldOf(sid) /\ SentOf(sid)
      /\ ByStream(reqs) /\ ByStream(out) /\ ByStream(pending) /\ ByStream(left)
      /\ reset[sid] = "no" /\ read[sid] < arrived[sid]
  BY Zenon, <1>1 DEF RInv, RespondTypeOK, Readable
<1>3. /\ UNCHANGED <<req, window, stopped, step>> /\ UNCHANGED <<arrived, reset, established>>
      /\ UNCHANGED <<h3, broken, left>>
  BY Zenon, <1>1 DEF net
<1>4. n = Items(sid)
  <2>1. IsKind(n, Items(sid), req[sid].len, Kind(sid))
    BY Zenon, <1>2, KindOf
  <2> QED
    BY Zenon, <1>1, <2>1 DEF IsKind
<1>5. n \in Nat /\ n <= arrived[sid] /\ read[sid] # n
  BY <1>2
<1>6. ~Whole(sid)
  BY Zenon, <1>4, <1>5 DEF Whole
<1>7. out[sid] = Unsent /\ pending[sid] = <<>> /\ left[sid] = <<>>
  BY Zenon, <1>6, Early
<1>8. reqs[sid].some = TRUE /\ p = Wait(sid, TRUE, RightStatus(sid), 0, RightBody(sid))
  <2>1. reset[sid] # "told"
    BY <1>2
  <2> QED
    BY Zenon, <1>2, <1>4, <2>1, AnswerRight
<1>9. /\ out' = [out EXCEPT ![sid] = x.o]
      /\ pending' = [pending EXCEPT ![sid] = IF x.keep THEN Append(@, x.p) ELSE @]
  BY Zenon, <1>8 DEF OnFinished
<1> HIDE DEF x, p
<1>10. /\ read' \in [Sids -> Nat] /\ read'[sid] = n
       /\ \A s \in Sids : s # sid => read'[s] = read[s]
  BY Zenon, <1>1, <1>2, <1>5
<1>11. /\ ByStream(reqs)' /\ reqs'[sid] = NoReq
       /\ \A s \in Sids : s # sid => reqs'[s] = reqs[s]
  BY Zenon, <1>1, <1>2 DEF ByStream
<1>12. /\ ByStream(out)' /\ out'[sid] = x.o
       /\ \A s \in Sids : s # sid => out'[s] = out[s]
  BY Zenon, <1>2, <1>9 DEF ByStream
<1>13. /\ ByStream(pending)' /\ pending'[sid] = (IF x.keep THEN <<x.p>> ELSE <<>>)
       /\ \A s \in Sids : s # sid => pending'[s] = pending[s]
  <2>1. Append(<<>>, x.p) = <<x.p>>
    OBVIOUS
  <2> QED
    BY Zenon, <1>2, <1>7, <1>9, <2>1 DEF ByStream
<1>14. \A s \in Sids : Items(s)' = Items(s)
  BY Zenon, <1>3, Steady
<1>15. RespondTypeOK'
  <2>1. \A s \in Sids : read'[s] <= arrived[s]
    BY Zenon, <1>2, <1>5, <1>10 DEF RespondTypeOK
  <2>2. ByStream(left)'
    BY Zenon, <1>2, <1>3 DEF ByStream
  <2> QED
    BY Zenon, <1>2, <1>3, <1>10, <1>11, <1>12, <1>13, <1>14, <2>1, <2>2 DEF RespondTypeOK
<1>16. Whole(sid)'
  BY Zenon, <1>4, <1>10, <1>14 DEF Whole
<1>17. HeldOf(sid)'
  BY Zenon, <1>11, <1>16 DEF HeldOf, Reading
<1>18. SentOf(sid)' /\ WaitingOf(sid)'
  <2>1. Owes(sid, RightStatus(sid), RightBody(sid), 0, out[sid], p)
    BY Zenon, <1>7, <1>8 DEF Owes
  <2>2. 0 \in 0..Len(RightBody(sid))
    <3>1. RightBody(sid) \in Seq(Bytes)
      BY Zenon, <1>2, RightIn
    <3> QED
      BY <3>1
  <2>3. Room(sid) >= 0
    BY Zenon, <1>2 DEF SentOf
  <2>4. reset'[sid] # "told" /\ left'[sid] = <<>>
    BY <1>2, <1>3, <1>7
  <2>5. UNCHANGED <<req, window, stopped>>
    BY Zenon, <1>3
  <2> QED
    BY Zenon, <1>12, <1>13, <1>16, <2>1, <2>2, <2>3, <2>4, <2>5, Resumes DEF x
<1> QED
  BY Zenon, <1>3, <1>10, <1>11, <1>12, <1>13, <1>15, <1>17, <1>18, StreamStep

(* The event Reset keeps the invariant. *)
LEMMA OnResetStep ==
  ASSUME RInv, NEW sid \in Sids, OnReset(sid)
  PROVE  RInv'
<1>1. /\ step = "poll" /\ reset[sid] = "sent" /\ reset' = [reset EXCEPT ![sid] = "told"]
      /\ reqs' = [reqs EXCEPT ![sid] = NoReq] /\ pending' = [pending EXCEPT ![sid] = <<>>]
      /\ UNCHANGED <<req, window, stopped, step>>
      /\ UNCHANGED <<arrived, established, read, out, h3, broken, left>>
  BY Zenon DEF OnReset
<1>2. /\ RespondTypeOK /\ SentOf(sid) /\ reset \in [Sids -> {"no", "sent", "told"}]
      /\ ByStream(reqs) /\ ByStream(pending) /\ ByStream(out) /\ ByStream(left)
  BY Zenon DEF RInv, RespondTypeOK
<1>3. /\ reset' \in [Sids -> {"no", "sent", "told"}] /\ reset'[sid] = "told"
      /\ \A s \in Sids : s # sid => reset'[s] = reset[s]
  BY Zenon, <1>1, <1>2
<1>4. /\ ByStream(reqs)' /\ reqs'[sid] = NoReq /\ \A s \in Sids : s # sid => reqs'[s] = reqs[s]
  BY Zenon, <1>1, <1>2 DEF ByStream
<1>5. /\ ByStream(pending)' /\ pending'[sid] = <<>>
      /\ \A s \in Sids : s # sid => pending'[s] = pending[s]
  BY Zenon, <1>1, <1>2 DEF ByStream
<1>6. left[sid] = <<>>
  <2>1. step # "resume"
    BY <1>1
  <2> QED
    BY Zenon, <2>1, NothingLeft
<1>7. RespondTypeOK'
  <2>1. \A s \in Sids : Items(s)' = Items(s)
    BY Zenon, <1>1, Steady
  <2>2. ByStream(out)' /\ ByStream(left)'
    BY Zenon, <1>1, <1>2 DEF ByStream
  <2> QED
    BY Zenon, <1>1, <1>2, <1>3, <1>4, <1>5, <2>1, <2>2 DEF RespondTypeOK
<1>8. HeldOf(sid)'
  BY Zenon, <1>3, <1>4 DEF HeldOf, Reading
<1>9. SentOf(sid)'
  <2>1. Room(sid)' = Room(sid) /\ (Whole(sid)' <=> Whole(sid))
    BY Zenon, <1>1, Steady DEF Room, Whole
  <2> QED
    BY Zenon, <1>1, <1>2, <2>1, Steady DEF SentOf
<1>10. WaitingOf(sid)'
  <2>1. reset'[sid] # "no"
    BY <1>3
  <2> QED
    BY Zenon, <1>1, <1>5, <1>6, <2>1 DEF WaitingOf
<1> QED
  BY Zenon, <1>1, <1>3, <1>4, <1>5, <1>7, <1>8, <1>9, <1>10, StreamStep

(* What waits is what the stream does not carry. *)
LEMMA RestOwed ==
  ASSUME RespondTypeOK, NEW sid \in Sids, SentOf(sid), ~out[sid].fin
  PROVE  \E n \in 0..Len(RightBody(sid)) :
           Owes(sid, RightStatus(sid), RightBody(sid), n, out[sid], Rest(sid))
<1> DEFINE B == RightBody(sid)
           st == RightStatus(sid)
           o == out[sid]
<1>1. B \in Seq(Bytes)
  BY Zenon, RightIn
<1>2. Rest(sid) = Wait(sid, o.headers = 0, st, Len(o.body), B)
  BY Zenon DEF Rest
<1> HIDE DEF B, st, o
<1>3. CASE o = Unsent
  <2>1. o.headers = 0 /\ Len(o.body) = 0
    BY <1>3, UnsentFields
  <2>2. Owes(sid, st, B, 0, o, Rest(sid))
    BY Zenon, <1>2, <1>3, <2>1 DEF Owes
  <2>3. 0 \in 0..Len(B)
    BY <1>1
  <2> QED
    BY Zenon, <2>2, <2>3 DEF B, st, o
<1>4. ASSUME NEW n \in 0..Len(B), o = Sent(st, B, n)
      PROVE  Owes(sid, st, B, n, o, Rest(sid))
  <2>1. Carries(o, st, B, n)
    BY Zenon, <1>1, <1>4, SentFields
  <2>2. o.headers = 1 /\ Len(o.body) = n /\ n # Len(B)
    BY Zenon, <2>1 DEF Carries, o
  <2>3. (1 = 0) = FALSE
    OBVIOUS
  <2> QED
    BY Zenon, <1>2, <1>4, <2>2, <2>3 DEF Owes
<1> QED
  BY Zenon, <1>3, <1>4 DEF SentOf, B, st, o

(* Resuming a pending response keeps the invariant. *)
LEMMA ResumeNextStep ==
  ASSUME RInv, NEW sid \in Sids, ResumeNext(sid)
  PROVE  RInv'
<1> DEFINE x == Resume(Rest(sid))
<1>1. /\ left[sid] # <<>> /\ left' = [left EXCEPT ![sid] = Tail(@)]
      /\ UNCHANGED <<req, net, read, h3, broken, reqs, step>>
  BY Zenon DEF ResumeNext
<1>2. /\ RespondTypeOK /\ HeldOf(sid) /\ SentOf(sid) /\ WaitingOf(sid)
      /\ ByStream(reqs) /\ ByStream(pending) /\ ByStream(out) /\ ByStream(left)
  BY Zenon DEF RInv, RespondTypeOK
<1>3. /\ left[sid] = <<Rest(sid)>> /\ pending[sid] = <<>>
      /\ Whole(sid) /\ reset[sid] # "told" /\ ~out[sid].fin
  BY Zenon, <1>1, <1>2 DEF WaitingOf
<1>4. Head(left[sid]) = Rest(sid) /\ Tail(left[sid]) = <<>>
  <2> DEFINE p == Rest(sid)
  <2> HIDE DEF p
  <2>1. Head(<<p>>) = p /\ Tail(<<p>>) = <<>>
    OBVIOUS
  <2> QED
    BY Zenon, <1>3, <2>1 DEF p
<1>5. /\ out' = [out EXCEPT ![sid] = x.o]
      /\ pending' = [pending EXCEPT ![sid] = IF x.keep THEN Append(@, x.p) ELSE @]
  BY Zenon, <1>4 DEF ResumeNext
<1>6. /\ UNCHANGED <<req, window, stopped, step>> /\ UNCHANGED <<arrived, reset, established>>
      /\ UNCHANGED <<read, reqs, h3, broken>>
  BY Zenon, <1>1 DEF net
<1> HIDE DEF x
<1>7. /\ ByStream(left)' /\ left'[sid] = <<>> /\ \A s \in Sids : s # sid => left'[s] = left[s]
  BY Zenon, <1>1, <1>2, <1>4 DEF ByStream
<1>8. /\ ByStream(out)' /\ out'[sid] = x.o /\ \A s \in Sids : s # sid => out'[s] = out[s]
  BY Zenon, <1>2, <1>5 DEF ByStream
<1>9. /\ ByStream(pending)' /\ pending'[sid] = (IF x.keep THEN <<x.p>> ELSE <<>>)
      /\ \A s \in Sids : s # sid => pending'[s] = pending[s]
  <2>1. Append(<<>>, x.p) = <<x.p>>
    OBVIOUS
  <2> QED
    BY Zenon, <1>2, <1>3, <1>5, <2>1 DEF ByStream
<1>10. RespondTypeOK'
  <2>1. \A s \in Sids : Items(s)' = Items(s)
    BY Zenon, <1>6, Steady
  <2>2. ByStream(reqs)'
    BY Zenon, <1>2, <1>6 DEF ByStream
  <2> QED
    BY Zenon, <1>2, <1>6, <1>7, <1>8, <1>9, <2>1, <2>2 DEF RespondTypeOK
<1>11. Whole(sid)' /\ HeldOf(sid)'
  BY Zenon, <1>2, <1>3, <1>6, Steady DEF Whole, HeldOf, Reading
<1>12. SentOf(sid)' /\ WaitingOf(sid)'
  <2>1. PICK n \in 0..Len(RightBody(sid)) :
          Owes(sid, RightStatus(sid), RightBody(sid), n, out[sid], Rest(sid))
    BY Zenon, <1>2, <1>3, RestOwed
  <2>2. Room(sid) >= 0
    BY Zenon, <1>2 DEF SentOf
  <2>3. UNCHANGED <<req, window, stopped>> /\ reset'[sid] # "told"
    BY Zenon, <1>3, <1>6
  <2> QED
    BY Zenon, <1>7, <1>8, <1>9, <1>11, <2>1, <2>2, <2>3, Resumes DEF x
<1> QED
  BY Zenon, <1>6, <1>7, <1>8, <1>9, <1>10, <1>11, <1>12, StreamStep

(* Every step of the server's process keeps the invariant. *)
LEMMA RStep ==
  ASSUME RInv, [RespondNext]_respondVars
  PROVE  RInv'
<1>1. CASE UNCHANGED respondVars
  <2>1. /\ UNCHANGED <<req, read, out, reqs, pending, left>> /\ UNCHANGED <<h3, broken, step>>
        /\ UNCHANGED <<arrived, reset, stopped, window, established>>
    BY Zenon, <1>1 DEF respondVars, net
  <2>2. RespondTypeOK /\ RespondTypeOK'
    <3>1. \A s \in Sids : Items(s)' = Items(s)
      BY Zenon, <2>1, Steady
    <3> QED
      BY Zenon, <2>1, <3>1 DEF RInv, RespondTypeOK, ByStream
  <2>3. \A s \in Sids : window[s] <= window'[s]
    BY <2>1, <2>2 DEF RespondTypeOK
  <2>4. \A s \in Sids : left[s] # <<>> => step' = "resume"
    BY Zenon, <2>1 DEF RInv, WaitingOf
  <2> QED
    BY Zenon, <2>1, <2>2, <2>3, <2>4, NetStep
<1>2. CASE RespondNext
  <2>1. CASE \/ Establish
             \/ \E sid \in Sids : Deliver(sid) \/ Reset(sid) \/ Stop(sid) \/ Open(sid)
    BY Zenon, <2>1, FrameStep
  <2>2. CASE Step
    BY Zenon, <2>2, ProcessStep, PollDoneStep, OnHeadersStep, OnDataStep, OnFinishedStep,
       OnResetStep, ResumeNextStep DEF Step
  <2> QED
    BY Zenon, <1>2, <2>1, <2>2 DEF RespondNext
<1> QED
  BY Zenon, <1>1, <1>2

(* RInv holds throughout: what process holds of a request (reqs, pending) and
   what it sent of its response add up to the right response. *)
THEOREM RAlways == RespondSpec => []RInv
<1>1. RespondInit => RInv
  BY RInit
<1>2. RInv /\ [RespondNext]_respondVars => RInv'
  BY RStep
<1> QED
  BY <1>1, <1>2, PTL DEF RespondSpec

-----------------------------------------------------------------------------
(* Between two calls the server owes each stream exactly what it keeps for it:
   the rest of a response waits once, from where its stream stopped, until the
   stream ends, whatever was reset, refused or cut short, and a request that was
   reset or answered leaves nothing. *)
THEOREM KeepsWhatItOwes == RespondSpec => []OwedExactly
<1>1. RInv => OwedExactly
  <2> SUFFICES ASSUME RInv, step = "idle", NEW sid \in Sids
               PROVE  LET waiting == pending[sid] IN
                      /\ reqs[sid].some => ~Whole(sid) /\ reset[sid] # "told" /\ waiting = <<>>
                      /\ Len(waiting) <= 1
                      /\ waiting # <<>> => Whole(sid) /\ reset[sid] # "told" /\ ~out[sid].fin
                      /\ Whole(sid) /\ reset[sid] = "no" /\ sid \notin stopped /\ ~out[sid].fin
                           => waiting # <<>>
                      /\ \A k \in 1..Len(waiting) :
                           LET p == waiting[k] IN
                           p.off = Len(out[sid].body) /\ (p.headers <=> out[sid].headers = 0)
    BY Zenon DEF OwedExactly
  <2>1. RespondTypeOK /\ HeldOf(sid) /\ SentOf(sid) /\ WaitingOf(sid)
    BY Zenon DEF RInv
  <2>2. reqs[sid].some => Reading(sid)
    <3>1. ~NoReq.some
      BY DEF NoReq
    <3> QED
      BY Zenon, <2>1, <3>1 DEF HeldOf
  <2>3. reqs[sid].some => ~Whole(sid) /\ reset[sid] # "told" /\ pending[sid] = <<>>
    BY Zenon, <2>2, Early DEF Reading
  <2>4. step # "resume"
    OBVIOUS
  <2>5. left[sid] = <<>>
    BY Zenon, <2>4, NothingLeft
  <2>6. /\ pending[sid] # <<>> => Whole(sid) /\ reset[sid] # "told" /\ ~out[sid].fin
        /\ Whole(sid) /\ reset[sid] = "no" /\ sid \notin stopped /\ ~out[sid].fin
             => pending[sid] # <<>>
        /\ pending[sid] \in {<<>>, <<Rest(sid)>>}
    BY Zenon, <2>1, <2>5 DEF WaitingOf
  <2>7. /\ Rest(sid).off = Len(out[sid].body)
        /\ Rest(sid).headers <=> out[sid].headers = 0
    BY Zenon DEF Rest, Wait
  <2> DEFINE p == Rest(sid)
  <2> HIDE DEF p
  <2>8. /\ Len(<<>>) = 0 /\ Len(<<p>>) = 1 /\ <<p>>[1] = p
        /\ 1..0 = {} /\ 1..1 = {1} /\ 0 <= 1 /\ 1 <= 1
    OBVIOUS
  <2>9. Len(pending[sid]) <= 1 /\ \A k \in 1..Len(pending[sid]) : pending[sid][k] = p
    <3>1. CASE pending[sid] = <<>>
      BY Zenon, <2>8, <3>1
    <3>2. CASE pending[sid] = <<p>>
      BY Zenon, <2>8, <3>2
    <3> QED
      BY Zenon, <2>6, <3>1, <3>2 DEF p
  <2> QED
    BY Zenon, <2>3, <2>6, <2>7, <2>9 DEF p
<1> QED
  BY <1>1, RAlways, PTL

(* Every response stream carries a prefix of the one right response to its own
   request, after the headers and nothing before the request is whole, and ends
   with its last byte, for any body, any pieces it comes in and any windows. *)
THEOREM RespondsRight == RespondSpec => []ResponseIsRight
<1>1. RInv => ResponseIsRight
  <2> SUFFICES ASSUME RInv, NEW sid \in Sids
               PROVE  LET o == out[sid] IN
                      /\ o.status # 0 => Whole(sid)
                      /\ o.headers = 0 => o.body = <<>> /\ ~o.fin
                      /\ ~req[sid].trailers =>
                           /\ o.status \in {0, Expected(sid)}
                           /\ o.status # 0 =>
                                \E n \in 0..Len(ExpectedBody(sid)) :
                                  o.body = SubSeq(ExpectedBody(sid), 1, n)
                           /\ o.fin => o.body = ExpectedBody(sid)
    BY Zenon DEF ResponseIsRight
  <2> DEFINE o == out[sid]
             B == RightBody(sid)
             st == RightStatus(sid)
  <2>0. RespondTypeOK /\ SentOf(sid)
    BY Zenon DEF RInv
  <2>1. SentOf(sid) /\ B \in Seq(Bytes)
    BY Zenon, <2>0, RightIn
  <2>2. ~req[sid].trailers => st = Expected(sid) /\ B = ExpectedBody(sid)
    BY Zenon DEF RightStatus, RightBody, ExpectedBody
  <2> HIDE DEF B, st, o
  <2>3. CASE o = Unsent
    <3>1. o.status = 0 /\ o.body = <<>> /\ ~o.fin
      BY Zenon, <2>3, UnsentFields
    <3> QED
      BY Zenon, <3>1 DEF o
  <2>4. ASSUME Whole(sid), NEW n \in 0..Len(B), o = Sent(st, B, n)
        PROVE  /\ o.headers # 0 /\ o.status = st
               /\ \E m \in 0..Len(B) : o.body = SubSeq(B, 1, m)
               /\ o.fin => o.body = B
    <3>1. Carries(o, st, B, n)
      BY Zenon, <2>1, <2>4, SentFields
    <3>2. o.headers # 0 /\ o.status = st
      BY <3>1 DEF Carries
    <3>3. n = Len(B) => SubSeq(B, 1, n) = B
      BY <2>1
    <3> QED
      BY Zenon, <2>4, <3>1, <3>2, <3>3 DEF Carries
  <2>5. CASE o # Unsent
    <3>1. Whole(sid) /\ \E n \in 0..Len(B) : o = Sent(st, B, n)
      BY Zenon, <2>1, <2>5 DEF SentOf, B, st, o
    <3>2. /\ o.headers # 0 /\ o.status = st
          /\ \E m \in 0..Len(B) : o.body = SubSeq(B, 1, m)
          /\ o.fin => o.body = B
      BY Zenon, <2>4, <3>1
    <3> QED
      BY Zenon, <2>2, <3>1, <3>2 DEF o
  <2> QED
    BY Zenon, <2>3, <2>5
<1> QED
  BY <1>1, RAlways, PTL

-----------------------------------------------------------------------------
(***************************************************************************)
(* The safety of the worker of the quiche server, for any number of        *)
(* sockets, connections, IDs, datagrams and moments.                       *)
(***************************************************************************)

-----------------------------------------------------------------------------
(* Lists: ready sockets, free slots and dirty connections. *)

LEMMA ListAppend ==
  ASSUME NEW S, NEW q \in Seq(S), NEW x \in S
  PROVE  /\ Append(q, x) \in Seq(S) /\ Range(Append(q, x)) = Range(q) \cup {x}
         /\ IsInjective(q) /\ x \notin Range(q) => IsInjective(Append(q, x))
<1> DEFINE a == Append(q, x)
<1>1. /\ a \in Seq(S) /\ Len(q) \in Nat /\ DOMAIN q = 1..Len(q)
      /\ DOMAIN a = 1..(Len(q) + 1) /\ a[Len(q) + 1] = x
      /\ \A n \in 1..Len(q) : a[n] = q[n]
  OBVIOUS
<1> HIDE DEF a
<1>2. \A n \in DOMAIN a : n = Len(q) + 1 \/ n \in DOMAIN q
  BY <1>1
<1>3. DOMAIN q \subseteq DOMAIN a /\ Len(q) + 1 \in DOMAIN a
  BY <1>1
<1>4. Range(a) = Range(q) \cup {x}
  BY Zenon, <1>1, <1>2, <1>3 DEF Range
<1>5. ASSUME IsInjective(q), x \notin Range(q)  PROVE  IsInjective(a)
  BY Zenon, <1>1, <1>2, <1>3, <1>5 DEF Range, IsInjective
<1> QED  BY <1>1, <1>4, <1>5 DEF a

(* What a list keeps when its last element is popped. *)
LEMMA ListFront ==
  ASSUME NEW S, NEW q \in Seq(S), q # <<>>
  PROVE  /\ SubSeq(q, 1, Len(q) - 1) \in Seq(S) /\ q[Len(q)] \in S /\ q[Len(q)] \in Range(q)
         /\ Range(SubSeq(q, 1, Len(q) - 1)) \cup {q[Len(q)]} = Range(q)
         /\ IsInjective(q) => /\ q[Len(q)] \notin Range(SubSeq(q, 1, Len(q) - 1))
                              /\ IsInjective(SubSeq(q, 1, Len(q) - 1))
<1> DEFINE f == SubSeq(q, 1, Len(q) - 1)
           m == Len(q)
<1>1. m \in Nat \ {0} /\ DOMAIN q = 1..m
  OBVIOUS
<1>2. f \in Seq(S) /\ DOMAIN f = 1..(m - 1) /\ \A n \in 1..(m - 1) : f[n] = q[n]
  BY <1>1
<1> HIDE DEF f, m
<1>3. \A n \in DOMAIN q : n = m \/ n \in DOMAIN f
  BY <1>1, <1>2
<1>4. DOMAIN f \subseteq DOMAIN q /\ m \in DOMAIN q /\ m \notin DOMAIN f
  BY <1>1, <1>2
<1>5. q[m] \in S
  BY <1>4
<1>6. Range(f) \cup {q[m]} = Range(q)
  BY Zenon, <1>2, <1>3, <1>4 DEF Range
<1>7. ASSUME IsInjective(q)  PROVE  q[m] \notin Range(f) /\ IsInjective(f)
  BY ZenonT(40), <1>2, <1>4, <1>7 DEF Range, IsInjective
<1> QED  BY <1>2, <1>5, <1>6, <1>7 DEF f, m

(* What a list keeps when its first element is taken. *)
LEMMA ListTail ==
  ASSUME NEW S, NEW q \in Seq(S), q # <<>>
  PROVE  Head(q) \in S /\ Tail(q) \in Seq(S) /\ Range(q) = {Head(q)} \cup Range(Tail(q))
<1>1. /\ Len(q) \in Nat \ {0} /\ DOMAIN q = 1..Len(q) /\ Head(q) = q[1] /\ Head(q) \in S
      /\ Tail(q) \in Seq(S) /\ DOMAIN Tail(q) = 1..(Len(q) - 1)
      /\ \A n \in 1..(Len(q) - 1) : Tail(q)[n] = q[n + 1]
  OBVIOUS
<1>2. \A n \in DOMAIN q : n = 1 \/ \E m \in DOMAIN Tail(q) : n = m + 1
  <2> SUFFICES ASSUME NEW n \in DOMAIN q, n # 1  PROVE  \E m \in DOMAIN Tail(q) : n = m + 1
    OBVIOUS
  <2>1. n - 1 \in DOMAIN Tail(q) /\ n = (n - 1) + 1
    BY <1>1
  <2> QED  BY <2>1
<1>3. 1 \in DOMAIN q /\ \A m \in DOMAIN Tail(q) : m + 1 \in DOMAIN q
  BY <1>1
<1>4. Range(q) \subseteq {Head(q)} \cup Range(Tail(q))
  <2> SUFFICES ASSUME NEW n \in DOMAIN q  PROVE  q[n] = Head(q) \/ q[n] \in Range(Tail(q))
    BY Zenon DEF Range
  <2>1. CASE n = 1
    BY <1>1, <2>1
  <2>2. ASSUME NEW m \in DOMAIN Tail(q), n = m + 1  PROVE  q[n] \in Range(Tail(q))
    <3>1. q[n] = Tail(q)[m]
      BY <1>1, <2>2
    <3> QED  BY Zenon, <3>1, <2>2 DEF Range
  <2> QED  BY Zenon, <1>2, <2>1, <2>2
<1>5. \A m \in DOMAIN Tail(q) : Tail(q)[m] \in Range(q)
  <2> SUFFICES ASSUME NEW m \in DOMAIN Tail(q)  PROVE  Tail(q)[m] \in Range(q)
    OBVIOUS
  <2>1. Tail(q)[m] = q[m + 1] /\ m + 1 \in DOMAIN q
    BY <1>1
  <2> QED  BY Zenon, <2>1 DEF Range
<1>6. {Head(q)} \cup Range(Tail(q)) \subseteq Range(q)
  BY Zenon, <1>1, <1>3, <1>5 DEF Range
<1> QED  BY <1>1, <1>4, <1>6

(* The events of a poll, in any order. *)
LEMMA ListAll ==
  ASSUME NEW S, NEW new \in InAnyOrder(S)
  PROVE  new \in Seq(S) /\ Range(new) = S
<1>1. PICK n \in 0..NumSockets : new \in [1..n -> S]
  BY Zenon DEF InAnyOrder
<1>2. Range(new) = S
  BY Zenon DEF InAnyOrder
<1>3. new \in Seq(S)
  BY <1>1, ServerAssumption
<1> QED  BY <1>2, <1>3

(* The elements of two lists joined. *)
LEMMA ListConcat ==
  ASSUME NEW S, NEW p \in Seq(S), NEW q \in Seq(S)
  PROVE  p \o q \in Seq(S) /\ Range(p \o q) = Range(p) \cup Range(q)
<1> DEFINE a == p \o q
<1>1. /\ a \in Seq(S) /\ Len(p) \in Nat /\ Len(q) \in Nat
      /\ DOMAIN p = 1..Len(p) /\ DOMAIN q = 1..Len(q) /\ DOMAIN a = 1..(Len(p) + Len(q))
      /\ \A n \in 1..Len(p) : a[n] = p[n]
      /\ \A n \in 1..Len(q) : a[Len(p) + n] = q[n]
  OBVIOUS
<1> HIDE DEF a
<1>2. \A n \in DOMAIN a : n \in DOMAIN p \/ \E m \in DOMAIN q : n = Len(p) + m
  <2> SUFFICES ASSUME NEW n \in DOMAIN a, n \notin DOMAIN p
               PROVE  \E m \in DOMAIN q : n = Len(p) + m
    OBVIOUS
  <2>1. n - Len(p) \in DOMAIN q /\ n = Len(p) + (n - Len(p))
    BY <1>1
  <2> QED  BY <2>1
<1>3. (\A n \in DOMAIN p : n \in DOMAIN a) /\ (\A m \in DOMAIN q : Len(p) + m \in DOMAIN a)
  BY <1>1
<1>4. \A n \in DOMAIN a : a[n] \in Range(p) \cup Range(q)
  <2> SUFFICES ASSUME NEW n \in DOMAIN a  PROVE  a[n] \in Range(p) \/ a[n] \in Range(q)
    BY Zenon
  <2>1. ASSUME n \in DOMAIN p  PROVE  a[n] \in Range(p)
    <3>1. a[n] = p[n]
      BY <1>1, <2>1
    <3> QED  BY Zenon, <2>1, <3>1 DEF Range
  <2>2. ASSUME NEW m \in DOMAIN q, n = Len(p) + m  PROVE  a[n] \in Range(q)
    <3>1. a[n] = q[m]
      BY <1>1, <2>2
    <3> QED  BY Zenon, <2>2, <3>1 DEF Range
  <2> QED  BY Zenon, <1>2, <2>1, <2>2
<1>5. \A n \in DOMAIN p : p[n] \in Range(a)
  <2> SUFFICES ASSUME NEW n \in DOMAIN p  PROVE  p[n] \in Range(a)
    OBVIOUS
  <2>1. p[n] = a[n] /\ n \in DOMAIN a
    BY <1>1
  <2> QED  BY Zenon, <2>1 DEF Range
<1>6. \A m \in DOMAIN q : q[m] \in Range(a)
  <2> SUFFICES ASSUME NEW m \in DOMAIN q  PROVE  q[m] \in Range(a)
    OBVIOUS
  <2>1. q[m] = a[Len(p) + m] /\ Len(p) + m \in DOMAIN a
    BY <1>1
  <2> QED  BY Zenon, <2>1 DEF Range
<1>7. Range(a) = Range(p) \cup Range(q)
  BY Zenon, <1>4, <1>5, <1>6 DEF Range
<1> QED  BY <1>1, <1>7 DEF a

-----------------------------------------------------------------------------
(* The heap: what a push and a pop do to its entries. *)

LEMMA HeapPush ==
  ASSUME NEW heap, IsAHeap(heap), NEW e
  PROVE  IsAHeap(Pushed(heap, e)) /\ Entries(Pushed(heap, e)) = Entries(heap) \cup {e}
BY DEF IsAHeap, Entries, Pushed

(* What the heap of timers keeps when one entry is popped. *)
LEMMA HeapPop ==
  ASSUME NEW heap, IsAHeap(heap), NEW e
  PROVE  /\ IsAHeap(Popped(heap, e))
         /\ Entries(Popped(heap, e)) \subseteq Entries(heap)
         /\ Entries(heap) \ {e} \subseteq Entries(Popped(heap, e))
BY DEF IsAHeap, Entries, Popped

-----------------------------------------------------------------------------
(* The network, the clock and the reading of the sockets. *)

LEMMA Constants ==
  /\ NumSockets \in Nat \ {0} /\ READ_BUDGET \in Nat \ {0} /\ MaxClients \in Nat \ {0}
  /\ MaxArrivals \in Nat \ {0} /\ MaxTime \in Nat \ {0} /\ Span \in Nat \ {0}
BY ServerAssumption

(* The types of what the reading of the sockets changes, and of the rest. *)
IoType ==
  /\ now \in 1..MaxTime
  /\ queued \in [Sockets -> 0..MaxArrivals] /\ failed \subseteq Sockets /\ edge \subseteq Sockets
  /\ arrivals \in 0..MaxArrivals
  /\ unread \in Seq(Sockets) /\ todo \in Seq(Sockets) /\ budget \in 0..READ_BUDGET
  /\ at \in {"poll", "read", "timers", "flush"}

SlotType ==
  /\ clients \in [Slots -> Client] /\ len \in 0..MaxClients /\ free \in Seq(Slots)
  /\ ids \in [Ids -> 0..MaxClients]
  /\ dirty \in Seq(Slots)
  /\ IsAHeap(timers) /\ Entries(timers) \subseteq Times \X Slots

(* TypeOK is the types of the sockets and those of the slots. *)
LEMMA Types == TypeOK <=> IoType /\ SlotType
BY Zenon DEF TypeOK, IoType, SlotType

(* The same of the next state. *)
LEMMA TypesNext == TypeOK' <=> IoType' /\ SlotType'
BY Zenon DEF TypeOK, IoType, SlotType

(* A step that leaves the slots, dirty and the timers alone keeps SInv. *)
LEMMA Apart ==
  ASSUME SInv, UNCHANGED <<slots, dirty, timers>>, IoType', UnreadInv',
         at' = "poll" => dirty = <<>>
  PROVE  SInv'
<1>1. clients' = clients /\ len' = len /\ free' = free /\ ids' = ids /\ dirty' = dirty /\ timers' = timers
  BY DEF slots
<1>2. IdsExact' /\ FreeExact' /\ DirtyExact'
  BY Zenon, <1>1 DEF SInv, IdsExact, FreeExact, DirtyExact
<1>3. ASSUME NEW i \in Slots  PROVE  ClientInv(clients[i], i)'
  BY Zenon, <1>1 DEF SInv, ClientInv
<1>4. SlotType
  BY Zenon, Types DEF SInv
<1>5. TypeOK'
  BY Zenon, <1>1, <1>4, TypesNext DEF SlotType
<1> QED  BY Zenon, <1>1, <1>2, <1>3, <1>5 DEF SInv

(* Datagrams that arrive, and sends that fail, keep SInv. *)
LEMMA ArriveInv ==
  ASSUME SInv, NEW s \in Sockets, Arrive(s) \/ SendFails(s)
  PROVE  SInv'
<1>1. UNCHANGED <<slots, dirty, timers>> /\ at' = at /\ unread' = unread /\ todo' = todo
  BY DEF Arrive, SendFails
<1>2. IoType /\ UnreadInv
  BY Types DEF SInv
<1>3. /\ arrivals' = arrivals + 1 /\ arrivals < MaxArrivals /\ edge' = edge \cup {s}
      /\ queued' = queued \/ queued' = [queued EXCEPT ![s] = @ + 1]
  BY DEF Arrive, SendFails
<1>4. arrivals \in Nat /\ arrivals' \in 0..MaxArrivals
  BY <1>2, <1>3, Constants DEF IoType
<1>5. \A q \in Sockets : queued[q] \in Nat /\ queued'[q] \in Nat /\ queued'[q] <= arrivals'
                         /\ (q # s => queued'[q] = queued[q])
  BY <1>2, <1>3, <1>4, Constants DEF IoType, UnreadInv
<1>6. queued' \in [Sockets -> 0..MaxArrivals]
  BY <1>2, <1>3, <1>4, <1>5, Constants DEF IoType
<1>7. IoType'
  BY <1>1, <1>2, <1>3, <1>4, <1>6 DEF IoType, Arrive, SendFails
<1>8. UnreadInv'
  BY <1>1, <1>2, <1>3, <1>5 DEF UnreadInv
<1> QED  BY <1>1, <1>7, <1>8, Apart DEF SInv

(* poll keeps SInv. *)
LEMMA PollInv ==
  ASSUME SInv, Poll
  PROVE  SInv'
<1>1. IoType /\ UnreadInv
  BY Types DEF SInv
<1> DEFINE E == edge \ Range(unread)
<1>2. E \subseteq Sockets
  BY <1>1 DEF IoType
<1>4. PICK new \in InAnyOrder(E) : todo' = unread \o new
  BY DEF Poll
<1>5. new \in Seq(E) /\ Range(new) = E
  BY Zenon, ListAll
<1> HIDE DEF E
<1>6. new \in Seq(Sockets)
  BY <1>2, <1>5
<1>7. todo' \in Seq(Sockets) /\ Range(todo') = Range(unread) \cup E
  <2>1. unread \in Seq(Sockets)
    BY <1>1 DEF IoType
  <2>2. unread \o new \in Seq(Sockets) /\ Range(unread \o new) = Range(unread) \cup Range(new)
    BY ZenonT(40), <1>6, <2>1, ListConcat
  <2> QED  BY Zenon, <1>4, <1>5, <2>2
<1>8. IoType'
  BY <1>1, <1>7, Constants DEF IoType, Poll
<1>9. UnreadInv'
  <2>1. \A s \in Sockets : queued[s] > 0 => s \in edge \cup Range(unread)
    <3>1. todo = <<>> /\ Range(<<>>) = {}
      BY <1>1 DEF UnreadInv, Poll, Range
    <3> QED  BY Zenon, <1>1, <3>1 DEF UnreadInv
  <2>2. queued' = queued /\ arrivals' = arrivals /\ at' = "read"
    BY DEF Poll
  <2>3. \A s \in Sockets : s \in edge \cup Range(unread) => s \in Range(todo')
    BY Zenon, <1>7 DEF E
  <2> QED  BY Zenon, <1>1, <2>1, <2>2, <2>3 DEF UnreadInv
<1> QED  BY <1>8, <1>9, Apart DEF Poll

(* The end of a socket's reads, empty or out of budget, keeps SInv. *)
LEMMA ReadListInv ==
  ASSUME SInv, ReadBlocked \/ ReadSpent
  PROVE  SInv'
<1>1. IoType /\ UnreadInv
  BY Types DEF SInv
<1> DEFINE s == Head(todo)
<1>2. todo \in Seq(Sockets) /\ todo # <<>>
  BY <1>1 DEF IoType, ReadBlocked, ReadSpent
<1>3. s \in Sockets /\ Tail(todo) \in Seq(Sockets) /\ Range(todo) = {s} \cup Range(Tail(todo))
  BY Zenon, <1>2, ListTail
<1>5. /\ todo' = Tail(todo) /\ at' = at /\ at = "read" /\ edge' = edge /\ queued' = queued
      /\ arrivals' = arrivals /\ now' = now /\ failed' \subseteq failed /\ budget' = READ_BUDGET
      /\ (queued[s] = 0 /\ unread' = unread) \/ unread' = Append(unread, s)
  BY DEF ReadBlocked, ReadSpent
<1> HIDE DEF s
<1>4. Append(unread, s) \in Seq(Sockets) /\ Range(Append(unread, s)) = Range(unread) \cup {s}
  <2>1. unread \in Seq(Sockets)
    BY <1>1 DEF IoType
  <2> QED  BY <1>3, <2>1, ListAppend
<1>6. IoType'
  <2>1. unread' \in Seq(Sockets) /\ todo' \in Seq(Sockets)
    BY Zenon, <1>1, <1>3, <1>4, <1>5 DEF IoType
  <2>2. READ_BUDGET \in 0..READ_BUDGET
    BY Constants
  <2>3. failed' \subseteq Sockets
    BY <1>1, <1>5 DEF IoType
  <2> QED  BY Zenon, <1>1, <1>5, <2>1, <2>2, <2>3 DEF IoType
<1>7. \A r \in Sockets : queued[r] > 0 => r \in edge \cup Range(unread') \cup Range(Tail(todo))
  <2> SUFFICES ASSUME NEW r \in Sockets, queued[r] > 0
               PROVE  r \in edge \cup Range(unread') \cup Range(Tail(todo))
    OBVIOUS
  <2>1. r \in edge \cup Range(unread) \cup Range(todo)
    BY Zenon, <1>1 DEF UnreadInv
  <2>2. queued[s] = 0 => r # s
    OBVIOUS
  <2> QED  BY Zenon, <1>3, <1>4, <1>5, <2>1, <2>2
<1>8. UnreadInv'
  BY Zenon, <1>1, <1>5, <1>7 DEF UnreadInv
<1> QED  BY <1>5, <1>6, <1>8, Apart DEF ReadBlocked, ReadSpent

(* The steps between the parts of the event loop keep SInv. *)
LEMMA PassInv ==
  ASSUME SInv, Tick \/ EndOfTime \/ ReadError \/ ReadDone \/ TimersDone \/ FlushDone
  PROVE  SInv'
<1>1. IoType /\ UnreadInv
  BY Types DEF SInv
<1>2. /\ UNCHANGED <<slots, dirty, timers>>
      /\ UNCHANGED <<queued, edge, arrivals, unread, todo>>
      /\ at' = at \/ todo = <<>> \/ at # "read"
      /\ at' = "poll" => at = "poll" \/ dirty = <<>>
      /\ at' = "read" => at = "read"
  BY DEF Tick, EndOfTime, ReadError, ReadDone, TimersDone, FlushDone, io, vars
<1>3. IoType'
  BY <1>1, Constants DEF IoType, Tick, EndOfTime, ReadError, ReadDone, TimersDone, FlushDone,
         io, vars
<1>4. UnreadInv'
  BY Zenon, <1>1, <1>2 DEF UnreadInv
<1> QED  BY <1>2, <1>3, <1>4, Apart DEF SInv

-----------------------------------------------------------------------------
(* The connections. *)

(* A connection that is marked dirty, as on_datagram and fire_timers do: the
   list stays exact, and its own timer is only set by the flush. *)
LEMMA Marking ==
  ASSUME SInv, NEW i \in Slots, NEW d \in Client, d.some, d.dirty,
         clients' = [clients EXCEPT ![i] = d], dirty' = MarkedList(clients[i], i),
         d.scheduled # None => <<d.scheduled, i>> \in Entries(timers'),
         \A j \in Slots : \A t : j # i /\ <<t, j>> \in Entries(timers) => <<t, j>> \in Entries(timers')
  PROVE  /\ clients' \in [Slots -> Client] /\ dirty' \in Seq(Slots) /\ DirtyExact'
         /\ \A j \in Slots : ClientInv(clients[j], j)'
<1>1. clients \in [Slots -> Client] /\ dirty \in Seq(Slots)
  BY Zenon DEF SInv, TypeOK
<1>2. clients' \in [Slots -> Client] /\ clients'[i] = d /\ \A j \in Slots : j # i => clients'[j] = clients[j]
  BY <1>1
<1>3. IsInjective(dirty) /\ Range(dirty) = {j \in Slots : clients[j].dirty}
  BY DEF SInv, DirtyExact
<1>4. dirty' \in Seq(Slots) /\ IsInjective(dirty') /\ Range(dirty') = Range(dirty) \cup {i}
  <2>1. CASE clients[i].dirty
    <3>1. dirty' = dirty /\ i \in Range(dirty)
      BY <1>3, <2>1 DEF MarkedList
    <3> QED  BY <1>1, <1>3, <3>1
  <2>2. CASE ~clients[i].dirty
    <3>1. dirty' = Append(dirty, i) /\ i \notin Range(dirty)
      BY <1>3, <2>2 DEF MarkedList
    <3> QED  BY <1>1, <1>3, <3>1, ListAppend
  <2> QED  BY <2>1, <2>2
<1>5. {j \in Slots : clients'[j].dirty} = {j \in Slots : clients[j].dirty} \cup {i}
  BY Zenon, <1>2
<1>6. DirtyExact'
  BY Zenon, <1>3, <1>4, <1>5 DEF DirtyExact
<1>7. ASSUME NEW j \in Slots  PROVE  ClientInv(clients[j], j)'
  <2>1. CASE j = i
    BY Zenon, <1>2, <2>1 DEF ClientInv
  <2>2. CASE j # i
    <3>1. ClientInv(clients[j], j)
      BY Zenon DEF SInv
    <3> QED  BY Zenon, <1>2, <2>2, <3>1 DEF ClientInv
  <2> QED  BY Zenon, <2>1, <2>2
<1> QED  BY Zenon, <1>2, <1>4, <1>6, <1>7

(* A step that leaves a connection its IDs. *)
LEMMA IdsKept ==
  ASSUME SInv, NEW i \in Slots, NEW d \in Client, clients' = [clients EXCEPT ![i] = d],
         d.ids = clients[i].ids, d.some = clients[i].some, UNCHANGED <<len, free, ids>>
  PROVE  IdsExact' /\ FreeExact'
<1>1. /\ clients \in [Slots -> Client] /\ ids \in [Ids -> 0..MaxClients] /\ len \in 0..MaxClients
  BY DEF SInv, TypeOK
<1>2. \A j \in Slots : clients'[j].ids = clients[j].ids /\ clients'[j].some = clients[j].some
  BY <1>1
<1>3. \A c \in Ids : ids[c] # 0 => ids[c] \in Slots
  BY <1>1, Constants DEF Slots
<1>4. 1..len \subseteq Slots
  BY <1>1, Constants DEF Slots
<1>5. IdsExact'
  <2>1. IdsExact /\ ids' = ids
    BY DEF SInv
  <2>2. \A c \in Ids : ids'[c] # 0 => c \in clients'[ids'[c]].ids
    BY ZenonT(40), <1>2, <1>3, <2>1 DEF IdsExact
  <2>3. \A j \in Slots : \A c \in clients'[j].ids : ids'[c] = j
    BY <1>2, <2>1 DEF IdsExact
  <2>4. \A j \in Slots : clients'[j].some <=> clients'[j].ids # {}
    BY ZenonT(40), <1>2, <2>1 DEF IdsExact
  <2> QED  BY Zenon, <2>2, <2>3, <2>4 DEF IdsExact
<1>6. {j \in 1..len : ~clients'[j].some} = {j \in 1..len : ~clients[j].some}
  BY Zenon, <1>2, <1>4
<1>7. FreeExact'
  BY Zenon, <1>2, <1>6 DEF SInv, FreeExact
<1> QED  BY <1>5, <1>7

(* A timeout that quiche reports is an instant or None. *)
LEMMA NewTimeout ==
  ASSUME IoType, NEW t \in Timeouts
  PROVE  t \in Times \cup {None}
BY Constants DEF IoType, Timeouts, Times, None

(* on_datagram for a known connection, and on_timeout. *)
LEMMA ReceivedInv ==
  ASSUME SInv, NEW i \in Slots, NEW c \in Client, Received(i, c), c.some,
         c.dirty = clients[i].dirty,
         c.scheduled # None => <<c.scheduled, i>> \in Entries(timers'),
         \A j \in Slots : \A t : j # i /\ <<t, j>> \in Entries(timers) => <<t, j>> \in Entries(timers')
  PROVE  /\ clients' \in [Slots -> Client] /\ dirty' \in Seq(Slots) /\ DirtyExact'
         /\ \A j \in Slots : ClientInv(clients[j], j)'
         /\ \E d \in Client : /\ clients' = [clients EXCEPT ![i] = d]
                              /\ d.ids = c.ids /\ d.some = c.some
<1>1. PICK t \in Timeouts, closed \in {c.closed, TRUE} :
           /\ clients' = [clients EXCEPT ![i] = [c EXCEPT !.timeout = t, !.closed = closed,
                                                          !.dirty = TRUE]]
           /\ dirty' = MarkedList(c, i)
  BY Zenon DEF Received
<1> DEFINE d == [c EXCEPT !.timeout = t, !.closed = closed, !.dirty = TRUE]
<1>2. t \in Times \cup {None}
  BY NewTimeout, Types DEF SInv
<1>3. /\ d \in Client /\ d.some /\ d.dirty /\ d.scheduled = c.scheduled /\ d.ids = c.ids
      /\ d.some = c.some
  BY Zenon, <1>2 DEF Client
<1>4. clients' = [clients EXCEPT ![i] = d] /\ dirty' = MarkedList(clients[i], i)
  BY <1>1 DEF MarkedList
<1> HIDE DEF d
<1>5. /\ clients' \in [Slots -> Client] /\ dirty' \in Seq(Slots) /\ DirtyExact'
      /\ \A j \in Slots : ClientInv(clients[j], j)'
  BY Zenon, <1>3, <1>4, Marking
<1> QED  BY Zenon, <1>3, <1>4, <1>5

(* alloc: the slot of a new connection is vacant, and taken off the free list. *)
LEMMA Allocated ==
  ASSUME SInv, AllocIdx <= MaxClients,
         len' = IF free # <<>> THEN len ELSE len + 1,
         free' = IF free # <<>> THEN SubSeq(free, 1, Len(free) - 1) ELSE free
  PROVE  /\ AllocIdx \in Slots /\ clients[AllocIdx] = NoClient /\ AllocIdx \in 1..len'
         /\ len' \in 0..MaxClients /\ free' \in Seq(Slots) /\ IsInjective(free')
         /\ Range(free') = {i \in 1..len : ~clients[i].some} \ {AllocIdx}
         /\ 1..len' = 1..len \cup {AllocIdx}
<1>1. len \in 0..MaxClients /\ free \in Seq(Slots) /\ clients \in [Slots -> Client]
  BY DEF SInv, TypeOK
<1>2. /\ IsInjective(free) /\ Range(free) = {i \in 1..len : ~clients[i].some}
      /\ \A i \in Slots : clients[i].some => i <= len
  BY DEF SInv, FreeExact
<1>3. \A i \in Slots : ~clients[i].some => clients[i] = NoClient
  BY Zenon DEF SInv, ClientInv
<1>4. CASE free # <<>>
  <2> DEFINE f == SubSeq(free, 1, Len(free) - 1)
             i == free[Len(free)]
  <2>1. /\ f \in Seq(Slots) /\ i \in Slots /\ i \in Range(free) /\ Range(f) \cup {i} = Range(free)
        /\ i \notin Range(f) /\ IsInjective(f)
    BY <1>1, <1>2, <1>4, ListFront
  <2>2. AllocIdx = i /\ free' = f /\ len' = len
    BY <1>4 DEF AllocIdx
  <2> HIDE DEF f, i
  <2>3. i \in 1..len /\ ~clients[i].some
    BY <1>2, <2>1
  <2>4. Range(f) = {k \in 1..len : ~clients[k].some} \ {i}
    BY Zenon, <1>2, <2>1
  <2> QED  BY Zenon, <1>1, <1>3, <2>1, <2>2, <2>3, <2>4
<1>5. CASE free = <<>>
  <2>1. AllocIdx = len + 1 /\ free' = <<>> /\ len' = len + 1 /\ Range(<<>>) = {}
    BY <1>5 DEF AllocIdx, Range
  <2>2. len + 1 \in Slots /\ len' \in 0..MaxClients /\ len + 1 \in 1..len' /\ ~(len + 1 <= len)
        /\ 1..len' = 1..len \cup {len + 1}
    BY <1>1, <2>1, Constants DEF Slots
  <2>3. ~clients[len + 1].some
    BY <1>2, <2>2
  <2>4. Range(free') = {i \in 1..len : ~clients[i].some} \ {AllocIdx}
    BY Zenon, <1>2, <1>5, <2>1
  <2> QED  BY <1>1, <1>2, <1>3, <1>5, <2>1, <2>2, <2>3, <2>4
<1> QED  BY <1>4, <1>5

(* on_datagram: a new connection. *)
LEMMA AcceptInv ==
  ASSUME SInv, NEW dcid \in Ids, NEW scid \in Ids, Accept(dcid, scid), timers' = timers
  PROVE  SlotType' /\ IdsExact' /\ FreeExact' /\ DirtyExact' /\ \A j \in Slots : ClientInv(clients[j], j)'
<1> DEFINE i == AllocIdx
           c == [NoClient EXCEPT !.some = TRUE, !.ids = {dcid, scid}]
<1>1. /\ ids[dcid] = 0 /\ ids[scid] = 0 /\ i <= MaxClients
      /\ ids' = [ids EXCEPT ![dcid] = i, ![scid] = i]
      /\ Received(i, c)
  BY DEF Accept
<1>2. /\ i \in Slots /\ clients[i] = NoClient /\ i \in 1..len'
      /\ len' \in 0..MaxClients /\ free' \in Seq(Slots) /\ IsInjective(free')
      /\ Range(free') = {j \in 1..len : ~clients[j].some} \ {i}
      /\ 1..len' = 1..len \cup {i}
  BY Allocated DEF Accept
<1>3. /\ c \in Client /\ c.some /\ c.dirty = NoClient.dirty /\ c.scheduled = None
      /\ c.ids = {dcid, scid}
  BY Zenon DEF Client, NoClient, None
<1> HIDE DEF i, c
<1>4. /\ clients' \in [Slots -> Client] /\ dirty' \in Seq(Slots) /\ DirtyExact'
      /\ \A j \in Slots : ClientInv(clients[j], j)'
      /\ \E d \in Client : clients' = [clients EXCEPT ![i] = d] /\ d.ids = c.ids /\ d.some = c.some
  BY Zenon, <1>1, <1>2, <1>3, ReceivedInv
<1>5. PICK d \in Client : clients' = [clients EXCEPT ![i] = d] /\ d.ids = {dcid, scid} /\ d.some
  BY Zenon, <1>3, <1>4
<1>6. SlotType /\ IdsExact /\ FreeExact
  BY Types DEF SInv
<1>7. /\ clients'[i] = d /\ \A j \in Slots : j # i => clients'[j] = clients[j]
  BY <1>2, <1>5, <1>6 DEF SlotType
<1>8. ids' \in [Ids -> 0..MaxClients] /\ \A e \in Ids : ids'[e] = IF e \in {dcid, scid} THEN i ELSE ids[e]
  BY <1>1, <1>2, <1>6, Constants DEF SlotType, Slots
<1>9. SlotType'
  BY Zenon, <1>2, <1>4, <1>6, <1>8 DEF SlotType
<1>10. IdsExact'
  <2>1. \A e \in Ids : ids[e] # 0 => ids[e] \in Slots /\ ids[e] # i
    <3> SUFFICES ASSUME NEW e \in Ids, ids[e] # 0  PROVE  ids[e] \in Slots /\ ids[e] # i
      OBVIOUS
    <3>1. ids[e] \in Slots
      BY <1>6, Constants DEF SlotType, Slots
    <3>2. e \in clients[ids[e]].ids /\ NoClient.ids = {}
      BY <1>6 DEF IdsExact, NoClient
    <3> QED  BY Zenon, <1>2, <3>1, <3>2
  <2>2. \A e \in Ids : ids'[e] # 0 => e \in clients'[ids'[e]].ids
    <3> SUFFICES ASSUME NEW e \in Ids, ids'[e] # 0  PROVE  e \in clients'[ids'[e]].ids
      OBVIOUS
    <3>1. CASE e \in {dcid, scid}
      BY Zenon, <1>5, <1>7, <1>8, <3>1
    <3>2. CASE e \notin {dcid, scid}
      BY ZenonT(40), <1>6, <1>7, <1>8, <2>1, <3>2 DEF IdsExact
    <3> QED  BY Zenon, <3>1, <3>2
  <2>3. ASSUME NEW j \in Slots, NEW e \in clients'[j].ids  PROVE  ids'[e] = j
    <3>1. CASE j = i
      BY <1>5, <1>7, <1>8, <3>1
    <3>2. CASE j # i
      <4>1. e \in clients[j].ids /\ e \in Ids
        BY <1>6, <1>7, <3>2 DEF SlotType, Client
      <4>2. ids[e] = j /\ j # 0
        BY <1>6, <4>1 DEF IdsExact, Slots
      <4> QED  BY <1>1, <1>8, <4>1, <4>2
    <3> QED  BY <3>1, <3>2
  <2>4. \A j \in Slots : clients'[j].some <=> clients'[j].ids # {}
    <3>1. clients'[i].some /\ clients'[i].ids # {}
      BY <1>5, <1>7
    <3> QED  BY Zenon, <1>6, <1>7, <3>1 DEF IdsExact
  <2> QED  BY Zenon, <2>2, <2>3, <2>4 DEF IdsExact
<1>11. FreeExact'
  <2>1. 1..len \subseteq Slots /\ 1..len' \subseteq Slots
    BY <1>2, <1>6, Constants DEF SlotType, Slots
  <2>2. Range(free') = {j \in 1..len' : ~clients'[j].some}
    BY Zenon, <1>2, <1>5, <1>7, <2>1
  <2>3. ASSUME NEW j \in Slots, clients'[j].some  PROVE  j <= len'
    <3>1. CASE j = i
      BY <1>2, <3>1
    <3>2. CASE j # i
      <4>1. clients[j].some
        BY Zenon, <1>7, <2>3, <3>2
      <4>2. j <= len /\ j \in 1..len
        BY <1>6, <4>1, Constants DEF FreeExact, SlotType, Slots
      <4>3. j \in 1..len'
        BY <1>2, <4>2
      <4> QED  BY <1>2, <4>3
    <3> QED  BY <3>1, <3>2
  <2> QED  BY Zenon, <1>2, <2>2, <2>3 DEF FreeExact
<1> QED  BY <1>4, <1>9, <1>10, <1>11

(* on_datagram keeps SInv. *)
LEMMA ReadDatagramInv ==
  ASSUME SInv, ReadDatagram
  PROVE  SInv'
<1>1. IoType /\ SlotType /\ UnreadInv
  BY Types DEF SInv
<1>2. /\ timers' = timers /\ at' = at /\ at = "read" /\ edge' = edge /\ unread' = unread
      /\ todo' = todo /\ arrivals' = arrivals /\ now' = now /\ failed' = failed
      /\ budget' = budget - 1 /\ budget > 0 /\ todo # <<>>
      /\ queued' = [queued EXCEPT ![Head(todo)] = @ - 1] /\ queued[Head(todo)] > 0
  BY DEF ReadDatagram
<1>3. Head(todo) \in Sockets
  BY Zenon, <1>1, <1>2, ListTail DEF IoType
<1>4. /\ queued' \in [Sockets -> 0..MaxArrivals]
      /\ \A s \in Sockets : queued'[s] <= queued[s] /\ queued[s] \in Nat /\ queued'[s] \in Nat
  BY <1>1, <1>2, <1>3, Constants DEF IoType
<1>5. budget' \in 0..READ_BUDGET
  BY <1>1, <1>2, Constants DEF IoType
<1>6. IoType'
  BY Zenon, <1>1, <1>2, <1>4, <1>5 DEF IoType
<1>7. UnreadInv'
  <2>1. \A s \in Sockets : (queued'[s] > 0 => queued[s] > 0) /\ queued'[s] <= arrivals
    BY <1>1, <1>4 DEF IoType, UnreadInv
  <2> QED  BY Zenon, <1>1, <1>2, <2>1 DEF UnreadInv
<1>8. CASE Ignored
  BY <1>2, <1>6, <1>7, <1>8, Apart DEF Ignored
<1>9. ASSUME NEW dcid \in Ids, Known(dcid)  PROVE  SInv'
  <2> DEFINE i == ids[dcid]
  <2>1. i \in Slots /\ UNCHANGED <<len, free, ids>>
    BY <1>1, <1>9, Constants DEF SlotType, Slots, Known
  <2>2. CASE clients[i].some
    <3>1. Received(i, clients[i]) /\ clients[i] \in Client
      BY <1>1, <1>9, <2>1, <2>2 DEF Known, SlotType
    <3> HIDE DEF i
    <3>2. clients[i].scheduled # None => <<clients[i].scheduled, i>> \in Entries(timers')
      BY Zenon, <1>2, <2>1 DEF SInv, ClientInv
    <3>3. /\ clients' \in [Slots -> Client] /\ dirty' \in Seq(Slots) /\ DirtyExact'
          /\ \A j \in Slots : ClientInv(clients[j], j)'
          /\ \E d \in Client : /\ clients' = [clients EXCEPT ![i] = d]
                               /\ d.ids = clients[i].ids /\ d.some = clients[i].some
      BY Zenon, <1>2, <2>1, <2>2, <3>1, <3>2, ReceivedInv
    <3>4. IdsExact' /\ FreeExact'
      BY Zenon, <2>1, <3>3, IdsKept
    <3>5. SlotType'
      BY Zenon, <1>1, <1>2, <2>1, <3>3 DEF SlotType
    <3> QED  BY Zenon, <1>2, <1>6, <1>7, <3>3, <3>4, <3>5, TypesNext DEF SInv
  <2>3. CASE ~clients[i].some
    <3>1. UNCHANGED <<slots, dirty, timers>>
      BY <1>2, <1>9, <2>3 DEF Known, slots
    <3> QED  BY <1>2, <1>6, <1>7, <3>1, Apart
  <2> QED  BY <2>2, <2>3
<1>10. ASSUME NEW dcid \in Ids, NEW scid \in Ids, Accept(dcid, scid)  PROVE  SInv'
  <2>1. SlotType' /\ IdsExact' /\ FreeExact' /\ DirtyExact' /\ \A j \in Slots : ClientInv(clients[j], j)'
    BY Zenon, <1>2, <1>10, AcceptInv
  <2> QED  BY Zenon, <1>2, <1>6, <1>7, <2>1, TypesNext DEF SInv
<1> QED  BY Zenon, <1>8, <1>9, <1>10 DEF ReadDatagram

(* fire_timers: the entry that is popped was scheduled, or nobody's. *)
LEMMA FireTimerInv ==
  ASSUME SInv, NEW e \in Entries(timers), FireTimer(e)
  PROVE  SInv'
<1> DEFINE i == e[2]
           c == clients[i]
           u == [c EXCEPT !.scheduled = None]
<1>1. IoType /\ SlotType /\ UnreadInv
  BY Types DEF SInv
<1>2. e = <<e[1], i>> /\ i \in Slots /\ c \in Client
  BY <1>1 DEF SlotType
<1>3. /\ timers' = Popped(timers, e) /\ at = "timers"
      /\ UNCHANGED <<now, io, len, free, ids, at>>
  BY DEF FireTimer
<1>4. /\ IsAHeap(timers') /\ Entries(timers') \subseteq Entries(timers)
      /\ Entries(timers) \ {e} \subseteq Entries(timers')
  BY Zenon, <1>1, <1>3, HeapPop DEF SlotType
<1>5. IoType' /\ UnreadInv'
  BY <1>1, <1>3 DEF IoType, UnreadInv, io
<1> HIDE DEF i
<1>6. \A j \in Slots : \A t : <<t, j>> \in Entries(timers) /\ <<t, j>> # e => <<t, j>> \in Entries(timers')
  BY Zenon, <1>4
<1>7. \A j \in Slots : \A t : j # i /\ <<t, j>> \in Entries(timers) => <<t, j>> \in Entries(timers')
  BY <1>2, <1>6
<1>8. ASSUME NEW d \in Client, clients' = [clients EXCEPT ![i] = d], d.ids = c.ids, d.some = c.some,
             clients' \in [Slots -> Client], dirty' \in Seq(Slots), DirtyExact',
             \A j \in Slots : ClientInv(clients[j], j)'
      PROVE  SInv'
  <2>1. IdsExact' /\ FreeExact'
    BY Zenon, <1>2, <1>3, <1>8, IdsKept
  <2>2. Entries(timers') \subseteq Times \X Slots
    BY Zenon, <1>1, <1>4 DEF SlotType
  <2>3. SlotType'
    BY Zenon, <1>1, <1>3, <1>4, <1>8, <2>2 DEF SlotType
  <2> QED  BY Zenon, <1>3, <1>5, <1>8, <2>1, <2>3, TypesNext DEF SInv
<1>9. CASE ~c.some \/ c.scheduled # e[1]
  <2>1. UNCHANGED <<clients, dirty>>
    BY <1>9 DEF FireTimer, i
  <2>2. ASSUME NEW j \in Slots  PROVE  ClientInv(clients[j], j)'
    <3>1. ClientInv(clients[j], j)
      BY Zenon DEF SInv
    <3>2. ASSUME clients[j].scheduled # None  PROVE  <<clients[j].scheduled, j>> \in Entries(timers')
      <4>1. <<clients[j].scheduled, j>> \in Entries(timers)
        BY Zenon, <3>1, <3>2 DEF ClientInv
      <4>2. clients[j].some
        BY <3>1, <3>2 DEF ClientInv, NoClient
      <4>3. <<clients[j].scheduled, j>> # e
        BY <1>2, <1>9, <4>2
      <4> QED  BY Zenon, <1>6, <4>1, <4>3
    <3> QED  BY Zenon, <2>1, <3>1, <3>2 DEF ClientInv
  <2>3. clients' = [clients EXCEPT ![i] = c] /\ clients' \in [Slots -> Client] /\ dirty' \in Seq(Slots)
    BY <1>1, <1>2, <2>1 DEF SlotType
  <2>4. DirtyExact'
    BY Zenon, <2>1 DEF SInv, DirtyExact
  <2> QED  BY Zenon, <1>2, <1>8, <2>2, <2>3, <2>4
<1>10. CASE c.some /\ c.scheduled = e[1]
  <2>1. /\ u \in Client /\ u.some /\ u.dirty = c.dirty /\ u.scheduled = None /\ u.ids = c.ids
        /\ u.some = c.some
    BY Zenon, <1>2, <1>10 DEF Client, None
  <2>2. CASE c.deadline # None /\ c.deadline <= now
    <3>1. Received(i, u)
      BY <1>10, <2>2 DEF FireTimer, Unscheduled, i
    <3> HIDE DEF u, c
    <3>2. /\ clients' \in [Slots -> Client] /\ dirty' \in Seq(Slots) /\ DirtyExact'
          /\ \A j \in Slots : ClientInv(clients[j], j)'
          /\ \E d \in Client : /\ clients' = [clients EXCEPT ![i] = d]
                               /\ d.ids = u.ids /\ d.some = u.some
      BY Zenon, <1>2, <1>7, <2>1, <3>1, ReceivedInv DEF c
    <3> QED  BY Zenon, <1>8, <2>1, <3>2
  <2>3. CASE ~(c.deadline # None /\ c.deadline <= now)
    <3> DEFINE d == [u EXCEPT !.dirty = TRUE]
    <3>1. clients' = [clients EXCEPT ![i] = d] /\ dirty' = MarkedList(c, i)
      BY <1>10, <2>3 DEF FireTimer, Unscheduled, i
    <3>2. /\ d \in Client /\ d.some /\ d.dirty /\ d.scheduled = None /\ d.ids = c.ids
          /\ d.some = c.some
      BY Zenon, <2>1 DEF Client
    <3> HIDE DEF d, u
    <3>3. /\ clients' \in [Slots -> Client] /\ dirty' \in Seq(Slots) /\ DirtyExact'
          /\ \A j \in Slots : ClientInv(clients[j], j)'
      BY Zenon, <1>2, <1>7, <3>1, <3>2, Marking
    <3> QED  BY Zenon, <1>8, <3>1, <3>2, <3>3
  <2> QED  BY Zenon, <2>2, <2>3
<1> QED  BY Zenon, <1>9, <1>10

(* flush_dirty: the last entry of the list, which is a live connection. *)
LEMMA Unmarked ==
  ASSUME SInv, dirty # <<>>, NEW d \in Client, ~d.dirty,
         dirty' = SubSeq(dirty, 1, Len(dirty) - 1),
         clients' = [clients EXCEPT ![dirty[Len(dirty)]] = d]
  PROVE  /\ clients' \in [Slots -> Client] /\ dirty' \in Seq(Slots) /\ DirtyExact'
<1> DEFINE i == dirty[Len(dirty)]
<1>1. dirty \in Seq(Slots) /\ clients \in [Slots -> Client] /\ DirtyExact
  BY DEF SInv, TypeOK
<1>2. /\ dirty' \in Seq(Slots) /\ i \in Slots /\ Range(dirty') \cup {i} = Range(dirty)
      /\ i \notin Range(dirty') /\ IsInjective(dirty')
  BY <1>1, ListFront DEF DirtyExact
<1>3. /\ clients' \in [Slots -> Client] /\ clients'[i] = d
      /\ \A j \in Slots : j # i => clients'[j] = clients[j]
  BY <1>1, <1>2
<1> HIDE DEF i
<1>4. Range(dirty') = {j \in Slots : clients'[j].dirty}
  <2>1. Range(dirty) = {j \in Slots : clients[j].dirty}
    BY Zenon, <1>1 DEF DirtyExact
  <2>2. Range(dirty') = Range(dirty) \ {i}
    BY Zenon, <1>2
  <2>3. {j \in Slots : clients'[j].dirty} = {j \in Slots : clients[j].dirty} \ {i}
    BY Zenon, <1>2, <1>3
  <2> QED  BY Zenon, <2>1, <2>2, <2>3
<1> QED  BY Zenon, <1>2, <1>3, <1>4 DEF DirtyExact

(* The slot popped from dirty holds a client. *)
LEMMA DirtyLast ==
  ASSUME SInv, dirty # <<>>
  PROVE  LET i == dirty[Len(dirty)] IN i \in Slots /\ clients[i] \in Client /\ clients[i].some
<1> DEFINE i == dirty[Len(dirty)]
<1>1. dirty \in Seq(Slots) /\ clients \in [Slots -> Client] /\ DirtyExact
  BY DEF SInv, TypeOK
<1>2. i \in Slots /\ i \in Range(dirty)
  BY <1>1, ListFront
<1> HIDE DEF i
<1>3. clients[i].dirty
  BY Zenon, <1>1, <1>2 DEF DirtyExact
<1>4. ~NoClient.dirty /\ ClientInv(clients[i], i)
  BY Zenon, <1>2 DEF NoClient, SInv
<1>5. clients[i].some
  BY Zenon, <1>3, <1>4 DEF ClientInv
<1> QED  BY <1>1, <1>2, <1>5 DEF i

(* Removing a closed client keeps the slots, ids, free list and timers exact. *)
LEMMA RemoveInv ==
  ASSUME SInv, dirty # <<>>, dirty' = SubSeq(dirty, 1, Len(dirty) - 1),
         RemoveClient(dirty[Len(dirty)])
  PROVE  SlotType' /\ IdsExact' /\ FreeExact' /\ DirtyExact' /\ \A j \in Slots : ClientInv(clients[j], j)'
<1> DEFINE i == dirty[Len(dirty)]
<1>1. i \in Slots /\ clients[i] \in Client /\ clients[i].some
  BY DirtyLast
<1>2. /\ clients' = [clients EXCEPT ![i] = NoClient] /\ free' = Append(free, i)
      /\ ids' = [e \in Ids |-> IF e \in clients[i].ids /\ ids[e] = i THEN 0 ELSE ids[e]]
      /\ len' = len /\ timers' = timers
  BY DEF RemoveClient
<1>3. /\ NoClient \in Client /\ ~NoClient.dirty /\ ~NoClient.some /\ NoClient.ids = {}
      /\ NoClient.scheduled = None
  BY Zenon DEF NoClient, Client, None
<1>4. clients' \in [Slots -> Client] /\ dirty' \in Seq(Slots) /\ DirtyExact'
  BY Zenon, <1>2, <1>3, Unmarked
<1> HIDE DEF i
<1>5. SlotType /\ IdsExact /\ FreeExact
  BY Types DEF SInv
<1>6. clients'[i] = NoClient /\ \A j \in Slots : j # i => clients'[j] = clients[j]
  BY <1>1, <1>2, <1>5 DEF SlotType
<1>7. /\ free' \in Seq(Slots) /\ IsInjective(free') /\ Range(free') = Range(free) \cup {i}
  <2>1. free \in Seq(Slots) /\ IsInjective(free) /\ i \notin Range(free)
    BY <1>1, <1>5 DEF FreeExact, SlotType
  <2> QED  BY <1>1, <1>2, <2>1, ListAppend
<1>8. ids' \in [Ids -> 0..MaxClients]
  BY <1>2, <1>5, Constants DEF SlotType
<1>9. SlotType'
  BY Zenon, <1>2, <1>4, <1>5, <1>7, <1>8 DEF SlotType
<1>10. IdsExact'
  <2>1. \A e \in Ids : ids'[e] # 0 => ids'[e] = ids[e] /\ ids[e] \in Slots /\ ids[e] # i
    <3> SUFFICES ASSUME NEW e \in Ids, ids'[e] # 0
                 PROVE  ids'[e] = ids[e] /\ ids[e] \in Slots /\ ids[e] # i
      OBVIOUS
    <3>1. ids'[e] = ids[e] /\ ~(e \in clients[i].ids /\ ids[e] = i)
      BY <1>2
    <3>2. e \in clients[ids[e]].ids
      BY Zenon, <1>5, <3>1 DEF IdsExact
    <3>3. ids[e] \in Slots
      BY <1>5, <3>1, Constants DEF SlotType, Slots
    <3> QED  BY Zenon, <3>1, <3>2, <3>3
  <2>2. \A e \in Ids : ids'[e] # 0 => e \in clients'[ids'[e]].ids
    BY <1>5, <1>6, <2>1 DEF IdsExact
  <2>3. ASSUME NEW j \in Slots, NEW e \in clients'[j].ids  PROVE  ids'[e] = j
    <3>1. j # i
      BY Zenon, <1>3, <1>6
    <3>2. e \in clients[j].ids /\ e \in Ids
      BY <1>5, <1>6, <3>1 DEF SlotType, Client
    <3>3. ids[e] = j
      BY <1>5, <3>2 DEF IdsExact
    <3> QED  BY <1>2, <3>1, <3>2, <3>3
  <2>4. \A j \in Slots : clients'[j].some <=> clients'[j].ids # {}
    BY Zenon, <1>3, <1>5, <1>6 DEF IdsExact
  <2> QED  BY Zenon, <2>2, <2>3, <2>4 DEF IdsExact
<1>11. FreeExact'
  <2>1. i \in 1..len /\ 1..len \subseteq Slots
    BY <1>1, <1>5, Constants DEF FreeExact, SlotType, Slots
  <2>2. Range(free') = {j \in 1..len : ~clients'[j].some}
    BY Zenon, <1>3, <1>5, <1>6, <1>7, <2>1 DEF FreeExact
  <2>3. \A j \in Slots : clients'[j].some => j <= len
    BY Zenon, <1>3, <1>5, <1>6 DEF FreeExact
  <2> QED  BY Zenon, <1>2, <1>7, <2>2, <2>3 DEF FreeExact
<1>12. ASSUME NEW j \in Slots  PROVE  ClientInv(clients[j], j)'
  <2>1. CASE j = i
    BY Zenon, <1>3, <1>6, <2>1 DEF ClientInv
  <2>2. CASE j # i
    <3>1. ClientInv(clients[j], j)
      BY Zenon DEF SInv
    <3> QED  BY Zenon, <1>2, <1>6, <2>2, <3>1 DEF ClientInv
  <2> QED  BY Zenon, <2>1, <2>2
<1> QED  BY Zenon, <1>4, <1>9, <1>10, <1>11, <1>12

(* Arming a client's timer keeps the slots, ids, free list and timers exact. *)
LEMMA ArmInv ==
  ASSUME SInv, dirty # <<>>, dirty' = SubSeq(dirty, 1, Len(dirty) - 1),
         ~clients[dirty[Len(dirty)]].closed, NEW t \in Timeouts, Arm(dirty[Len(dirty)], t)
  PROVE  SlotType' /\ IdsExact' /\ FreeExact' /\ DirtyExact' /\ \A j \in Slots : ClientInv(clients[j], j)'
<1> DEFINE i == dirty[Len(dirty)]
           c == clients[i]
           push == t # None /\ (c.scheduled = None \/ t < c.scheduled)
           r == IF push THEN t ELSE c.scheduled
           d == [c EXCEPT !.dirty = FALSE, !.timeout = t, !.deadline = t, !.scheduled = r]
<1>1. i \in Slots /\ c \in Client /\ c.some
  BY DirtyLast
<1>2. /\ clients' = [clients EXCEPT ![i] = d] /\ UNCHANGED <<len, free, ids>>
      /\ timers' = IF push THEN Pushed(timers, <<t, i>>) ELSE timers
  BY DEF Arm
<1>3. IoType /\ SlotType /\ ~c.closed
  BY Types DEF SInv
<1>4. t \in Times \cup {None} /\ c.scheduled \in Times \cup {None}
  BY <1>1, <1>3, NewTimeout DEF Client
<1>5. /\ r \in Times \cup {None}
      /\ t # None => r # None /\ r <= t
  BY <1>4, Constants DEF Times, None
<1> HIDE DEF r
<1>6. /\ d \in Client /\ ~d.dirty /\ d.ids = c.ids /\ d.some = c.some /\ d.some /\ ~d.closed
      /\ d.deadline = t /\ d.timeout = t /\ d.scheduled = r
  BY Zenon, <1>1, <1>3, <1>4, <1>5 DEF Client
<1> HIDE DEF d
<1>7. clients' \in [Slots -> Client] /\ dirty' \in Seq(Slots) /\ DirtyExact'
  BY Zenon, <1>2, <1>6, Unmarked
<1> HIDE DEF i
<1>8. IdsExact' /\ FreeExact'
  BY Zenon, <1>1, <1>2, <1>6, IdsKept
<1>9. /\ IsAHeap(timers') /\ Entries(timers') \subseteq Times \X Slots
      /\ Entries(timers) \subseteq Entries(timers')
      /\ push => <<t, i>> \in Entries(timers')
  <2>1. CASE push
    <3>1. IsAHeap(timers') /\ Entries(timers') = Entries(timers) \cup {<<t, i>>}
      BY Zenon, <1>2, <1>3, <2>1, HeapPush DEF SlotType
    <3>2. <<t, i>> \in Times \X Slots
      BY <1>1, <1>4, <2>1
    <3>3. Entries(timers) \subseteq Times \X Slots
      BY <1>3 DEF SlotType
    <3> QED  BY Zenon, <3>1, <3>2, <3>3
  <2>2. CASE ~push
    <3>1. timers' = timers
      BY Zenon, <1>2, <2>2
    <3> QED  BY Zenon, <1>3, <2>2, <3>1 DEF SlotType
  <2> QED  BY Zenon, <2>1, <2>2
<1>10. SlotType'
  BY Zenon, <1>2, <1>3, <1>7, <1>9 DEF SlotType
<1>11. clients'[i] = d /\ \A j \in Slots : j # i => clients'[j] = clients[j]
  BY <1>1, <1>2, <1>3 DEF SlotType
<1>12. ASSUME NEW j \in Slots  PROVE  ClientInv(clients[j], j)'
  <2>1. ClientInv(clients[j], j)
    BY Zenon DEF SInv
  <2>2. CASE j = i
    <3>1. ASSUME r # None  PROVE  <<r, i>> \in Entries(timers')
      <4>1. CASE push
        BY Zenon, <1>9, <4>1 DEF r
      <4>2. CASE ~push
        <5>1. r = c.scheduled
          BY Zenon, <4>2 DEF r
        <5> QED  BY Zenon, <1>9, <2>1, <2>2, <3>1, <5>1 DEF ClientInv
      <4> QED  BY Zenon, <4>1, <4>2
    <3> QED  BY Zenon, <1>5, <1>6, <1>11, <2>2, <3>1 DEF ClientInv
  <2>3. CASE j # i
    BY Zenon, <1>9, <1>11, <2>1, <2>3 DEF ClientInv
  <2> QED  BY Zenon, <2>2, <2>3
<1> QED  BY Zenon, <1>7, <1>8, <1>10, <1>12

(* flush keeps SInv. *)
LEMMA FlushInv ==
  ASSUME SInv, FlushNext
  PROVE  SInv'
<1> DEFINE i == dirty[Len(dirty)]
<1>1. IoType /\ UnreadInv
  BY Types DEF SInv
<1>2. /\ at = "flush" /\ dirty # <<>> /\ dirty' = SubSeq(dirty, 1, Len(dirty) - 1)
      /\ UNCHANGED <<now, io, at>>
  BY DEF FlushNext
<1>3. clients[i].some
  BY <1>2, DirtyLast
<1>4. RemoveClient(i) \/ (~clients[i].closed /\ \E t \in Timeouts : Arm(i, t))
  BY Zenon, <1>3 DEF FlushNext
<1>5. SlotType' /\ IdsExact' /\ FreeExact' /\ DirtyExact' /\ \A j \in Slots : ClientInv(clients[j], j)'
  BY Zenon, <1>2, <1>4, RemoveInv, ArmInv
<1>6. IoType' /\ UnreadInv'
  BY <1>1, <1>2 DEF IoType, UnreadInv, io
<1> QED  BY Zenon, <1>2, <1>5, <1>6, TypesNext DEF SInv

-----------------------------------------------------------------------------
(* The theorems. *)

LEMMA StartInv ==
  ASSUME Init
  PROVE  SInv
<1>1. Range(<<>>) = {} /\ IsInjective(<<>>)
  BY DEF Range, IsInjective
<1>2. /\ NoClient \in Client /\ ~NoClient.dirty /\ ~NoClient.some /\ NoClient.ids = {}
      /\ NoClient.scheduled = None
  BY Zenon DEF NoClient, Client, None
<1>3. clients \in [Slots -> Client] /\ \A i \in Slots : clients[i] = NoClient
  BY Zenon, <1>2 DEF Init
<1>4. IsAHeap(EmptyHeap) /\ Entries(EmptyHeap) = {}
  BY DEF EmptyHeap, IsAHeap, Entries
<1>5. IoType /\ UnreadInv
  BY Constants DEF Init, IoType, UnreadInv
<1>6. SlotType
  <2>1. /\ 0 \in 0..MaxClients /\ ids \in [Ids -> 0..MaxClients] /\ len = 0
        /\ free = <<>> /\ dirty = <<>> /\ timers = EmptyHeap
    BY Constants DEF Init
  <2>2. <<>> \in Seq(Slots)
    OBVIOUS
  <2> QED  BY Zenon, <1>3, <1>4, <2>1, <2>2 DEF SlotType
<1>7. IdsExact
  BY <1>2, <1>3 DEF Init, IdsExact
<1>8. FreeExact
  <2>1. 1..len = {} /\ free = <<>>
    BY DEF Init
  <2> QED  BY Zenon, <1>1, <1>2, <1>3, <2>1 DEF FreeExact
<1>9. DirtyExact
  <2>1. dirty = <<>>
    BY DEF Init
  <2> QED  BY Zenon, <1>1, <1>2, <1>3, <2>1 DEF DirtyExact
<1>10. \A i \in Slots : ClientInv(clients[i], i)
  BY Zenon, <1>2, <1>3 DEF ClientInv
<1> QED  BY <1>5, <1>6, <1>7, <1>8, <1>9, <1>10, Types DEF SInv, Init

(* Every step of the server's worker keeps SInv. *)
LEMMA StepInv ==
  ASSUME SInv, [Next]_vars
  PROVE  SInv'
<1>1. CASE UNCHANGED vars
  <2>1. /\ UNCHANGED <<now, queued, failed, edge, arrivals, unread, todo, budget, at>>
        /\ UNCHANGED <<slots, dirty, timers>>
    BY <1>1 DEF vars, io
  <2>2. IoType /\ UnreadInv
    BY Types DEF SInv
  <2>3. IoType' /\ UnreadInv'
    BY Zenon, <2>1, <2>2 DEF IoType, UnreadInv
  <2> QED  BY <2>1, <2>3, Apart DEF SInv
<1>2. CASE Round
  BY Zenon, <1>2, PollInv, ReadListInv, PassInv, ReadDatagramInv, FireTimerInv, FlushInv DEF Round
<1>3. CASE Tick \/ EndOfTime
  BY Zenon, <1>3, PassInv
<1>4. CASE \E s \in Sockets : Arrive(s) \/ SendFails(s)
  BY Zenon, <1>4, ArriveInv
<1> QED  BY Zenon, <1>1, <1>2, <1>3, <1>4 DEF Next

(* The invariant of the worker holds throughout: between any two steps of run,
   the maps, lists and timers of server.rs agree. *)
THEOREM ServerSafe == Spec => []SInv
<1>1. Init => SInv
  BY StartInv
<1>2. SInv /\ [Next]_vars => SInv'
  BY StepInv
<1> QED  BY <1>1, <1>2, PTL DEF Spec

(* on_datagram and remove: an ID leads to the live connection it belongs to. *)
THEOREM IdsCorrect == Spec => []IdsExact
<1>1. SInv => IdsExact
  BY DEF SInv
<1> QED  BY <1>1, ServerSafe, PTL

(* alloc and remove: no slot is lost or given to two connections. *)
THEOREM FreeCorrect == Spec => []FreeExact
<1>1. SInv => FreeExact
  BY DEF SInv
<1> QED  BY <1>1, ServerSafe, PTL

(* mark_dirty and flush_dirty: the list has each dirty connection once. *)
THEOREM DirtyCorrect == Spec => []DirtyExact
<1>1. SInv => DirtyExact
  BY DEF SInv
<1> QED  BY <1>1, ServerSafe, PTL

(* flush and fire_timers: the worker never polls with a timer of quiche unarmed
   or a closed connection left. *)
THEOREM TimersCorrect == Spec => []TimersArmed
<1>1. SInv => TimersArmed
  <2> SUFFICES ASSUME SInv, at = "poll", NEW i \in Slots, clients[i].some
               PROVE  /\ ~clients[i].closed /\ clients[i].deadline = clients[i].timeout
                      /\ clients[i].deadline # None =>
                           /\ clients[i].scheduled # None
                           /\ clients[i].scheduled <= clients[i].deadline
                           /\ <<clients[i].scheduled, i>> \in Entries(timers)
    BY Zenon DEF TimersArmed
  <2>1. ClientInv(clients[i], i) /\ DirtyExact /\ dirty = <<>>
    BY DEF SInv
  <2>2. Range(dirty) = {}
    BY <2>1 DEF Range
  <2>3. ~clients[i].dirty
    BY Zenon, <2>1, <2>2 DEF DirtyExact
  <2> QED  BY Zenon, <2>1, <2>3 DEF ClientInv
<1> QED  BY <1>1, ServerSafe, PTL

(* read_socket: the worker never polls with a socket that holds datagrams
   neither on its list nor about to be reported. *)
THEOREM UnreadCorrect == Spec => []NothingUnread
<1>1. SInv => NothingUnread
  <2> SUFFICES ASSUME SInv, at = "poll", NEW s \in Sockets, queued[s] > 0
               PROVE  s \in edge \cup Range(unread)
    BY Zenon DEF NothingUnread
  <2>1. UnreadInv /\ todo = <<>>
    BY DEF SInv, UnreadInv
  <2>2. Range(todo) = {}
    BY <2>1 DEF Range
  <2> QED  BY Zenon, <2>1, <2>2 DEF UnreadInv
<1> QED  BY <1>1, ServerSafe, PTL
=============================================================================
