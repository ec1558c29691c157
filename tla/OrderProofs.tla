----------------------------- MODULE OrderProofs -----------------------------
(***************************************************************************)
(* EventLoop never answers a request twice, nor two requests of a client   *)
(* out of order: NoReplay, for every number of clients, slots and          *)
(* descriptors and under every fault.                                      *)
(*                                                                         *)
(* An answer goes from the inbox into the header of a slot and from there  *)
(* to the client.  The invariant orders the three: what a client has got   *)
(* is older than what a slot still has for it, and both are older than     *)
(* what is in its inbox.  That only one slot has output for a connected    *)
(* client needs the table: Placed says that it is the slot the loop finds, *)
(* and Apart that the client has one descriptor.                           *)
(***************************************************************************)
EXTENDS EventLoopProofs

\* A client has one descriptor, or a place in the backlog, or has not connected.
Apart ==
  /\ \A c \in Clients : peer[c] = "idle" => ~Connected(c)
  /\ \A f, g \in Fds : sock[f] # NULL /\ sock[f] = sock[g] => f = g
  /\ \A f \in Fds : sock[f] \notin backlog

\* The client slot s has an answer for has connected, and if it has a descriptor, s is the
\* slot the loop finds for it.
Homed(s) ==
  LET c == conns[s].hdr.client IN
  /\ c \notin backlog /\ peer[c] # "idle"
  /\ \A f \in Fds : sock[f] = c => First(s, f)

\* So it is for every slot with an answer, and for the slot in hand.
Placed ==
  /\ \A s \in Slots : conns[s].hdr # NULL => Homed(s)
  /\ at.op # "next" => First(at.slot, Fd)

\* A header that is out has nothing left.
Spent ==
  /\ \A s \in Slots : conns[s].sent => conns[s].left = 0
  /\ at.op = "file" => conns[at.slot].sent

\* Slot s may still complete the answer in its header.
Pending(s) ==
  \/ conns[s].left > 0
  \/ conns[s].hdr.kind = "file" /\ conns[s].sending /\ conns[s].fleft > 0

Increasing(q) == \A i, j \in 1..Len(q) : i < j => q[i].n < q[j].n

\* n comes before every request in q.
Precedes(n, q) == \A i \in 1..Len(q) : n < q[i].n

\* n comes after every answer of c's own in q.
Follows(n, q, c) == \A i \in 1..Len(q) : q[i].client = c => q[i].n < n

Queued ==
  \A c \in Clients :
    /\ Increasing(inbox[c])
    /\ \A i \in 1..Len(inbox[c]) : inbox[c][i].client = c /\ inbox[c][i].n <= asked[c]

Received ==
  \A c \in Clients : \A i \in 1..Len(got[c]) :
    got[c][i].client = c => got[c][i].n <= asked[c] /\ Precedes(got[c][i].n, inbox[c])

Answering(s) ==
  LET r == conns[s].hdr IN
  /\ r.n <= asked[r.client] /\ Precedes(r.n, inbox[r.client])
  /\ Pending(s) => Follows(r.n, got[r.client], r.client)

Ordered ==
  /\ Queued /\ Received /\ NoReplay
  /\ \A s \in Slots : conns[s].hdr # NULL => Answering(s)

\* The inductive invariant.
OrderInv == TypeOK /\ Apart /\ Placed /\ Spent /\ Ordered

(***************************************************************************)
(* Sequences of requests.                                                  *)
(***************************************************************************)
LEMMA Appended ==
  ASSUME NEW q \in Seq(Requests), NEW r \in Requests
  PROVE  /\ Append(q, r) \in Seq(Requests)
         /\ Len(Append(q, r)) = Len(q) + 1 /\ Len(q) \in Nat
         /\ Append(q, r)[Len(q) + 1] = r
         /\ \A i \in 1..Len(q) : Append(q, r)[i] = q[i]
BY AppendProperties, LenProperties

\* t is what is left of q when its first elements are taken.
Suffix(t, q) ==
  \E k \in 0..Len(q) : Len(t) = Len(q) - k /\ \A i \in 1..Len(t) : t[i] = q[i + k]

LEMMA SuffixAll ==
  ASSUME NEW q \in Seq(Requests) PROVE Suffix(q, q) /\ Suffix(<<>>, q)
<1>1. Len(q) \in Nat /\ Len(<<>>) = 0
  BY LenProperties
<1>2. 0 \in 0..Len(q) /\ Len(q) - 0 = Len(q) /\ \A i \in 1..Len(q) : q[i] = q[i + 0]
  BY <1>1
<1>3. Len(q) \in 0..Len(q) /\ Len(<<>>) = Len(q) - Len(q) /\ 1..Len(<<>>) = {}
  BY <1>1
<1> QED
  BY <1>2, <1>3 DEF Suffix

LEMMA SuffixRest ==
  ASSUME NEW q \in Seq(Requests), NEW k \in 1..Len(q)
  PROVE  /\ Suffix(SubSeq(q, k + 1, Len(q)), q)
         /\ Len(SubSeq(q, k + 1, Len(q))) = Len(q) - k
         /\ \A i \in 1..(Len(q) - k) : SubSeq(q, k + 1, Len(q))[i] = q[i + k]
<1>1. Len(q) \in Nat
  BY LenProperties
<1>2. /\ Len(SubSeq(q, k + 1, Len(q))) = Len(q) - k
      /\ \A i \in 1..(Len(q) - k) : SubSeq(q, k + 1, Len(q))[i] = q[i + k]
  BY <1>1, SubSeqProperties
<1> QED
  BY <1>1, <1>2 DEF Suffix

LEMMA SuffixOrder ==
  ASSUME NEW t \in Seq(Requests), NEW q \in Seq(Requests), Suffix(t, q)
  PROVE  /\ Increasing(q) => Increasing(t)
         /\ \A n : Precedes(n, q) => Precedes(n, t)
         /\ \A i \in 1..Len(t) : \E j \in 1..Len(q) : t[i] = q[j]
<1>1. Len(t) \in Nat /\ Len(q) \in Nat
  BY LenProperties
<1>2. PICK k \in 0..Len(q) : Len(t) = Len(q) - k /\ \A i \in 1..Len(t) : t[i] = q[i + k]
  BY DEF Suffix
<1>3. \A i \in 1..Len(t) : i + k \in 1..Len(q) /\ t[i] = q[i + k]
  BY <1>1, <1>2
<1>4. \A i, j \in 1..Len(t) : i < j => i + k < j + k
  BY <1>1, <1>2
<1>5. Increasing(q) => Increasing(t)
  BY <1>3, <1>4 DEF Increasing
<1>6. \A n : Precedes(n, q) => Precedes(n, t)
  BY <1>3 DEF Precedes
<1> QED
  BY <1>3, <1>5, <1>6

\* What the order needs of the types.
LEMMA OrderTypes ==
  ASSUME TypeOK
  PROVE  /\ inbox \in [Clients -> Seq(Requests)] /\ got \in [Clients -> Seq(Requests)]
         /\ asked \in [Clients -> Nat]
         /\ \A c \in Clients : Len(inbox[c]) \in Nat /\ Len(got[c]) \in Nat
         /\ \A c \in Clients : \A i \in 1..Len(inbox[c]) : inbox[c][i] \in Requests
         /\ \A c \in Clients : \A i \in 1..Len(got[c]) : got[c][i] \in Requests
         /\ \A s \in Slots : conns[s].hdr # NULL => conns[s].hdr \in Requests
         /\ \A r \in Requests : r.client \in Clients /\ r.n \in Nat
<1>1. /\ inbox \in [Clients -> Seq(Requests)] /\ got \in [Clients -> Seq(Requests)]
      /\ asked \in [Clients -> Nat]
  BY Constants DEF TypeOK, Types, SocketsTypeOK
<1>2. \A q \in Seq(Requests) : Len(q) \in Nat /\ \A i \in 1..Len(q) : q[i] \in Requests
  BY LenProperties, ElementOfSeq
<1>3. \A s \in Slots : conns[s].hdr # NULL => conns[s].hdr \in Requests
  BY DEF TypeOK, Types, SlotRecords
<1>4. \A r \in Requests : r.client \in Clients /\ r.n \in Nat
  BY Constants DEF Requests
<1> QED
  BY <1>1, <1>2, <1>3, <1>4

(***************************************************************************)
(* The order.                                                              *)
(***************************************************************************)
\* Slot s answers the same request as before, if it answers one at all.
Keeps(s) == conns'[s].hdr = conns[s].hdr /\ (Pending(s)' => Pending(s))

\* Requests are read, or lost with their connection.
Consumed == \A c \in Clients : Suffix(inbox'[c], inbox[c])

\* What a client has still to be read keeps its order when requests are read or lost.
LEMMA ConsumedOrder ==
  ASSUME TypeOK, TypeOK', Consumed, NEW c \in Clients
  PROVE  /\ Increasing(inbox[c]) => Increasing(inbox'[c])
         /\ \A n : Precedes(n, inbox[c]) => Precedes(n, inbox'[c])
         /\ \A i \in 1..Len(inbox'[c]) : \E j \in 1..Len(inbox[c]) : inbox'[c][i] = inbox[c][j]
<1>1. inbox \in [Clients -> Seq(Requests)] /\ inbox' \in [Clients -> Seq(Requests)]
  BY DEF TypeOK, Types, SocketsTypeOK
<1>2. inbox[c] \in Seq(Requests) /\ inbox'[c] \in Seq(Requests)
  BY <1>1
<1>3. Suffix(inbox'[c], inbox[c])
  BY DEF Consumed
<1> DEFINE t == inbox'[c]
           q == inbox[c]
<1>4. t \in Seq(Requests) /\ q \in Seq(Requests) /\ Suffix(t, q)
  BY <1>2, <1>3
<1> HIDE DEF t, q
<1>5. /\ Increasing(q) => Increasing(t)
      /\ \A n : Precedes(n, q) => Precedes(n, t)
      /\ \A i \in 1..Len(t) : \E j \in 1..Len(q) : t[i] = q[j]
  BY <1>4, SuffixOrder
<1> QED
  BY <1>5 DEF t, q

LEMMA QueuedConsumed ==
  ASSUME TypeOK, TypeOK', Queued, Received, Consumed, UNCHANGED <<got, asked>>
  PROVE  Queued' /\ Received'
<1>1. ASSUME NEW c \in Clients
      PROVE  /\ Increasing(inbox[c]) => Increasing(inbox'[c])
             /\ \A n : Precedes(n, inbox[c]) => Precedes(n, inbox'[c])
             /\ \A i \in 1..Len(inbox'[c]) : \E j \in 1..Len(inbox[c]) : inbox'[c][i] = inbox[c][j]
  BY ConsumedOrder
<1>2. Queued'
  BY <1>1 DEF Queued
<1>3. Received'
  BY <1>1 DEF Received
<1> QED
  BY <1>2, <1>3

LEMMA OrderedKept ==
  ASSUME TypeOK, TypeOK', Ordered, Consumed, UNCHANGED <<got, asked>>,
         \A s \in Slots : Keeps(s)
  PROVE  Ordered'
<1>1. Queued' /\ Received' /\ NoReplay'
  BY QueuedConsumed DEF Ordered, NoReplay
<1>2. ASSUME NEW s \in Slots, conns'[s].hdr # NULL PROVE Answering(s)'
  <2> DEFINE r == conns[s].hdr
  <2>1. conns'[s].hdr = r /\ r \in Requests /\ r.client \in Clients
    BY <1>2, OrderTypes DEF Keeps
  <2>2. Precedes(r.n, inbox[r.client]) => Precedes(r.n, inbox'[r.client])
    BY <2>1, ConsumedOrder
  <2> QED
    BY <1>2, <2>1, <2>2 DEF Ordered, Answering, Keeps
<1> QED
  BY <1>1, <1>2 DEF Ordered

\* The loop finds one slot for a descriptor.
LEMMA FirstUnique ==
  ASSUME NEW s \in Slots, NEW t \in Slots, NEW f, First(s, f), First(t, f) PROVE s = t
BY Constants DEF First

\* The slot in hand completes its answer.
LEMMA OrderedReceive ==
  ASSUME TypeOK, TypeOK', Ordered, Placed, Consumed, UNCHANGED asked,
         NEW s \in Slots, NEW f \in Fds, sock[f] # NULL, First(s, f),
         conns[s].hdr # NULL, Pending(s), ~Pending(s)', Receive(sock[f], conns[s].hdr),
         \A t \in Slots : Keeps(t)
  PROVE  Ordered'
<1> DEFINE c == sock[f]
           r == conns[s].hdr
           q == got[c]
<1>1. c \in Clients /\ r \in Requests /\ q \in Seq(Requests)
  BY OrderTypes DEF TypeOK, Types, SocketsTypeOK
<1>2. /\ Len(got'[c]) = Len(q) + 1 /\ Len(q) \in Nat /\ got'[c][Len(q) + 1] = r
      /\ \A i \in 1..Len(q) : got'[c][i] = q[i]
  BY <1>1, Appended, OrderTypes DEF Receive
<1>3. \A d \in Clients : d # c => got'[d] = got[d]
  BY OrderTypes DEF Receive
<1>4. /\ r.n <= asked[r.client] /\ Precedes(r.n, inbox[r.client])
      /\ Follows(r.n, got[r.client], r.client)
  BY DEF Ordered, Answering
<1> HIDE DEF r, q, c
<1>5. ASSUME NEW d \in Clients
      PROVE  /\ Increasing(inbox[d]) => Increasing(inbox'[d])
             /\ \A n : Precedes(n, inbox[d]) => Precedes(n, inbox'[d])
             /\ \A i \in 1..Len(inbox'[d]) : \E j \in 1..Len(inbox[d]) : inbox'[d][i] = inbox[d][j]
  BY ConsumedOrder
<1>6. Queued'
  BY <1>5 DEF Queued, Ordered
<1>7. Received'
  <2> SUFFICES ASSUME NEW d \in Clients, NEW i \in 1..Len(got'[d]), got'[d][i].client = d
               PROVE  got'[d][i].n <= asked[d] /\ Precedes(got'[d][i].n, inbox[d])
    BY <1>5 DEF Received
  <2>1. CASE d # c \/ i # Len(q) + 1
    <3>1. i \in 1..Len(got[d]) /\ got'[d][i] = got[d][i]
      BY <1>2, <1>3, <2>1, OrderTypes DEF q
    <3> QED
      BY <3>1 DEF Received, Ordered
  <2>2. CASE d = c /\ i = Len(q) + 1
    BY <1>2, <1>4, <2>2
  <2> QED
    BY <2>1, <2>2
<1>8. NoReplay'
  <2> SUFFICES ASSUME NEW d \in Clients, NEW i \in 1..Len(got'[d]), NEW j \in 1..Len(got'[d]),
                      i < j, got'[d][i].client = d, got'[d][j].client = d
               PROVE  got'[d][i].n < got'[d][j].n
    BY DEF NoReplay
  <2>1. CASE d # c \/ j # Len(q) + 1
    <3>1. /\ i \in 1..Len(got[d]) /\ got'[d][i] = got[d][i]
          /\ j \in 1..Len(got[d]) /\ got'[d][j] = got[d][j]
      <4>1. CASE d # c
        BY <1>3, <4>1
      <4>2. CASE d = c /\ j # Len(q) + 1
        <5>1. i \in 1..Len(q) /\ j \in 1..Len(q)
          BY <1>2, <4>2
        <5> QED
          BY <1>2, <4>2, <5>1 DEF q
      <4> QED
        BY <2>1, <4>1, <4>2
    <3> QED
      BY <3>1 DEF NoReplay, Ordered
  <2>2. CASE d = c /\ j = Len(q) + 1
    <3>1. i \in 1..Len(q) /\ got'[d][i] = q[i] /\ got'[d][j] = r
      BY <1>2, <2>2
    <3> QED
      BY <1>4, <2>2, <3>1 DEF Follows, q
  <2> QED
    BY <2>1, <2>2
<1>9. ASSUME NEW t \in Slots, conns'[t].hdr # NULL PROVE Answering(t)'
  <2> DEFINE x == conns[t].hdr
  <2>1. conns'[t].hdr = x /\ x \in Requests /\ x.client \in Clients /\ Answering(t)
    BY <1>9, OrderTypes DEF Keeps, Ordered
  <2>2. x.n <= asked[x.client] /\ Precedes(x.n, inbox'[x.client])
    BY <2>1, <1>5 DEF Answering
  <2>3. ASSUME Pending(t)' PROVE Follows(x.n, got'[x.client], x.client)
    <3>1. t # s /\ Follows(x.n, got[x.client], x.client)
      BY <2>1, <2>3 DEF Keeps, Answering
    <3>2. CASE x.client # c
      BY <1>3, <2>1, <3>1, <3>2
    <3>3. CASE x.client = c
      <4>1. First(t, f)
        BY <1>9, <2>1, <3>3 DEF Placed, Homed, c
      <4> QED
        BY <3>1, <4>1, FirstUnique
    <3> QED
      BY <3>2, <3>3
  <2> QED
    BY <2>1, <2>2, <2>3 DEF Answering
<1> QED
  BY <1>6, <1>7, <1>8, <1>9 DEF Ordered

\* What handle_request makes of the slot.
LEMMA HandleRequestSlot ==
  ASSUME TypeOK, NEW s \in Slots, NEW r \in Requests, HandleRequest(s, r)
  PROVE  /\ conns'[s].hdr = r /\ conns'[s].fd = conns[s].fd /\ ~conns'[s].sent
         /\ \A t \in Slots \ {s} : conns'[t] = conns[t]
<1> DEFINE x == Header(conns[s], r)
           Like(y) == y.hdr = r /\ y.fd = conns[s].fd /\ ~y.sent
<1>1. x \in SlotRecords /\ Like(x)
  <2> DEFINE name == IF r.kind \in Named THEN r.kind
                     ELSE IF r.kind = "head" THEN "" ELSE conns[s].name
             left == IF r.kind = "none" THEN 0 ELSE HeaderLen
  <2>1. x = [conns[s] EXCEPT !.hdr = r, !.left = left, !.sent = FALSE, !.name = name]
    BY DEF Header
  <2> HIDE DEF name, left
  <2>2. conns[s] \in SlotRecords /\ x \in SlotRecords
    BY HeaderType DEF TypeOK, Types
  <2> QED
    BY <2>1, <2>2 DEF SlotRecords
<1>2. \A f, n : /\ Like([x EXCEPT !.file = f, !.fleft = n, !.sending = TRUE])
                /\ Like([x EXCEPT !.file = 0, !.sending = FALSE])
  BY <1>1 DEF SlotRecords
<1>3. HandleRequest(s, r) <=>
        \/ /\ x.name = ""
           /\ conns' = [conns EXCEPT ![s] = x]
           /\ UNCHANGED opened
        \/ /\ x.name # "" /\ (x.name = "missing" \/ FreeFds = {})
           /\ conns' = [conns EXCEPT ![s] = [x EXCEPT !.file = 0, !.sending = FALSE]]
           /\ UNCHANGED opened
        \/ /\ x.name \notin {"", "missing"}
           /\ \E f \in Fds :
                /\ Lowest(f)
                /\ conns' = [conns EXCEPT ![s] =
                     [x EXCEPT !.file = f, !.fleft = Size(x.name), !.sending = TRUE]]
                /\ opened' = [opened EXCEPT ![f] = [r EXCEPT !.kind = x.name]]
  BY DEF HandleRequest
<1> HIDE DEF x, Like
<1>4. \E y : conns' = [conns EXCEPT ![s] = y] /\ Like(y)
  <2>1. CASE conns' = [conns EXCEPT ![s] = x]
    BY <1>1, <2>1
  <2>2. CASE conns' = [conns EXCEPT ![s] = [x EXCEPT !.file = 0, !.sending = FALSE]]
    BY <1>2, <2>2
  <2>3. ASSUME NEW f, conns' = [conns EXCEPT ![s] =
                        [x EXCEPT !.file = f, !.fleft = Size(x.name), !.sending = TRUE]]
        PROVE  \E y : conns' = [conns EXCEPT ![s] = y] /\ Like(y)
    BY <1>2, <2>3
  <2> QED
    BY <1>3, <2>1, <2>2, <2>3
<1> QED
  BY <1>4 DEF Like, TypeOK, Types

\* The slot in hand takes up the first request of its client's inbox.
LEMMA OrderedHandle ==
  ASSUME TypeOK, TypeOK', Ordered, UNCHANGED <<got, asked>>,
         NEW c \in Clients, NEW k \in 1..Len(inbox[c]),
         inbox' = [inbox EXCEPT ![c] = SubSeq(inbox[c], k + 1, Len(inbox[c]))],
         NEW s \in Slots, HandleRequest(s, inbox[c][1])
  PROVE  Ordered'
<1> DEFINE q == inbox[c]
           r == q[1]
<1>1. q \in Seq(Requests) /\ Len(q) \in Nat /\ 1 \in 1..Len(q) /\ r \in Requests
  BY OrderTypes
<1>2. Consumed
  <2>1. ASSUME NEW d \in Clients PROVE Suffix(inbox'[d], inbox[d])
    BY <1>1, SuffixAll, SuffixRest, OrderTypes
  <2> QED
    BY <2>1 DEF Consumed
<1>3. Queued' /\ Received' /\ NoReplay'
  BY <1>2, QueuedConsumed DEF Ordered, NoReplay
<1>4. conns'[s].hdr = r /\ \A t \in Slots \ {s} : conns'[t] = conns[t]
  BY <1>1, HandleRequestSlot
<1>5. r.client = c /\ r.n <= asked[c]
  BY <1>1 DEF Ordered, Queued
<1>6. Precedes(r.n, inbox'[c])
  <2>1. /\ inbox'[c] = SubSeq(q, k + 1, Len(q)) /\ Len(inbox'[c]) = Len(q) - k
        /\ \A i \in 1..(Len(q) - k) : inbox'[c][i] = q[i + k]
    <3>1. /\ Len(SubSeq(q, k + 1, Len(q))) = Len(q) - k
          /\ \A i \in 1..(Len(q) - k) : SubSeq(q, k + 1, Len(q))[i] = q[i + k]
      BY <1>1, SuffixRest
    <3> QED
      BY <3>1, OrderTypes
  <2>2. \A i \in 1..(Len(q) - k) : i + k \in 1..Len(q) /\ 1 < i + k
    BY <1>1
  <2>3. \A i \in 1..Len(q) : 1 < i => r.n < q[i].n
    BY <1>1 DEF Ordered, Queued, Increasing
  <2> QED
    BY <2>1, <2>2, <2>3 DEF Precedes
<1>7. Follows(r.n, got[c], c)
  BY <1>1 DEF Follows, Precedes, Ordered, Received
<1>8. Answering(s)'
  BY <1>4, <1>5, <1>6, <1>7 DEF Answering
<1>9. ASSUME NEW t \in Slots \ {s}, conns'[t].hdr # NULL PROVE Answering(t)'
  <2> DEFINE x == conns[t].hdr
  <2>1. conns'[t] = conns[t] /\ x \in Requests /\ x.client \in Clients /\ Answering(t)
    BY <1>4, <1>9, OrderTypes DEF Ordered
  <2>2. Precedes(x.n, inbox[x.client]) => Precedes(x.n, inbox'[x.client])
    BY <1>2, <2>1, SuffixOrder DEF Consumed, TypeOK, Types, SocketsTypeOK
  <2> QED
    BY <2>1, <2>2 DEF Answering, Pending
<1> QED
  BY <1>3, <1>8, <1>9 DEF Ordered

\* A client sends its next request.
LEMMA OrderedSend ==
  ASSUME TypeOK, TypeOK', Ordered, UNCHANGED <<got, conns>>, NEW c \in Clients, Send(c)
  PROVE  Ordered'
<1> DEFINE q == inbox[c]
           n == asked[c] + 1
<1>0. PICK r : /\ r \in Requests /\ r.client = c /\ r.n = n
               /\ inbox' = [inbox EXCEPT ![c] = Append(q, r)]
               /\ asked' = [asked EXCEPT ![c] = n]
  <2>1. asked[c] \in Nat /\ asked[c] < MaxReq
    BY OrderTypes DEF Send
  <2>2. n \in 1..MaxReq
    BY <2>1, Constants
  <2>3. PICK kind \in Kinds :
          inbox' = [inbox EXCEPT ![c] = Append(q, [client |-> c, n |-> n, kind |-> kind])]
    BY DEF Send
  <2> DEFINE r == [client |-> c, n |-> n, kind |-> kind]
  <2>4. r \in Requests /\ r.client = c /\ r.n = n
    BY <2>2 DEF Requests
  <2>5. inbox' = [inbox EXCEPT ![c] = Append(q, r)] /\ asked' = [asked EXCEPT ![c] = n]
    BY <2>3 DEF Send
  <2> HIDE DEF r
  <2> QED
    BY <2>4, <2>5
<1>1. q \in Seq(Requests) /\ asked[c] \in Nat /\ n \in Nat /\ asked[c] < n
  BY OrderTypes
<1>2. /\ Len(inbox'[c]) = Len(q) + 1 /\ Len(q) \in Nat /\ inbox'[c][Len(q) + 1] = r
      /\ \A i \in 1..Len(q) : inbox'[c][i] = q[i]
  BY <1>0, <1>1, Appended, OrderTypes
<1>3. \A d \in Clients : d # c => inbox'[d] = inbox[d] /\ asked'[d] = asked[d]
  BY <1>0, OrderTypes
<1>4. asked'[c] = n
  BY <1>0, OrderTypes
<1> HIDE DEF q, n
<1>5. ASSUME NEW m \in Nat, NEW d \in Clients, m <= asked[d], Precedes(m, inbox[d])
      PROVE  m <= asked'[d] /\ Precedes(m, inbox'[d])
  <2>1. CASE d # c
    BY <1>3, <1>5, <2>1
  <2>2. CASE d = c
    <3>1. m < n
      BY <1>1, <1>5, <2>2
    <3>2. ASSUME NEW i \in 1..Len(inbox'[c]) PROVE m < inbox'[c][i].n
      <4>1. CASE i = Len(q) + 1
        BY <1>0, <1>2, <3>1, <4>1
      <4>2. CASE i # Len(q) + 1
        <5>1. i \in 1..Len(q)
          BY <1>2, <4>2
        <5> QED
          BY <1>2, <1>5, <2>2, <5>1 DEF Precedes, q
      <4> QED
        BY <4>1, <4>2
    <3> QED
      BY <1>1, <1>4, <2>2, <3>1, <3>2 DEF Precedes
  <2> QED
    BY <2>1, <2>2
<1>6. ASSUME NEW i \in 1..Len(q) PROVE q[i].client = c /\ q[i].n \in Nat /\ q[i].n < n
  <2>1. q[i] \in Requests /\ q[i].client = c /\ q[i].n <= asked[c]
    BY <1>6, OrderTypes DEF Ordered, Queued, q
  <2> QED
    BY <1>1, <2>1, OrderTypes
<1>7. ASSUME NEW d \in Clients
      PROVE  /\ Increasing(inbox'[d])
             /\ \A i \in 1..Len(inbox'[d]) : inbox'[d][i].client = d /\ inbox'[d][i].n <= asked'[d]
  <2>1. CASE d # c
    BY <1>3, <2>1 DEF Ordered, Queued
  <2>2. CASE d = c
    <3>1. ASSUME NEW i \in 1..Len(inbox'[c])
          PROVE  inbox'[c][i].client = c /\ inbox'[c][i].n <= n
      <4>1. CASE i = Len(q) + 1
        BY <1>0, <1>1, <1>2, <4>1
      <4>2. CASE i # Len(q) + 1
        BY <1>1, <1>2, <1>6, <4>2
      <4> QED
        BY <4>1, <4>2
    <3>2. ASSUME NEW i \in 1..Len(inbox'[c]), NEW j \in 1..Len(inbox'[c]), i < j
          PROVE  inbox'[c][i].n < inbox'[c][j].n
      <4>0. i \in 1..Len(q) /\ inbox'[c][i] = q[i]
        BY <1>2, <3>2
      <4>1. CASE j = Len(q) + 1
        BY <1>0, <1>2, <1>6, <4>0, <4>1
      <4>2. CASE j # Len(q) + 1
        <5>1. j \in 1..Len(q) /\ inbox'[c][j] = q[j]
          BY <1>2, <4>2
        <5> QED
          BY <3>2, <4>0, <5>1 DEF Ordered, Queued, Increasing, q
      <4> QED
        BY <4>1, <4>2
    <3> QED
      BY <1>4, <2>2, <3>1, <3>2 DEF Increasing
  <2> QED
    BY <2>1, <2>2
<1>8. Queued'
  BY <1>7 DEF Queued
<1>9. Received'
  <2> SUFFICES ASSUME NEW d \in Clients, NEW i \in 1..Len(got[d]), got[d][i].client = d
               PROVE  got[d][i].n <= asked'[d] /\ Precedes(got[d][i].n, inbox'[d])
    BY DEF Received
  <2>1. got[d][i].n \in Nat
    BY OrderTypes
  <2> QED
    BY <1>5, <2>1 DEF Ordered, Received
<1>10. ASSUME NEW s \in Slots, conns[s].hdr # NULL PROVE Answering(s)'
  <2>1. conns[s].hdr.client \in Clients /\ conns[s].hdr.n \in Nat /\ Answering(s)
    BY <1>10, OrderTypes DEF Ordered
  <2> QED
    BY <1>5, <2>1 DEF Answering, Pending
<1> QED
  BY <1>8, <1>9, <1>10 DEF Ordered, NoReplay

(***************************************************************************)
(* The connections.                                                        *)
(***************************************************************************)
\* Connections are closed at most.
Shrinks ==
  /\ \A f \in Fds : sock'[f] \in {NULL, sock[f]}
  /\ backlog' = backlog
  /\ \A c \in Clients : peer'[c] = "idle" <=> peer[c] = "idle"

LEMMA ClosedShrinks ==
  ASSUME TypeOK, NEW S, CloseFds(S), UNCHANGED <<backlog, peer>> PROVE Shrinks
BY DEF CloseFds, CloseIn, Shrinks

LEMMA ClosedConsumed ==
  ASSUME TypeOK, NEW S, NEW so, NEW ep, CloseIn(S, so, ep) PROVE Consumed
<1>1. ASSUME NEW c \in Clients PROVE Suffix(inbox'[c], inbox[c])
  BY SuffixAll, OrderTypes DEF CloseIn
<1> QED
  BY <1>1 DEF Consumed

LEMMA UnreadConsumed ==
  ASSUME TypeOK, UNCHANGED inbox PROVE Consumed
BY SuffixAll, OrderTypes DEF Consumed

LEMMA ApartShrinks ==
  ASSUME TypeOK, Apart, Shrinks PROVE Apart'
<1>1. NULL \notin Clients /\ backlog' = backlog /\ \A f \in Fds : sock'[f] \in {NULL, sock[f]}
  BY Constants DEF Shrinks
<1>2. ASSUME NEW c \in Clients, peer'[c] = "idle" PROVE ~Connected(c)'
  <2>1. c # NULL /\ ~Connected(c)
    BY <1>1, <1>2 DEF Apart, Shrinks
  <2> QED
    BY <1>1, <2>1 DEF Connected
<1>3. ASSUME NEW f \in Fds, NEW g \in Fds, sock'[f] # NULL, sock'[f] = sock'[g] PROVE f = g
  <2>1. sock[f] # NULL /\ sock[f] = sock[g]
    BY <1>1, <1>3
  <2> QED
    BY <2>1 DEF Apart
<1>4. ASSUME NEW f \in Fds PROVE sock'[f] \notin backlog'
  <2>1. NULL \notin backlog
    BY <1>1 DEF TypeOK, Types, SocketsTypeOK
  <2> QED
    BY <1>1, <2>1 DEF Apart
<1> QED
  BY <1>2, <1>3, <1>4 DEF Apart

\* The slots keep what they answer and the connections they have.
LEMMA PlacedShrinks ==
  ASSUME TypeOK, Placed, Shrinks,
         \A s \in Slots : conns'[s].hdr = conns[s].hdr,
         \A s \in Slots, f \in Fds : sock'[f] # NULL /\ First(s, f) => First(s, f)',
         at'.op # "next" => First(at.slot, Fd)'
  PROVE  Placed'
<1>1. ASSUME NEW s \in Slots, conns'[s].hdr # NULL PROVE Homed(s)'
  <2> DEFINE c == conns[s].hdr.client
  <2>1. c \in Clients /\ Homed(s) /\ conns'[s].hdr.client = c
    BY <1>1, OrderTypes DEF Placed
  <2>2. c \notin backlog' /\ peer'[c] # "idle"
    BY <2>1 DEF Shrinks, Homed
  <2>3. ASSUME NEW f \in Fds, sock'[f] = c PROVE First(s, f)'
    BY <2>1, <2>3, Constants DEF Shrinks, Homed
  <2> QED
    BY <2>1, <2>2, <2>3 DEF Homed
<1> QED
  BY <1>1 DEF Placed

\* Where the loop goes when it takes up an event.
Arrives ==
  \/ UNCHANGED at
  \/ at'.op # "next" => /\ First(at'.slot, conns[at'.slot].fd)
                        /\ at'.op = "file" => conns[at'.slot].sent

\* A step that leaves the slots and the answers alone.
LEMMA QuietInv ==
  ASSUME OrderInv, TypeOK', Shrinks, Consumed, Arrives, UNCHANGED <<conns, got, asked>>
  PROVE  OrderInv'
<1>1. Apart'
  BY ApartShrinks DEF OrderInv
<1>2. \A s \in Slots : Keeps(s)
  BY DEF Keeps, Pending
<1>3. Ordered'
  BY <1>2, OrderedKept DEF OrderInv
<1>4. \A s, f : First(s, f) => First(s, f)'
  BY DEF First
<1>5. at'.op # "next" => First(at.slot, Fd)'
  BY <1>4 DEF Arrives, Fd, First, OrderInv, Placed
<1>6. Placed'
  BY <1>4, <1>5, PlacedShrinks DEF OrderInv
<1>7. Spent'
  BY DEF Arrives, Spent, OrderInv
<1> QED
  BY <1>1, <1>3, <1>6, <1>7 DEF OrderInv

(***************************************************************************)
(* The steps.                                                              *)
(***************************************************************************)
LEMMA QuietServer ==
  ASSUME OrderInv, TypeOK',
         \/ Wait \/ ReadEAGAIN \/ WriteNothing \/ SendNothing \/ SendEAGAIN
         \/ BrokenPipe \/ UNCHANGED vars
         \/ \E e \in ready : AcceptFails(e) \/ Orphan(e) \/ BeginRead(e) \/ BeginWrite(e)
  PROVE  OrderInv'
<1>0. TypeOK
  BY DEF OrderInv
<1>1. CASE \/ Wait \/ ReadEAGAIN \/ WriteNothing \/ SendNothing \/ SendEAGAIN
           \/ BrokenPipe \/ UNCHANGED vars \/ \E e \in ready : AcceptFails(e)
  <2>1. UNCHANGED <<sock, backlog, peer, inbox, conns, got, asked>>
    BY <1>1 DEF Wait, ReadEAGAIN, WriteNothing, SendNothing, SendEAGAIN, BrokenPipe,
                AcceptFails, Exit, vars, sockVars
  <2>2. at' = at \/ at'.op = "next"
    BY <1>1 DEF Wait, ReadEAGAIN, WriteNothing, SendNothing, SendEAGAIN, BrokenPipe,
                AcceptFails, Exit, Done, Go, vars, loopVars
  <2> QED
    BY <1>0, <2>1, <2>2, UnreadConsumed, QuietInv DEF Shrinks, Arrives
<1>2. ASSUME NEW e \in ready, Orphan(e) PROVE OrderInv'
  <2>1. CloseFds({e[1]}) /\ UNCHANGED <<backlog, peer, conns, got, asked, at>>
    BY <1>2 DEF Orphan
  <2> QED
    BY <1>0, <2>1, ClosedShrinks, ClosedConsumed, QuietInv DEF CloseFds, Arrives
<1>3. ASSUME NEW e \in ready, BeginRead(e) \/ BeginWrite(e) PROVE OrderInv'
  <2>1. UNCHANGED <<sock, backlog, peer, inbox, conns, got, asked>>
    BY <1>3 DEF BeginRead, BeginWrite, sockVars
  <2>2. Arrives
    BY <1>3 DEF BeginRead, BeginWrite, Go, Done, First, Arrives
  <2> QED
    BY <1>0, <2>1, <2>2, UnreadConsumed, QuietInv DEF Shrinks
<1> QED
  BY <1>1, <1>2, <1>3

LEMMA ClientsInv == ASSUME OrderInv, TypeOK', ClientStep PROVE OrderInv'
<1>0. TypeOK /\ Apart /\ Placed /\ Spent /\ Ordered /\ UNCHANGED <<conns, at>>
  BY DEF OrderInv, ClientStep, loopVars
<1>1. ASSUME NEW c \in Clients, Connect(c) PROVE OrderInv'
  <2>1. /\ peer[c] = "idle" /\ peer' = [peer EXCEPT ![c] = "open"]
        /\ backlog' = backlog \cup {c} /\ UNCHANGED <<sock, inbox, asked, got>>
    BY <1>1 DEF Connect
  <2>2. peer \in [Clients -> Peers]
    BY <1>0 DEF TypeOK, Types, SocketsTypeOK
  <2>3. c \notin backlog /\ \A f \in Fds : sock[f] # c
    BY <1>0, <2>1 DEF Apart, Connected
  <2>4. Apart'
    BY <1>0, <2>1, <2>2, <2>3 DEF Apart, Connected
  <2>5. \A s, f : First(s, f) => First(s, f)'
    BY <1>0 DEF First
  <2>6. ASSUME NEW s \in Slots, conns'[s].hdr # NULL PROVE Homed(s)'
    <3>1. Homed(s) /\ conns'[s].hdr = conns[s].hdr /\ conns[s].hdr.client \in Clients
      BY <1>0, <2>6, OrderTypes DEF Placed
    <3>2. conns[s].hdr.client # c
      BY <2>1, <3>1 DEF Homed
    <3> QED
      BY <2>1, <2>2, <2>5, <3>1, <3>2 DEF Homed
  <2>7. Placed'
    BY <1>0, <2>5, <2>6 DEF Placed, Fd
  <2>8. Spent'
    BY <1>0 DEF Spent
  <2>9. Ordered'
    BY <1>0, <2>1, UnreadConsumed, OrderedKept DEF Keeps, Pending
  <2> QED
    BY <2>4, <2>7, <2>8, <2>9 DEF OrderInv
<1>2. ASSUME NEW c \in Clients, Send(c) PROVE OrderInv'
  <2>1. Shrinks /\ UNCHANGED got
    BY <1>2 DEF Send, Shrinks
  <2>2. Apart'
    BY <1>0, <2>1, ApartShrinks
  <2>3. \A s, f : First(s, f) => First(s, f)'
    BY <1>0 DEF First
  <2>4. Placed'
    BY <1>0, <2>1, <2>3, PlacedShrinks DEF Placed, Fd
  <2>5. Spent'
    BY <1>0 DEF Spent
  <2>6. Ordered'
    BY <1>0, <1>2, <2>1, OrderedSend
  <2> QED
    BY <2>2, <2>4, <2>5, <2>6 DEF OrderInv
<1>3. ASSUME NEW c \in Clients, NEW p \in Peers \ {"idle"}, Ends(c, p) PROVE OrderInv'
  <2>1. peer[c] # "idle" /\ peer' = [peer EXCEPT ![c] = p] /\ peer \in [Clients -> Peers]
    BY <1>0, <1>3 DEF Ends, Apart, TypeOK, Types, SocketsTypeOK
  <2>2. UNCHANGED <<sock, backlog, inbox, asked, got>>
    BY <1>3 DEF Ends
  <2> QED
    BY <1>0, <2>1, <2>2, UnreadConsumed, QuietInv DEF Shrinks, Arrives
<1>4. ASSUME NEW c \in Clients, Drain(c) PROVE OrderInv'
  <2>1. UNCHANGED <<sock, backlog, peer, inbox, asked, got>>
    BY <1>4 DEF Drain
  <2> QED
    BY <1>0, <2>1, UnreadConsumed, QuietInv DEF Shrinks, Arrives
<1>5. {"closed", "half", "reset", "gone"} \subseteq Peers \ {"idle"}
  BY DEF Peers
<1> QED
  BY <1>1, <1>2, <1>3, <1>4, <1>5 DEF ClientStep, ClientNext, Close, HalfClose, Abort, Refused

\* A step that changes the slot in hand, but not the request it answers.
LEMMA SlotInv ==
  ASSUME OrderInv, TypeOK', Shrinks, at.op # "next",
         NEW y, conns' = [conns EXCEPT ![at.slot] = y], y.hdr = conns[at.slot].hdr,
         y.fd = Fd \/ (y.fd = 0 /\ sock'[Fd] = NULL),
         y.sent => y.left = 0,
         at'.op # "next" => at'.slot = at.slot /\ y.fd = Fd /\ y.sent,
         Ordered'
  PROVE  OrderInv'
<1>0. TypeOK /\ Apart /\ Placed /\ Spent
  BY DEF OrderInv
<1>1. /\ at.slot \in Slots /\ conns'[at.slot] = y /\ Fd = conns[at.slot].fd
      /\ \A s \in Slots \ {at.slot} : conns'[s] = conns[s]
  BY <1>0, CurrentType DEF Fd, TypeOK, Types
<1>2. ASSUME NEW s \in Slots, NEW f \in Fds, y.fd = Fd \/ f # Fd, First(s, f)
      PROVE  First(s, f)'
  <2>1. \A t \in Slots : conns'[t].fd = conns[t].fd \/ (t = at.slot /\ y.fd = 0 /\ f # Fd)
    BY <1>1, <1>2
  <2>2. \A t \in Slots : conns'[t].fd = f <=> conns[t].fd = f
    BY <1>1, <2>1, Constants
  <2> QED
    BY <1>2, <2>2 DEF First
<1>3. \A s \in Slots, f \in Fds : sock'[f] # NULL /\ First(s, f) => First(s, f)'
  BY <1>2
<1>4. at'.op # "next" => First(at.slot, Fd)'
  BY <1>0, <1>1, <1>2, CurrentType DEF Placed, Fd
<1>5. Placed'
  BY <1>0, <1>1, <1>3, <1>4, PlacedShrinks
<1>6. Spent'
  BY <1>0, <1>1 DEF Spent
<1> QED
  BY <1>0, <1>5, <1>6, ApartShrinks DEF OrderInv

\* In a step of a slot the other slots keep what they answer.
LEMMA SlotKeeps ==
  ASSUME TypeOK, NEW y, conns' = [conns EXCEPT ![at.slot] = y],
         y.hdr = conns[at.slot].hdr,
         (\/ y.left > 0
          \/ y.hdr.kind = "file" /\ y.sending /\ y.fleft > 0) => Pending(at.slot)
  PROVE  \A s \in Slots : Keeps(s)
<1>1. /\ at.slot \in Slots /\ conns'[at.slot] = y
      /\ \A s \in Slots \ {at.slot} : conns'[s] = conns[s]
  BY CurrentType DEF TypeOK, Types
<1>2. ASSUME NEW s \in Slots PROVE Keeps(s)
  <2>1. CASE s = at.slot
    BY <1>1, <2>1 DEF Keeps, Pending
  <2>2. CASE s # at.slot
    BY <1>1, <2>2 DEF Keeps, Pending
  <2> QED
    BY <2>1, <2>2
<1> QED
  BY <1>2

LEMMA ReadSomeInv == ASSUME OrderInv, TypeOK', ReadSome PROVE OrderInv'
<1>0. TypeOK /\ Apart /\ Placed /\ Spent /\ Ordered
  BY DEF OrderInv
<1>1. /\ Client \in Clients /\ Fd \in Fds /\ at.slot \in Slots /\ at.op = "read"
      /\ UNCHANGED <<sock, backlog, peer, got, asked>>
  BY <1>0, CurrentType DEF ReadSome, At, Client, TypeOK, Types, SocketsTypeOK
<1>2. PICK k \in 1..Len(inbox[Client]) :
        /\ inbox' = [inbox EXCEPT ![Client] =
                       SubSeq(inbox[Client], k + 1, Len(inbox[Client]))]
        /\ \/ Exit
           \/ HandleRequest(at.slot, inbox[Client][1]) /\ UNCHANGED at
  BY DEF ReadSome
<1>3. Consumed
  <2>1. ASSUME NEW d \in Clients PROVE Suffix(inbox'[d], inbox[d])
    BY <1>0, <1>1, <1>2, SuffixAll, SuffixRest, OrderTypes
  <2> QED
    BY <2>1 DEF Consumed
<1>4. Shrinks
  BY <1>1 DEF Shrinks
<1>5. CASE Exit
  BY <1>1, <1>3, <1>4, <1>5, QuietInv DEF Exit, loopVars, Arrives
<1>6. CASE HandleRequest(at.slot, inbox[Client][1]) /\ UNCHANGED at
  <2> PICK s \in Slots : s = at.slot
    BY <1>1
  <2> DEFINE r == inbox[Client][1]
  <2>1. r \in Requests /\ r.client = Client
    BY <1>0, <1>1, <1>2, OrderTypes DEF Ordered, Queued
  <2>2. /\ conns'[s].hdr = r /\ conns'[s].fd = conns[s].fd /\ ~conns'[s].sent
        /\ \A t \in Slots \ {s} : conns'[t] = conns[t]
    BY <1>0, <1>6, <2>1, HandleRequestSlot
  <2>3. ASSUME NEW t \in Slots, NEW f, First(t, f) PROVE First(t, f)'
    BY <2>2, <2>3 DEF First
  <2>4. First(s, Fd) /\ Fd = conns[s].fd
    BY <1>0, <1>1 DEF Placed, Fd
  <2>5. Homed(s)'
    <3>1. Client \notin backlog' /\ peer'[Client] # "idle"
      BY <1>0, <1>1 DEF Apart, Connected, Client
    <3>2. ASSUME NEW f \in Fds, sock'[f] = Client PROVE First(s, f)'
      <4>1. f = Fd
        BY <1>0, <1>1, <3>2, Constants DEF Apart, Client
      <4> QED
        BY <1>1, <2>3, <2>4, <4>1
    <3> QED
      BY <2>1, <2>2, <3>1, <3>2 DEF Homed
  <2>6. ASSUME NEW t \in Slots \ {s}, conns'[t].hdr # NULL PROVE Homed(t)'
    BY <1>0, <1>1, <2>2, <2>3, <2>6 DEF Placed, Homed
  <2>7. at' = at /\ Fd' = Fd
    BY <1>6, <2>2 DEF Fd
  <2>8. Placed'
    BY <1>1, <2>3, <2>4, <2>5, <2>6, <2>7 DEF Placed
  <2>9. Spent'
    BY <1>0, <1>1, <2>2, <2>7 DEF Spent
  <2>10. Apart'
    BY <1>0, <1>4, ApartShrinks
  <2>11. Ordered'
    BY <1>0, <1>1, <1>2, <1>6, OrderedHandle
  <2> QED
    BY <2>8, <2>9, <2>10, <2>11 DEF OrderInv
<1> QED
  BY <1>2, <1>5, <1>6

\* The steps that close the connection in hand.
LEMMA ClosingInv ==
  ASSUME OrderInv, TypeOK', ReadEnd \/ WriteFails \/ SendFails PROVE OrderInv'
<1>0. TypeOK /\ Apart /\ Placed /\ Spent /\ Ordered
  BY DEF OrderInv
<1> DEFINE x == conns[at.slot]
           y == IF ReadEnd THEN Reset(x) ELSE [x EXCEPT !.fd = 0]
<1>1. x \in SlotRecords /\ Fd = x.fd /\ Fd \in Fds /\ at.op # "next"
  BY <1>0, CurrentType DEF Fd, ReadEnd, WriteFails, SendFails, At
<1>2. PICK S : CloseFds(S) /\ Fd \in S
  BY DEF ReadEnd, WriteFails, SendFails
<1>3. conns' = [conns EXCEPT ![at.slot] = y] /\ at'.op = "next"
  BY DEF ReadEnd, WriteFails, SendFails, Done, Go
<1>4. UNCHANGED <<backlog, peer, got, asked>>
  BY DEF ReadEnd, WriteFails, SendFails
<1>5. /\ y.hdr = x.hdr /\ y.left = x.left /\ y.fleft = x.fleft /\ (y.sending => x.sending)
      /\ y.fd = Fd \/ y.fd = 0
      /\ y.sent => x.sent
  BY <1>1 DEF Reset, SlotRecords
<1> HIDE DEF y
<1>6. sock'[Fd] = NULL
  BY <1>1, <1>2 DEF CloseFds, CloseIn
<1>7. Shrinks /\ Consumed
  BY <1>0, <1>2, <1>4, ClosedShrinks, ClosedConsumed DEF CloseFds
<1>8. \A s \in Slots : Keeps(s)
  BY <1>0, <1>3, <1>5, SlotKeeps DEF Pending
<1>9. Ordered'
  BY <1>0, <1>4, <1>7, <1>8, OrderedKept
<1>10. y.sent => y.left = 0
  BY <1>0, <1>5, CurrentType DEF Spent
<1> QED
  BY <1>1, <1>3, <1>5, <1>6, <1>7, <1>9, <1>10, SlotInv

LEMMA WriteInv == ASSUME OrderInv, TypeOK', Write PROVE OrderInv'
<1>0. TypeOK /\ Apart /\ Placed /\ Spent /\ Ordered
  BY DEF OrderInv
<1> PICK s \in Slots : s = at.slot
  BY <1>0, CurrentType
<1> DEFINE x == conns[s]
           y(k) == [x EXCEPT !.left = x.left - k, !.sent = (k = x.left)]
<1>1. /\ x \in SlotRecords /\ Fd = x.fd /\ Fd \in Fds /\ at.op = "write"
      /\ x.left \in Nat /\ x.left > 0
      /\ Client = sock[Fd] /\ Client \in Clients /\ Client # NULL
  <2>1. x.left \in 0..HeaderLen
    BY <1>0, SlotFields, CurrentType
  <2>2. at.op = "write" /\ x.left > 0 /\ Client # NULL
    BY DEF Write, At
  <2>3. Fd = x.fd /\ Fd \in Fds /\ x \in SlotRecords
    BY <1>0, <2>2, CurrentType DEF Fd
  <2>4. Client = sock[Fd] /\ Client \in Clients
    BY <1>0, <2>2, <2>3 DEF Client, TypeOK, Types, SocketsTypeOK
  <2> QED
    BY <2>1, <2>2, <2>3, <2>4, Constants
<1>2. UNCHANGED <<sock, backlog, inbox, asked>>
  BY DEF Write
<1>3. PICK k \in 1..x.left :
        /\ Buffered(Client, k, x.left, ~x.sending)
        /\ conns' = [conns EXCEPT ![s] = y(k)]
        /\ \/ k = x.left /\ AfterHeader(s, x.sending)
           \/ k # x.left /\ Done
        /\ \/ k = x.left /\ x.hdr.kind \in Whole /\ Receive(Client, x.hdr)
           \/ UNCHANGED got
  BY DEF Write
<1>4. /\ y(k).hdr = x.hdr /\ y(k).fd = x.fd /\ y(k).fleft = x.fleft
      /\ y(k).sending = x.sending /\ y(k).left = x.left - k
      /\ y(k).sent <=> k = x.left
  BY <1>1 DEF SlotRecords
<1>5. y(k).sent => y(k).left = 0
  BY <1>1, <1>4
<1>6. at'.op # "next" => at'.slot = at.slot /\ y(k).sent
  BY <1>3, <1>4 DEF AfterHeader, Done, Go
<1> HIDE DEF y
<1>7. Shrinks /\ Consumed
  BY <1>0, <1>2, <1>3, UnreadConsumed
     DEF Buffered, Shrinks, TypeOK, Types, SocketsTypeOK
<1>8. Pending(s)
  BY <1>1 DEF Pending
<1>9. \A t \in Slots : Keeps(t)
  BY <1>0, <1>3, <1>4, <1>8, SlotKeeps
<1>10. Ordered'
  <2>1. CASE UNCHANGED got
    BY <1>0, <1>2, <1>7, <1>9, <2>1, OrderedKept
  <2>2. CASE k = x.left /\ x.hdr.kind \in Whole /\ Receive(Client, x.hdr)
    <3>1. x.hdr # NULL
      BY <1>0, <1>1 DEF TypeOK, Prepared
    <3>2. conns'[s] = y(k)
      BY <1>0, <1>3 DEF TypeOK, Types
    <3>3. ~Pending(s)'
      BY <1>1, <1>4, <2>2, <3>2 DEF Pending, Whole
    <3>4. First(s, Fd)
      BY <1>0, <1>1 DEF Placed
    <3> QED
      BY <1>0, <1>1, <1>2, <1>7, <1>8, <1>9, <2>2, <3>1, <3>3, <3>4, OrderedReceive
  <2> QED
    BY <1>3, <2>1, <2>2
<1> QED
  BY <1>1, <1>3, <1>4, <1>5, <1>6, <1>7, <1>10, SlotInv

LEMMA SendFileInv == ASSUME OrderInv, TypeOK', SendFile PROVE OrderInv'
<1>0. TypeOK /\ Apart /\ Placed /\ Spent /\ Ordered
  BY DEF OrderInv
<1> PICK s \in Slots : s = at.slot
  BY <1>0, CurrentType
<1> DEFINE x == conns[s]
           y(k) == [x EXCEPT !.fleft = x.fleft - k]
           z == [Reset(x) EXCEPT !.fleft = 0]
<1>1. /\ x \in SlotRecords /\ Fd = x.fd /\ Fd \in Fds /\ at.op = "file"
      /\ x.fleft > 0 /\ x.sent /\ x.left = 0 /\ x.sending
      /\ Client = sock[Fd] /\ Client \in Clients /\ Client # NULL
  BY <1>0, CurrentType
     DEF SendFile, At, Fd, Client, Spent, Serving, TypeOK, Types, SocketsTypeOK
<1>2. UNCHANGED <<backlog, asked>> /\ at'.op = "next"
  BY DEF SendFile, Done, Go
<1>3. PICK k \in 1..x.fleft :
        /\ Buffered(Client, k, x.fleft, TRUE)
        /\ \/ conns' = [conns EXCEPT ![s] = y(k)] /\ UNCHANGED <<sock, inbox, got>>
           \/ /\ conns' = [conns EXCEPT ![s] = z]
              /\ CloseIn(FileOf(s), sock, [epi EXCEPT ![Fd] = Item("once", Fd)])
              /\ IF x.hdr.kind = "file" THEN Receive(Client, x.hdr) ELSE UNCHANGED got
  BY DEF SendFile
<1>4. /\ y(k).hdr = x.hdr /\ y(k).fd = x.fd /\ y(k).left = x.left
      /\ y(k).sending = x.sending
      /\ z.hdr = x.hdr /\ z.fd = x.fd /\ z.left = x.left /\ ~z.sending
  BY <1>1 DEF Reset, SlotRecords
<1> HIDE DEF y, z
<1>5. Shrinks
  BY <1>0, <1>2, <1>3 DEF Buffered, CloseIn, Shrinks, TypeOK, Types, SocketsTypeOK
<1>6. Consumed
  BY <1>0, <1>3, UnreadConsumed, ClosedConsumed
<1>7. \A t \in Slots : Keeps(t)
  <2>1. CASE conns' = [conns EXCEPT ![s] = y(k)]
    BY <1>0, <1>1, <1>4, <2>1, SlotKeeps DEF Pending
  <2>2. CASE conns' = [conns EXCEPT ![s] = z]
    <3>1. z.hdr = x.hdr /\ ~(z.left > 0) /\ ~z.sending
      BY <1>1, <1>4
    <3> QED
      BY <1>0, <2>2, <3>1, SlotKeeps
  <2> QED
    BY <1>3, <2>1, <2>2
<1>8. Ordered'
  <2>1. CASE UNCHANGED got
    BY <1>0, <1>2, <1>6, <1>7, <2>1, OrderedKept
  <2>2. CASE /\ conns' = [conns EXCEPT ![s] = z]
             /\ x.hdr.kind = "file" /\ Receive(Client, x.hdr)
    <3>1. x.hdr # NULL
      BY <1>0, <1>1 DEF TypeOK, Prepared
    <3>2. conns'[s] = z
      BY <1>0, <2>2 DEF TypeOK, Types
    <3>3. Pending(s) /\ ~Pending(s)'
      BY <1>1, <1>4, <2>2, <3>2 DEF Pending
    <3>4. First(s, Fd)
      BY <1>0, <1>1 DEF Placed
    <3> QED
      BY <1>0, <1>1, <1>2, <1>6, <1>7, <2>2, <3>1, <3>3, <3>4, OrderedReceive
  <2> QED
    BY <1>3, <2>1, <2>2
<1> QED
  BY <1>1, <1>2, <1>3, <1>4, <1>5, <1>8, SlotInv

LEMMA AcceptInv == ASSUME OrderInv, TypeOK', NEW e \in ready, Accept(e) PROVE OrderInv'
<1>0. /\ TypeOK /\ Apart /\ Placed /\ Spent /\ Ordered
      /\ at' = at /\ at.op = "next" /\ UNCHANGED <<peer, asked, got>>
  BY DEF OrderInv, Accept, At
<1>1. PICK c \in backlog, f \in Fds, S \in SUBSET Fds, s \in Slots :
        /\ sock[f] = NULL
        /\ CloseIn(S, [sock EXCEPT ![f] = c], [epi EXCEPT ![f] = Item("inout", f)])
        /\ \/ /\ conns[s].fd = 0
              /\ conns' = [conns EXCEPT ![s] = [Reset(conns[s]) EXCEPT !.fd = f]]
           \/ UNCHANGED conns
        /\ backlog' = backlog \ {c}
  <2>1. \A t \in Slots : FileOf(t) \subseteq Fds
    BY <1>0 DEF FileOf, TypeOK, Types, SlotRecords
  <2> QED
    BY <2>1, Constants DEF Accept, Lowest, FreeFds, FirstFree, First
<1>2. c \in Clients /\ sock \in [Fds -> Clients \cup {NULL}]
  BY <1>0, <1>1 DEF TypeOK, Types, SocketsTypeOK
<1>3. \A g \in Fds : sock'[g] = NULL \/ (g = f /\ sock'[g] = c) \/ (g # f /\ sock'[g] = sock[g])
  BY <1>1, <1>2 DEF CloseIn
<1>4. /\ \A t \in Slots : conns'[t].hdr = conns[t].hdr /\ conns'[t].left = conns[t].left
      /\ \A t \in Slots : conns'[t].fleft = conns[t].fleft
      /\ \A t \in Slots : conns'[t].sending => conns[t].sending
      /\ \A t \in Slots : conns'[t].sent => conns[t].sent
      /\ \A t \in Slots : conns'[t].fd = conns[t].fd \/ (conns[t].fd = 0 /\ conns'[t].fd = f)
  <2> DEFINE y == [Reset(conns[s]) EXCEPT !.fd = f]
  <2>1. /\ y.hdr = conns[s].hdr /\ y.left = conns[s].left /\ y.fleft = conns[s].fleft
        /\ ~y.sending /\ ~y.sent /\ y.fd = f
    <3>1. /\ conns[s] \in SlotRecords /\ Reset(conns[s]) \in SlotRecords
          /\ Reset(conns[s]).hdr = conns[s].hdr /\ Reset(conns[s]).left = conns[s].left
          /\ Reset(conns[s]).fleft = conns[s].fleft
          /\ ~Reset(conns[s]).sending /\ ~Reset(conns[s]).sent
      <4>1. conns[s] \in SlotRecords
        BY <1>0 DEF TypeOK, Types
      <4>2. Reset(conns[s]) \in SlotRecords
        BY <4>1, ResetType
      <4> QED
        BY <4>1, <4>2 DEF Reset, SlotRecords
    <3>2. ASSUME NEW w \in SlotRecords
          PROVE  LET v == [w EXCEPT !.fd = f]
                 IN /\ v.hdr = w.hdr /\ v.left = w.left /\ v.fleft = w.fleft
                    /\ v.sending = w.sending /\ v.sent = w.sent /\ v.fd = f
      BY DEF SlotRecords
    <3> QED
      BY <3>1, <3>2
  <2> HIDE DEF y
  <2>2. CASE conns[s].fd = 0 /\ conns' = [conns EXCEPT ![s] = y]
    <3>1. conns'[s] = y /\ \A t \in Slots \ {s} : conns'[t] = conns[t]
      BY <1>0, <2>2 DEF TypeOK, Types
    <3> QED
      BY <2>1, <2>2, <3>1
  <2> QED
    BY <1>1, <2>2 DEF y
<1>5. Apart'
  BY <1>0, <1>1, <1>2, <1>3, Constants DEF Apart, Connected
<1>6. ASSUME NEW t \in Slots, conns'[t].hdr # NULL PROVE Homed(t)'
  <2> DEFINE d == conns[t].hdr.client
  <2>1. Homed(t) /\ conns'[t].hdr.client = d /\ d \in Clients /\ d # c
    BY <1>0, <1>1, <1>4, <1>6, OrderTypes DEF Placed, Homed
  <2>2. ASSUME NEW g \in Fds, sock'[g] = d PROVE First(t, g)'
    <3>1. g # f /\ g # 0 /\ First(t, g)
      BY <1>3, <2>1, <2>2, Constants DEF Homed
    <3>2. \A u \in Slots : conns'[u].fd = g <=> conns[u].fd = g
      BY <1>4, <3>1
    <3> QED
      BY <3>1, <3>2 DEF First
  <2> QED
    BY <1>0, <1>1, <2>1, <2>2 DEF Homed
<1>7. Placed'
  BY <1>0, <1>6 DEF Placed
<1>8. Spent'
  BY <1>0, <1>4 DEF Spent
<1>9. Ordered'
  BY <1>0, <1>1, <1>4, ClosedConsumed, OrderedKept DEF Keeps, Pending
<1> QED
  BY <1>5, <1>7, <1>8, <1>9 DEF OrderInv

LEMMA OrderInit == Init => OrderInv
<1> SUFFICES ASSUME Init PROVE OrderInv
  OBVIOUS
<1>1. TypeOK
  BY InitType
<1>2. /\ \A c \in Clients : Len(inbox[c]) = 0 /\ Len(got[c]) = 0
      /\ \A s \in Slots : conns[s].hdr = NULL /\ conns[s].left = 0
      /\ \A f \in Fds : sock[f] = NULL
      /\ backlog = {} /\ at.op = "next"
  BY LenProperties, EmptySeq DEF Init, SocketsInit, EmptySlot
<1>3. Apart /\ Placed /\ Spent
  BY <1>1, <1>2, Constants DEF Apart, Connected, Placed, Spent
<1>4. 1..0 = {}
  OBVIOUS
<1>5. Ordered
  BY <1>2, <1>4 DEF Ordered, Queued, Increasing, Received, NoReplay
<1> QED
  BY <1>1, <1>3, <1>5 DEF OrderInv

LEMMA OrderStep == OrderInv /\ [Next]_vars => OrderInv'
<1> SUFFICES ASSUME OrderInv, [Next]_vars PROVE OrderInv'
  OBVIOUS
<1>1. TypeOK'
  BY TypeStep DEF OrderInv
<1> QED
  BY <1>1, QuietServer, ClientsInv, ReadSomeInv, ClosingInv, WriteInv, SendFileInv, AcceptInv
     DEF Next, ServerNext, Handle, Reading, Writing, Sending

\* No client is ever sent an answer of its own twice or out of order: whatever it
\* pipelines and whenever it leaves, and however slots and descriptors are reused.
THEOREM NoReplayCorrect == Spec => []NoReplay
<1>1. OrderInv => NoReplay
  BY DEF OrderInv, Ordered
<1> QED
  BY <1>1, OrderInit, OrderStep, PTL DEF Spec

=============================================================================
