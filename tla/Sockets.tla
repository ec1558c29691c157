------------------------------ MODULE Sockets ------------------------------
(***************************************************************************)
(* What server.cpp stands on and does not implement: the descriptor table  *)
(* of its process, the TCP connections of its clients, and epoll.  All of  *)
(* it is external to the repository and modelled from the calls server.cpp *)
(* and utils.h make: accept, read, write, sendfile, open, close,           *)
(* epoll_ctl and epoll_wait.                                               *)
(*                                                                         *)
(* A client is one connection, identified by its address.  It sends whole  *)
(* requests, each in a segment of its own; several segments may be waiting *)
(* when the server reads.  A request's kind is what HTTP::return_res makes *)
(* of it:                                                                  *)
(*   file     an existing file; header, then the file by sendfile          *)
(*   empty    an existing file of no bytes                                 *)
(*   dir      a directory: stat and open succeed, sendfile does not        *)
(*   missing  no such file: header with a Content-Length and no body       *)
(*   page     header and body in one buffer (redirect, login, register)    *)
(*   head     HEAD: header only                                            *)
(*   none     POST without parsable content: return_res writes nothing     *)
(*   bad      a segment with no URL in its first line                      *)
(***************************************************************************)
EXTENDS Naturals, Sequences, FiniteSets

CONSTANTS Clients,    \* the connections that will be attempted
          NFds,       \* descriptor numbers free for connections and files
          FileLen,    \* sendfile steps a file takes at most
          MaxReq,     \* bound: requests one connection carries
          Kinds,      \* the kinds of request the clients send
          Faults,     \* what clients and kernel may do, see AllFaults
          NULL        \* no client, no request

(***************************************************************************)
(* pipeline: a client sends its next request before the answer to the last *)
(* leave:    it closes, wholly or for writing, with answers outstanding    *)
(* abort:    it resets its connection                                      *)
(* pressure: the kernel's buffers run out under a socket that was writable *)
(***************************************************************************)
AllFaults == {"pipeline", "leave", "abort", "pressure"}
AllKinds == {"file", "empty", "dir", "missing", "page", "head", "none", "bad"}

Requests == [client : Clients, n : 1..MaxReq, kind : Kinds]

ASSUME SizesAssumption ==
  NFds \in Nat \ {0} /\ FileLen \in Nat \ {0} /\ MaxReq \in Nat
ASSUME ChoicesAssumption == Kinds \subseteq AllKinds /\ Faults \subseteq AllFaults
ASSUME NullAssumption == NULL \notin Clients /\ NULL \notin Requests

VARIABLES
  sock,      \* sock[f]: the client whose connection descriptor f is, or NULL
  opened,    \* opened[f]: the request descriptor f's file was opened for, or NULL
  epi,       \* epi[f]: the epoll registration of f
  backlog,   \* connections not yet accepted
  peer,      \* the state of each client's end
  inbox,     \* requests received by the kernel and not yet read
  full,      \* whether the send buffer of a client's socket takes no more
  asked,     \* requests sent by each client
  got        \* answers each client has received in full, in order

sockVars == <<sock, opened, epi, backlog, peer, inbox, full, asked, got>>

Fds == 1..NFds

\* inout is level-triggered EPOLLIN | EPOLLOUT; out is EPOLLOUT | EPOLLET; once is
\* EPOLLIN | EPOLLET | EPOLLONESHOT, and off what a delivered once leaves.
Masks == {"none", "inout", "out", "once", "off"}

\* edge: on epoll's ready list.  tag: the data.fd its events carry (0: none).
Items == [mask : Masks, edge : BOOLEAN, tag : Fds \cup {0}]
Item(mask, tag) == [mask |-> mask, edge |-> TRUE, tag |-> tag]
NoItem == [mask |-> "none", edge |-> FALSE, tag |-> 0]

\* half: shut down for writing.  doomed: closed, and the server has written since.
\* gone: that write was answered by a reset.  reset: reset by the client.
Peers == {"idle", "open", "half", "closed", "doomed", "gone", "reset"}

Connected(c) == c \in backlog \/ \E f \in Fds : sock[f] = c
Answered(c) == asked[c] = Len(got[c])

FreeFds == {f \in Fds : sock[f] = NULL /\ opened[f] = NULL}

\* The number open and accept return.
Lowest(f) == f \in FreeFds /\ \A g \in FreeFds : f <= g

\* read would return data, 0 or an error other than EAGAIN.
Readable(f) == /\ sock[f] # NULL
               /\ \/ inbox[sock[f]] # <<>>
                  \/ peer[sock[f]] # "open"

\* Buffer space, or the error a reset left.
Writable(f) == /\ sock[f] # NULL
               /\ \/ ~full[sock[f]]
                  \/ peer[sock[f]] \in {"gone", "reset"}

\* epoll_wait reports f for reading: EPOLLIN is among its events.
FiresIn(f) == epi[f].edge /\ epi[f].mask \in {"inout", "once"} /\ Readable(f)

\* It reports f for writing only.
FiresOut(f) == /\ epi[f].edge
               /\ Writable(f)
               /\ \/ epi[f].mask = "out"
                  \/ epi[f].mask = "inout" /\ ~Readable(f)

\* What one call of epoll_wait does to a registration.
Polled(f) == [epi[f] EXCEPT
                !.edge = @ /\ epi[f].mask = "inout",
                !.mask = IF @ = "once" /\ FiresIn(f) THEN "off" ELSE @]

\* c's socket changed in a way the masks in ms listen for.
Wake(c, ms) ==
  epi' = [f \in Fds |-> IF sock[f] = c /\ epi[f].mask \in ms
                        THEN [epi[f] EXCEPT !.edge = TRUE] ELSE epi[f]]

\* close every descriptor in S, where so and ep are the sockets and registrations
\* the call finds.  epoll drops a closed descriptor, unread data is lost.
CloseIn(S, so, ep) ==
  /\ sock' = [f \in Fds |-> IF f \in S THEN NULL ELSE so[f]]
  /\ opened' = [f \in Fds |-> IF f \in S THEN NULL ELSE opened[f]]
  /\ epi' = [f \in Fds |-> IF f \in S THEN NoItem ELSE ep[f]]
  /\ inbox' = [c \in Clients |-> IF \E f \in S : so[f] = c THEN <<>> ELSE inbox[c]]

CloseFds(S) == CloseIn(S, sock, epi)

\* A write or sendfile of k of the n bytes left: short exactly when the buffer fills.
\* When all fit the buffer may be full too, last saying nothing more is to follow.
Buffered(c, k, n, last) ==
  /\ full' \in {[full EXCEPT ![c] = b] : b \in BOOLEAN}
  /\ k < n => full'[c]
  /\ k = n /\ full'[c] => last \/ "pressure" \in Faults
  /\ peer' = [peer EXCEPT ![c] = IF @ = "closed" THEN "doomed" ELSE @]

(***************************************************************************)
(* The clients and the network.                                            *)
(***************************************************************************)
SocketsInit ==
  /\ sock = [f \in Fds |-> NULL]
  /\ opened = [f \in Fds |-> NULL]
  /\ epi = [f \in Fds |-> NoItem]
  /\ backlog = {}
  /\ peer = [c \in Clients |-> "idle"]
  /\ inbox = [c \in Clients |-> <<>>]
  /\ full = [c \in Clients |-> FALSE]
  /\ asked = [c \in Clients |-> 0]
  /\ got = [c \in Clients |-> <<>>]

Connect(c) ==
  /\ peer[c] = "idle"
  /\ peer' = [peer EXCEPT ![c] = "open"]
  /\ backlog' = backlog \cup {c}
  /\ UNCHANGED <<sock, opened, epi, inbox, full, asked, got>>

Send(c) ==
  /\ Connected(c) /\ peer[c] = "open" /\ asked[c] < MaxReq
  /\ Answered(c) \/ "pipeline" \in Faults
  /\ \E kind \in Kinds :
       inbox' = [inbox EXCEPT ![c] =
                   Append(@, [client |-> c, n |-> asked[c] + 1, kind |-> kind])]
  /\ asked' = [asked EXCEPT ![c] = @ + 1]
  /\ Wake(c, {"inout", "once"})
  /\ UNCHANGED <<sock, opened, backlog, peer, full, got>>

\* c's end becomes p, which the server's socket learns at once.
Ends(c, p) ==
  /\ Connected(c)
  /\ peer' = [peer EXCEPT ![c] = p]
  /\ Wake(c, Masks \ {"none", "off"})
  /\ UNCHANGED <<sock, opened, backlog, inbox, full, asked, got>>

Close(c) ==
  /\ peer[c] = "open" /\ (Answered(c) \/ "leave" \in Faults)
  /\ Ends(c, "closed")

HalfClose(c) == "leave" \in Faults /\ peer[c] = "open" /\ Ends(c, "half")

Abort(c) == "abort" \in Faults /\ peer[c] \in {"open", "half"} /\ Ends(c, "reset")

\* The reset that answers data written to a closed connection arrives.
Refused(c) == peer[c] = "doomed" /\ Ends(c, "gone")

\* The client takes what the send buffer holds.
Drain(c) ==
  /\ Connected(c) /\ full[c] /\ peer[c] \in {"open", "half"}
  /\ full' = [full EXCEPT ![c] = FALSE]
  /\ Wake(c, {"inout", "out"})
  /\ UNCHANGED <<sock, opened, backlog, peer, inbox, asked, got>>

ClientNext ==
  \E c \in Clients : \/ Connect(c) \/ Send(c) \/ Close(c) \/ HalfClose(c)
                     \/ Abort(c) \/ Refused(c) \/ Drain(c)

SocketsTypeOK ==
  /\ sock \in [Fds -> Clients \cup {NULL}]
  /\ opened \in [Fds -> Requests \cup {NULL}]
  /\ epi \in [Fds -> Items]
  /\ backlog \in SUBSET Clients
  /\ peer \in [Clients -> Peers]
  /\ inbox \in [Clients -> Seq(Requests)]
  /\ full \in [Clients -> BOOLEAN]
  /\ asked \in [Clients -> 0..MaxReq]
  /\ got \in [Clients -> Seq(Requests)]

=============================================================================
