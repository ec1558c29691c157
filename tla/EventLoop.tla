----------------------------- MODULE EventLoop -----------------------------
(***************************************************************************)
(* The server: main's epoll loop (server.cpp) over its table of            *)
(* ClientConnection slots (utils.h), one thread, non-blocking sockets.     *)
(* Uploads have a module of their own, Upload; what return_res decides     *)
(* about pages, cookies and redirects is in Site.                          *)
(***************************************************************************)
EXTENDS Sockets

CONSTANTS NSlots,      \* CONSIZE
          HeaderLen    \* write calls a response header takes at most

ASSUME TableAssumption == NSlots \in Nat \ {0} /\ HeaderLen \in Nat \ {0}

VARIABLES
  conns,     \* connections[CONSIZE]
  ready,     \* what epoll_wait returned and the loop has still to handle
  at,        \* where the loop is, and the slot conn points to
  evfd,      \* main's ev.data.fd (0: the listening socket)
  up         \* the process runs

loopVars == <<ready, at, evfd>>
vars == <<sockVars, conns, loopVars, up>>

Slots == 1..NSlots

(***************************************************************************)
(* A slot.  hdr: the request response_header answers; left:                *)
(* response_header_len - header_written; sent: is_header_sent; name:       *)
(* filename, by the kind of request it was set for; file: file_fd, 0 for   *)
(* -1; fleft: file_size - file_sent; sending: is_file_sending.             *)
(***************************************************************************)
EmptySlot == [fd |-> 0, hdr |-> NULL, left |-> 0, sent |-> FALSE,
              name |-> "", file |-> 0, fleft |-> 0, sending |-> FALSE]

SlotRecords == [fd : Fds \cup {0}, hdr : Requests \cup {NULL}, left : 0..HeaderLen, sent : BOOLEAN,
                name : Kinds \cup {""}, file : Fds \cup {0}, fleft : 0..FileLen,
                sending : BOOLEAN]

\* An event: data.fd, whether EPOLLIN is set, and the descriptor registered (0: listening).
Events == (Fds \cup {0}) \X {"in", "out"} \X (Fds \cup {0})

\* next: between two events; read, write, file: before the call of that name (sendfile).
Places == [op : {"next", "read", "write", "file"}, slot : Slots]

\* Mutant of Reset: file_fd keeps the number of the file it has closed.
ResetKeepsFile(x) == [x EXCEPT !.sent = FALSE, !.sending = FALSE, !.name = ""]

\* ClientConnection::reset, but for its close of file_fd (see FileOf).
Reset(x) == [x EXCEPT !.file = 0, !.sent = FALSE, !.sending = FALSE, !.name = ""]

\* Mutant of FileOf: the file is not closed.
FileLeftOpen(s) == {}

\* The descriptor reset closes.
FileOf(s) == {conns[s].file} \ {0}

\* The slot the loop's lookup of descriptor f finds.
First(s, f) == conns[s].fd = f /\ \A t \in Slots : t < s => conns[t].fd # f
\* Mutant of FirstFree: a new connection takes the first slot, free or not.
AnySlot(s) == s = 1

NoSlot(f) == \A s \in Slots : conns[s].fd # f
FirstFree(s) == First(s, 0)

Named == {"file", "empty", "dir", "missing"}

\* Mutants of Header: a response is prepared once and kept; its length counts the NUL.
HeaderKept(x, r) ==
  [x EXCEPT !.hdr = IF @ = NULL THEN r ELSE @, !.left = HeaderLen, !.sent = FALSE,
            !.name = r.kind]
HeaderWithNul(x, r) ==
  [x EXCEPT !.hdr = r, !.left = HeaderLen + 1, !.sent = FALSE, !.name = r.kind]

\* return_res, with the fields handle_request sets after it.
Header(x, r) ==
  [x EXCEPT !.hdr = r,
            !.left = IF r.kind = "none" THEN 0 ELSE HeaderLen,
            !.sent = FALSE,
            !.name = IF r.kind \in Named THEN r.kind
                     ELSE IF r.kind = "head" THEN "" ELSE @]

\* prase: there is no URL in the first line, and return_res throws.
Unparsed(r) == r.kind = "bad"

Size(name) == IF name = "empty" THEN 0 ELSE FileLen

\* handle_request on slot s: the header, then open of filename if there is one.
HandleRequest(s, r) ==
  LET x == Header(conns[s], r) IN
  \/ /\ x.name = ""
     /\ conns' = [conns EXCEPT ![s] = x]
     /\ UNCHANGED opened
  \/ /\ x.name # "" /\ (x.name = "missing" \/ FreeFds = {})
     /\ conns' = [conns EXCEPT ![s] = [x EXCEPT !.file = 0, !.sending = FALSE]]
     /\ UNCHANGED opened
  \/ /\ x.name \notin {"", "missing"}
     /\ \E f \in Fds :
          /\ Lowest(f)
          /\ conns' = [conns EXCEPT ![s] =
               [x EXCEPT !.file = f, !.fleft = Size(x.name), !.sending = TRUE]]
          /\ opened' = [opened EXCEPT ![f] = [r EXCEPT !.kind = x.name]]

At(op) == up /\ at.op = op
Go(op, s) == at' = [op |-> op, slot |-> s]
Done == Go("next", 1)
Fd == conns[at.slot].fd
Client == sock[Fd]
File == IF conns[at.slot].file = 0 THEN NULL ELSE opened[conns[at.slot].file]

Exit ==
  /\ up' = FALSE
  /\ UNCHANGED <<conns, loopVars>>

(***************************************************************************)
(* epoll_wait.                                                             *)
(***************************************************************************)
Fired == {<<epi[f].tag, "in", f>> : f \in {g \in Fds : FiresIn(g)}} \cup
         {<<epi[f].tag, "out", f>> : f \in {g \in Fds : FiresOut(g)}} \cup
         {<<0, "in", 0>> : c \in backlog}

Wait ==
  /\ At("next") /\ ready = {} /\ Fired # {}
  /\ ready' = Fired
  /\ epi' = [f \in Fds |-> Polled(f)]
  /\ UNCHANGED <<sock, opened, backlog, peer, inbox, full, asked, got,
                 conns, at, evfd, up>>

(***************************************************************************)
(* A new connection.  The listening socket is the event with data.fd 0.    *)
(***************************************************************************)
\* The table has a free slot: it is reset, and so is the file left in it, whose number
\* may by now be another descriptor, even the one accept has just returned.
Accept(e) ==
  /\ At("next") /\ e \in ready /\ e[1] = 0
  /\ \E c \in backlog, f \in Fds :
       /\ Lowest(f)
       /\ LET so == [sock EXCEPT ![f] = c]
              ep == [epi EXCEPT ![f] = Item("inout", f)]
          IN \/ \E s \in Slots :
                  /\ FirstFree(s)
                  /\ conns' = [conns EXCEPT ![s] = [Reset(@) EXCEPT !.fd = f]]
                  /\ CloseIn(FileOf(s), so, ep)
             \/ NoSlot(0) /\ CloseIn({}, so, ep) /\ UNCHANGED conns
       /\ backlog' = backlog \ {c}
       /\ evfd' = f
  /\ ready' = ready \ {e}
  /\ UNCHANGED <<peer, full, asked, got, at, up>>

\* accept fails and main returns.
AcceptFails(e) ==
  /\ At("next") /\ e \in ready /\ e[1] = 0 /\ FreeFds = {}
  /\ Exit
  /\ UNCHANGED sockVars

\* An event whose descriptor no slot has: it is closed.
Orphan(e) ==
  /\ At("next") /\ e \in ready /\ e[1] # 0 /\ NoSlot(e[1])
  /\ CloseFds({e[1]})
  /\ ready' = ready \ {e}
  /\ UNCHANGED <<backlog, peer, full, asked, got, conns, at, evfd, up>>

(***************************************************************************)
(* EPOLLIN: read until EAGAIN.                                             *)
(***************************************************************************)
BeginRead(e) ==
  /\ At("next") /\ e \in ready /\ e[1] # 0 /\ e[2] = "in"
  /\ \E s \in Slots : First(s, e[1]) /\ Go("read", s)
  /\ ready' = ready \ {e}
  /\ UNCHANGED <<sockVars, conns, evfd, up>>

\* read returns the first k segments together.  Only the first is parsed.
ReadSome ==
  /\ At("read") /\ Client # NULL
  /\ \E k \in 1..Len(inbox[Client]) :
       LET r == inbox[Client][1] IN
       /\ inbox' = [inbox EXCEPT ![Client] = SubSeq(@, k + 1, Len(@))]
       /\ \/ Unparsed(r) /\ Exit /\ UNCHANGED <<epi, opened>>
          \/ /\ ~Unparsed(r)
             /\ HandleRequest(at.slot, r)
             /\ epi' = [epi EXCEPT ![Fd] = Item("out", Fd)]
             /\ UNCHANGED <<ready, at, evfd, up>>
  /\ UNCHANGED <<sock, backlog, peer, full, asked, got>>

ReadEAGAIN ==
  /\ At("read") /\ Client # NULL /\ ~Readable(Fd)
  /\ Done
  /\ UNCHANGED <<sockVars, conns, ready, evfd, up>>

\* The end of the stream, or an error.  The slot keeps its fd.
ReadEnd ==
  /\ At("read") /\ (Client # NULL => inbox[Client] = <<>> /\ Readable(Fd))
  /\ conns' = [conns EXCEPT ![at.slot] = Reset(@)]
  /\ CloseFds({Fd} \cup FileOf(at.slot))
  /\ Done
  /\ UNCHANGED <<backlog, peer, full, asked, got, ready, evfd, up>>

(***************************************************************************)
(* EPOLLOUT without EPOLLIN: the header first, then the file.              *)
(***************************************************************************)
\* Mutant of AfterHeader: the file waits for the next event.
FileNextTime(s, sending) == Done

AfterHeader(s, sending) == Go(IF sending THEN "file" ELSE "next", s)

BeginWrite(e) ==
  /\ At("next") /\ e \in ready /\ e[1] # 0 /\ e[2] = "out"
  /\ \E s \in Slots :
       /\ First(s, e[1])
       /\ \/ ~conns[s].sent /\ Go("write", s)
          \/ conns[s].sent /\ conns[s].sending /\ Go("file", s)
          \/ conns[s].sent /\ ~conns[s].sending /\ Done
  /\ ready' = ready \ {e}
  /\ UNCHANGED <<sockVars, conns, evfd, up>>

\* The kinds whose answer is complete with its header.
Whole == {"page", "head", "empty"}

Receive(c, r) == got' = [got EXCEPT ![c] = Append(@, r)]

Write ==
  /\ At("write") /\ Client # NULL /\ conns[at.slot].left > 0
  /\ ~full[Client] /\ peer[Client] \notin {"gone", "reset"}
  /\ \E k \in 1..conns[at.slot].left :
       LET x == conns[at.slot]
           done == k = x.left
       IN /\ Buffered(Client, k, x.left, ~x.sending)
          /\ conns' = [conns EXCEPT ![at.slot] = [x EXCEPT !.left = @ - k, !.sent = done]]
          /\ \/ done /\ AfterHeader(at.slot, x.sending)
             \/ ~done /\ Done
          /\ \/ done /\ x.hdr.kind \in Whole /\ Receive(Client, x.hdr)
             \/ ~(done /\ x.hdr.kind \in Whole) /\ UNCHANGED got
  /\ UNCHANGED <<sock, opened, epi, backlog, inbox, asked, ready, evfd, up>>

\* A write of no bytes, or EAGAIN: nothing changes.
WriteNothing ==
  /\ At("write") /\ Client # NULL /\ peer[Client] \notin {"gone", "reset"}
  /\ conns[at.slot].left = 0 \/ full[Client]
  /\ Done
  /\ UNCHANGED <<sockVars, conns, ready, evfd, up>>

WriteFails ==
  /\ At("write") /\ (Client # NULL => peer[Client] = "reset")
  /\ conns' = [conns EXCEPT ![at.slot].fd = 0]
  /\ CloseFds({Fd})
  /\ Done
  /\ UNCHANGED <<backlog, peer, full, asked, got, ready, evfd, up>>

(***************************************************************************)
(* sendfile, once the header is out.                                       *)
(***************************************************************************)
\* sendfile fails before it looks at the connection: a descriptor that is not an
\* open file, or a directory.
Unsendable == File = NULL \/ File.kind = "dir"

SendFile ==
  /\ At("file") /\ Client # NULL /\ ~Unsendable /\ conns[at.slot].fleft > 0
  /\ ~full[Client] /\ peer[Client] \notin {"gone", "reset"}
  /\ \E k \in 1..conns[at.slot].fleft :
       LET x == conns[at.slot] IN
       /\ Buffered(Client, k, x.fleft, TRUE)
       /\ \/ /\ k < x.fleft
             /\ conns' = [conns EXCEPT ![at.slot].fleft = @ - k]
             /\ UNCHANGED <<sock, opened, epi, inbox, got, evfd>>
          \/ /\ k = x.fleft
             /\ conns' = [conns EXCEPT ![at.slot] = [Reset(@) EXCEPT !.fleft = 0]]
             /\ CloseIn(FileOf(at.slot), sock, [epi EXCEPT ![Fd] = Item("once", Fd)])
             /\ evfd' = Fd
             /\ IF x.hdr.kind = "file" THEN Receive(Client, x.hdr) ELSE UNCHANGED got
  /\ Done
  /\ UNCHANGED <<backlog, asked, ready, up>>

\* sendfile of no bytes returns 0.
SendNothing ==
  /\ At("file") /\ Client # NULL /\ ~Unsendable /\ conns[at.slot].fleft = 0
  /\ Done
  /\ UNCHANGED <<sockVars, conns, ready, evfd, up>>

\* EAGAIN: fd is armed again with main's ev, whose data.fd is not set here.
SendEAGAIN ==
  /\ At("file") /\ Client # NULL /\ ~Unsendable /\ conns[at.slot].fleft > 0
  /\ full[Client] /\ peer[Client] \notin {"gone", "reset"}
  /\ epi' = [epi EXCEPT ![Fd] = Item("out", evfd)]
  /\ Done
  /\ UNCHANGED <<sock, opened, backlog, peer, inbox, full, asked, got,
                 conns, ready, evfd, up>>

\* The slot keeps the number of the file it has closed.
SendFails ==
  /\ At("file")
  /\ \/ Client = NULL \/ Unsendable
     \/ peer[Client] = "reset" /\ conns[at.slot].fleft > 0
  /\ conns' = [conns EXCEPT ![at.slot].fd = 0]
  /\ CloseFds({Fd} \cup FileOf(at.slot))
  /\ Done
  /\ UNCHANGED <<backlog, peer, full, asked, got, ready, evfd, up>>

\* SIGPIPE is not handled.
BrokenPipe ==
  /\ \/ At("write")
     \/ At("file") /\ ~Unsendable /\ conns[at.slot].fleft > 0
  /\ Client # NULL /\ peer[Client] = "gone"
  /\ Exit
  /\ UNCHANGED sockVars

(***************************************************************************)
(* The specification.                                                      *)
(***************************************************************************)
Init ==
  /\ SocketsInit
  /\ conns = [s \in Slots |-> EmptySlot]
  /\ ready = {}
  /\ at = [op |-> "next", slot |-> 1]
  /\ evfd = 0
  /\ up = TRUE

Handle ==
  \E e \in ready : \/ Accept(e) \/ AcceptFails(e) \/ Orphan(e)
                   \/ BeginRead(e) \/ BeginWrite(e)

Reading == ReadSome \/ ReadEAGAIN \/ ReadEnd
Writing == Write \/ WriteNothing \/ WriteFails
Sending == SendFile \/ SendNothing \/ SendEAGAIN \/ SendFails

ServerNext == Wait \/ Handle \/ Reading \/ Writing \/ Sending \/ BrokenPipe

ClientStep == ClientNext /\ UNCHANGED <<conns, loopVars, up>>

Next == ServerNext \/ ClientStep

Spec == Init /\ [][Next]_vars

\* The loop keeps running, and a client that is owed an answer reads.
Fairness ==
  /\ WF_vars(ServerNext)
  /\ \A c \in Clients : WF_vars(Drain(c) /\ UNCHANGED <<conns, loopVars, up>>)

FairSpec == Spec /\ Fairness

(***************************************************************************)
(* Properties.                                                             *)
(***************************************************************************)
Types ==
  /\ SocketsTypeOK
  /\ conns \in [Slots -> SlotRecords]
  /\ ready \in SUBSET Events
  /\ at \in Places
  /\ evfd \in Fds \cup {0}
  /\ up \in BOOLEAN

Serving ==
  /\ at.op # "next" => Fd # 0
  /\ at.op = "file" => conns[at.slot].sending

Prepared ==
  \A s \in Slots : conns[s].hdr = NULL => conns[s].left = 0 /\ ~conns[s].sending

\* Every variable has its type, the slot being served has a descriptor, and no slot has
\* output before it has had a request.
TypeOK == Types /\ Serving /\ Prepared

\* Slot s holds output the loop has not handed to the kernel.
Unsent(s) == \/ ~conns[s].sent /\ conns[s].left > 0
             \/ conns[s].sent /\ conns[s].sending /\ conns[s].fleft > 0

\* Slot s is the one the loop serves the connection on f from.
Serves(s, f) == sock[f] # NULL /\ First(s, f)

\* Output is for the client that asked: what the slot serving a connection has still
\* to write answers a request of that connection.  Slots are reused by number, reset
\* leaves the response in them, and a closed connection's slot keeps its fd.
OwnOutput ==
  \A s \in Slots, f \in Fds :
    Serves(s, f) /\ Unsent(s) => conns[s].hdr.client = sock[f]

\* No output is stranded: the registration of a connection with unsent output reports
\* EPOLLOUT under the connection's own number, and it is armed, or the buffer is full
\* (so that its draining arms it), or the event is being handled.
NoStrandedOutput ==
  \A s \in Slots, f \in Fds :
    up /\ Serves(s, f) /\ Unsent(s) =>
      /\ epi[f].mask \in {"inout", "out"} /\ epi[f].tag = f
      /\ \/ epi[f].edge
         \/ full[sock[f]]
         \/ <<f, "out", f>> \in ready
         \/ at.op \in {"write", "file"} /\ at.slot = s

\* A slot's file_fd is an open file, that of no other slot.
FilesOwned ==
  /\ \A s \in Slots : conns[s].file # 0 => opened[conns[s].file] # NULL
  /\ \A s, t \in Slots : s # t /\ conns[s].file = conns[t].file => conns[s].file = 0

\* Every open file is in some slot, so that something will close it.
NoFileLeak ==
  \A f \in Fds : opened[f] # NULL => \E s \in Slots : conns[s].file = f

\* A client receives the answers to its own requests in order, none of them twice.
NoReplay ==
  \A c \in Clients : \A i, j \in 1..Len(got[c]) :
    i < j /\ got[c][i].client = c /\ got[c][j].client = c => got[c][i].n < got[c][j].n

\* The server hangs up only on a client that has closed or reset its end, or for want
\* of a slot: no close of a stale descriptor number ends another connection.
NoHangup ==
  [][\A c \in Clients :
       Connected(c) /\ peer[c] = "open" /\ (\A f \in Fds : sock[f] = c => ~NoSlot(f))
         => Connected(c)']_vars

\* Every request is answered in the end, on a connection its client keeps open.
EventuallyAnswered == \A c \in Clients : ~Answered(c) ~> Answered(c)

Downloads(c) == \A j \in 1..Len(got[c]) : got[c][j].kind = "file"

\* A client that has only downloaded files so far is answered in the end, if what the
\* server reads next is not a request that leaves the registration as it is ("none").
EventuallyServed ==
  \A c \in Clients :
    (/\ ~Answered(c) /\ Downloads(c)
     /\ inbox[c] # <<>> /\ inbox[c][1].kind \in Whole \cup {"file"}) ~> Answered(c)

Ex == INSTANCE Exchange WITH
        replies <- [c \in Clients |->
                      [i \in 1..Len(got[c]) |-> <<got[c][i].client, got[c][i].n>>]]

\* The loop implements the exchange: each client gets its own answers, in order.
ImplementsExchange == Ex!Spec

=============================================================================
