--------------------------- MODULE ExchangeProofs ---------------------------
(***************************************************************************)
(* What the table of slots and the descriptors are good for while no       *)
(* client resets its connection, no socket fills up unasked and no         *)
(* directory is asked for: files belong to one slot each, nobody is hung   *)
(* up on and no output waits for an event that was lost.  If the clients   *)
(* also wait for their answers, output is for the client that asked, no    *)
(* file is forgotten, and EventLoop implements Exchange.                   *)
(*                                                                         *)
(* All of it depends on what numbers mean.  An event carries the number it *)
(* is for, which is a connection's until the loop has handled it (Live); a *)
(* slot's file_fd is an open file's (Files); the loop does not meet EAGAIN *)
(* in sendfile, after which a registration carries another's number        *)
(* (Roomy).                                                                *)
(***************************************************************************)
EXTENDS OrderProofs

\* No step of Abort, no full buffer but after a short write, no sendfile that fails.
Mild == Faults \subseteq {"pipeline", "leave"} /\ "dir" \notin Kinds

NoResets == \A c \in Clients : peer[c] # "reset"

Tagged == \A f \in Fds : sock[f] # NULL => epi[f].tag = f

\* Each event in hand is for a connection, which has one event at most.
Live ==
  /\ \A e \in ready : e[1] = e[3] /\ (e[1] # 0 => sock[e[1]] # NULL)
  /\ \A f \in Fds : ~(<<f, "in", f>> \in ready /\ <<f, "out", f>> \in ready)
  /\ at.op # "next" => Client # NULL /\ \A e \in ready : e[1] # Fd

\* c's socket takes data, or a write to it ends the process.
Takes(c) == ~full[c] \/ peer[c] = "gone"

Roomy ==
  /\ \A f \in Fds : sock[f] # NULL /\ <<f, "out", f>> \in ready => Takes(sock[f])
  /\ at.op \in {"write", "file"} => Takes(Client)

\* A number is a connection's or a file's, and a file is some slot's own.
Files ==
  /\ FilesOwned
  /\ \A f \in Fds : opened[f] # NULL => sock[f] = NULL /\ opened[f].kind # "dir"
  /\ \A s \in Slots : conns[s].sending => conns[s].file # 0

Numbers == NoResets /\ Tagged /\ Live /\ Roomy /\ Files

\* The inductive invariant.
NumbersInv == OrderInv /\ Numbers

LEMMA TableTypes ==
  ASSUME TypeOK
  PROVE  /\ sock \in [Fds -> Clients \cup {NULL}] /\ opened \in [Fds -> Requests \cup {NULL}]
         /\ epi \in [Fds -> Items] /\ peer \in [Clients -> Peers]
         /\ full \in [Clients -> BOOLEAN]
         /\ conns \in [Slots -> SlotRecords] /\ ready \in SUBSET Events /\ at \in Places
BY DEF TypeOK, Types, SocketsTypeOK

(***************************************************************************)
(* Clients.                                                                *)
(***************************************************************************)
LEMMA WokenTags ==
  ASSUME TypeOK, NEW c, NEW ms, Wake(c, ms) PROVE \A f \in Fds : epi'[f].tag = epi[f].tag
<1>1. \A i \in Items : [i EXCEPT !.edge = TRUE].tag = i.tag
  BY DEF Items
<1>2. \A f \in Fds : epi[f] \in Items
  BY TableTypes
<1> QED
  BY <1>1, <1>2 DEF Wake

\* A step in which no connection is closed or given an event, and none fills up.
LEMMA NumbersQuiet ==
  ASSUME TypeOK, Numbers, UNCHANGED <<sock, opened, conns, ready>>,
         at' = at \/ at'.op = "next",
         \A f \in Fds : epi'[f].tag = epi[f].tag,
         \A c \in Clients : full'[c] => full[c],
         \A c \in Clients : peer'[c] # "reset" /\ (peer[c] = "gone" => peer'[c] = "gone")
  PROVE  Numbers'
<1>1. NoResets' /\ Tagged'
  BY DEF Numbers, NoResets, Tagged
<1>2. Live'
  BY DEF Numbers, Live, Client, Fd
<1>3. \A f \in Fds : sock[f] # NULL /\ Takes(sock[f]) => Takes(sock[f])'
  BY TableTypes DEF Takes
<1>4. at.op # "next" => Fd \in Fds /\ Client # NULL
  BY CurrentType DEF Numbers, Live
<1>5. Roomy'
  BY <1>3, <1>4 DEF Numbers, Roomy, Client, Fd
<1>6. Files'
  BY DEF Numbers, Files, FilesOwned
<1> QED
  BY <1>1, <1>2, <1>5, <1>6 DEF Numbers

LEMMA NumbersClients ==
  ASSUME Mild, TypeOK, Numbers, ClientStep PROVE Numbers'
<1>1. UNCHANGED <<conns, at, ready>>
  BY DEF ClientStep, loopVars
<1>2. PICK c \in Clients : \/ Connect(c) \/ Send(c) \/ Close(c) \/ HalfClose(c)
                           \/ Abort(c) \/ Refused(c) \/ Drain(c)
  BY DEF ClientStep, ClientNext
<1>3. ~Abort(c)
  BY DEF Mild, Abort
<1>4. UNCHANGED <<sock, opened>>
  BY <1>2, <1>3 DEF Connect, Send, Close, HalfClose, Refused, Drain, Ends
<1>5. \A f \in Fds : epi'[f].tag = epi[f].tag
  BY <1>2, <1>3, WokenTags DEF Connect, Send, Close, HalfClose, Refused, Drain, Ends
<1>6. \A d \in Clients : full'[d] => full[d]
  BY <1>2, <1>3, TableTypes DEF Connect, Send, Close, HalfClose, Refused, Drain, Ends
<1>7. \A d \in Clients : peer'[d] # "reset" /\ (peer[d] = "gone" => peer'[d] = "gone")
  <2>1. \/ UNCHANGED peer
        \/ \E p \in {"open", "closed", "half", "gone"} :
             peer[c] # "gone" /\ peer' = [peer EXCEPT ![c] = p]
    BY <1>2, <1>3 DEF Connect, Send, Close, HalfClose, Refused, Drain, Ends
  <2> QED
    BY <2>1, TableTypes DEF Numbers, NoResets
<1> QED
  BY <1>1, <1>4, <1>5, <1>6, <1>7, NumbersQuiet

(***************************************************************************)
(* Events.                                                                 *)
(***************************************************************************)
LEMMA EventOf ==
  ASSUME NEW e \in Events PROVE e = <<e[1], e[2], e[3]>> /\ e[2] \in {"in", "out"} /\ e[1] \in Fds \cup {0}
BY DEF Events

\* A connection has one event in hand at most.
LEMMA OneEvent ==
  ASSUME TypeOK, Live, NEW e \in ready, NEW d \in ready, e[1] = d[1], e[1] # 0 PROVE e = d
<1>1. e \in Events /\ d \in Events /\ e[1] = e[3] /\ d[1] = d[3]
  BY TableTypes DEF Live
<1>2. e = <<e[1], e[2], e[1]>> /\ d = <<e[1], d[2], e[1]>> /\ e[1] \in Fds
  BY <1>1, EventOf
<1>3. e[2] \in {"in", "out"} /\ d[2] \in {"in", "out"}
  BY <1>1, EventOf
<1>4. ~(<<e[1], "in", e[1]>> \in ready /\ <<e[1], "out", e[1]>> \in ready)
  BY <1>2 DEF Live
<1>5. e[2] = d[2]
  BY <1>2, <1>3, <1>4
<1> QED
  BY <1>2, <1>5

LEMMA NumbersWait ==
  ASSUME TypeOK, Numbers, Wait PROVE Numbers'
<1>1. /\ ready' = Fired /\ epi' = [f \in Fds |-> Polled(f)] /\ at.op = "next"
      /\ UNCHANGED <<sock, opened, backlog, peer, inbox, full, asked, got, conns, at>>
  BY DEF Wait, At
<1>2. NoResets' /\ Files'
  BY <1>1 DEF Numbers, NoResets, Files, FilesOwned
<1>3. \A f \in Fds : epi[f] \in Items /\ Polled(f).tag = epi[f].tag
  BY TableTypes DEF Polled, Items
<1>4. Tagged'
  BY <1>1, <1>3 DEF Numbers, Tagged
<1>5. \A f \in Fds : FiresIn(f) \/ FiresOut(f) => sock[f] # NULL /\ epi[f].tag = f
  BY DEF FiresIn, FiresOut, Readable, Writable, Numbers, Tagged
<1>6. \A f \in Fds : ~(FiresIn(f) /\ FiresOut(f))
  BY DEF FiresIn, FiresOut
<1>7. ASSUME NEW e \in Fired
      PROVE  \/ e = <<0, "in", 0>>
             \/ \E f \in Fds : \/ e = <<f, "in", f>> /\ FiresIn(f)
                               \/ e = <<f, "out", f>> /\ FiresOut(f)
  BY <1>5 DEF Fired
<1>8. 0 \notin Fds
  BY Constants
<1>9. \A f \in Fds : /\ <<f, "in", f>> \in Fired => FiresIn(f)
                     /\ <<f, "out", f>> \in Fired => FiresOut(f)
  BY <1>7, <1>8
<1>10. Live'
  <2>1. ASSUME NEW e \in Fired PROVE e[1] = e[3] /\ (e[1] # 0 => sock[e[1]] # NULL)
    BY <1>5, <1>7
  <2> QED
    BY <1>1, <1>6, <1>9, <2>1 DEF Live
<1>11. Roomy'
  <2>1. ASSUME NEW f \in Fds, FiresOut(f) PROVE Takes(sock[f])
    <3>1. sock[f] \in Clients /\ (~full[sock[f]] \/ peer[sock[f]] \in {"gone", "reset"})
      BY <2>1, TableTypes DEF FiresOut, Writable
    <3> QED
      BY <3>1 DEF Takes, Numbers, NoResets
  <2> QED
    BY <1>1, <1>9, <2>1 DEF Roomy, Takes
<1> QED
  BY <1>2, <1>4, <1>10, <1>11 DEF Numbers

LEMMA NumbersOrphan ==
  ASSUME TypeOK, Numbers, NEW e \in ready, Orphan(e) PROVE Numbers'
<1> DEFINE f == e[1]
<1>1. /\ at.op = "next" /\ f # 0 /\ CloseFds({f}) /\ ready' = ready \ {e}
      /\ UNCHANGED <<peer, full, conns, at>>
  BY DEF Orphan, At
<1>2. f \in Fds /\ sock[f] # NULL /\ opened[f] = NULL
  BY <1>1, TableTypes, EventOf DEF Numbers, Live, Files
<1>3. \A d \in ready' : d \in ready /\ d[1] # f
  BY <1>1, OneEvent DEF Numbers
<1> HIDE DEF f
<1>4. /\ opened' = opened /\ sock' = [sock EXCEPT ![f] = NULL]
      /\ \A g \in Fds \ {f} : epi'[g] = epi[g]
  BY <1>1, <1>2, TableTypes DEF CloseFds, CloseIn
<1>5. sock'[f] = NULL /\ \A g \in Fds \ {f} : sock'[g] = sock[g]
  BY <1>2, <1>4, TableTypes
<1>6. NoResets' /\ Tagged'
  BY <1>1, <1>4, <1>5 DEF Numbers, NoResets, Tagged
<1>7. Live'
  <2>1. ASSUME NEW d \in ready' PROVE d[1] = d[3] /\ (d[1] # 0 => sock'[d[1]] # NULL)
    <3>1. d \in ready /\ d \in Events /\ d[1] # f
      BY <1>3, TableTypes
    <3>2. d[1] \in Fds \cup {0} /\ d[1] = d[3] /\ (d[1] # 0 => sock[d[1]] # NULL)
      BY <3>1, EventOf DEF Numbers, Live
    <3> QED
      BY <1>5, <3>1, <3>2
  <2> QED
    BY <1>1, <1>3, <2>1 DEF Numbers, Live
<1>8. Roomy'
  BY <1>1, <1>3, <1>5 DEF Numbers, Roomy, Takes
<1>9. Files'
  BY <1>1, <1>2, <1>4, <1>5 DEF Numbers, Files, FilesOwned
<1> QED
  BY <1>6, <1>7, <1>8, <1>9 DEF Numbers

\* The loop takes up an event.
LEMMA NumbersBegin ==
  ASSUME TypeOK, Numbers, NEW e \in ready, BeginRead(e) \/ BeginWrite(e) PROVE Numbers'
<1>1. /\ e[1] # 0 /\ ready' = ready \ {e} /\ UNCHANGED <<sockVars, conns>>
  BY DEF BeginRead, BeginWrite
<1>2. /\ e[1] \in Fds /\ sock[e[1]] # NULL /\ e = <<e[1], e[2], e[1]>>
      /\ e[2] = "out" => Takes(sock[e[1]])
  BY <1>1, TableTypes, EventOf DEF Numbers, Live, Roomy
<1>3. at'.op # "next" => conns[at'.slot].fd = e[1] /\ (at'.op \in {"write", "file"} => e[2] = "out")
  BY DEF BeginRead, BeginWrite, First, Go, Done
<1>4. \A d \in ready' : d \in ready /\ d[1] # e[1]
  BY <1>1, OneEvent DEF Numbers
<1>5. NoResets' /\ Tagged' /\ Files'
  BY <1>1 DEF sockVars, Numbers, NoResets, Tagged, Files, FilesOwned
<1>6. Live'
  BY <1>1, <1>2, <1>3, <1>4 DEF sockVars, Numbers, Live, Client, Fd
<1>7. Roomy'
  BY <1>1, <1>2, <1>3 DEF sockVars, Numbers, Roomy, Takes, Client, Fd
<1> QED
  BY <1>5, <1>6, <1>7 DEF Numbers

(***************************************************************************)
(* The connection in hand.                                                 *)
(***************************************************************************)
\* The steps of the slot in hand that leave it, or go on with its connection.
LEMMA HandLive ==
  ASSUME TypeOK, Live, at.op # "next", UNCHANGED ready,
         \A f \in Fds \ {Fd} : sock'[f] = sock[f],
         at'.op # "next" => Fd' = Fd /\ sock'[Fd] = sock[Fd]
  PROVE  Live'
<1>1. \A e \in ready : e[1] \in Fds \cup {0} /\ e[1] # Fd
  BY TableTypes, EventOf DEF Live
<1>2. ASSUME NEW e \in ready PROVE e[1] = e[3] /\ (e[1] # 0 => sock'[e[1]] # NULL)
  BY <1>1 DEF Live
<1> QED
  BY <1>1, <1>2 DEF Live, Client

LEMMA HandRoomy ==
  ASSUME TypeOK, Apart, Live, Roomy, at.op # "next", UNCHANGED ready,
         \A f \in Fds \ {Fd} : sock'[f] = sock[f],
         \A c \in Clients \ {Client} : full'[c] = full[c] /\ peer'[c] = peer[c],
         at'.op \in {"next", "read"} \/ Takes(Client)'
  PROVE  Roomy'
<1>1. Client # NULL /\ Fd \in Fds /\ \A e \in ready : e[1] # Fd
  BY CurrentType DEF Live
<1>2. ASSUME NEW f \in Fds, sock'[f] # NULL, <<f, "out", f>> \in ready PROVE Takes(sock[f])'
  <2>1. f # Fd /\ sock'[f] = sock[f] /\ sock[f] # NULL
    BY <1>1, <1>2
  <2>2. sock[f] \in Clients \ {Client} /\ Takes(sock[f])
    BY <1>1, <1>2, <2>1, TableTypes DEF Apart, Roomy, Client
  <2> QED
    BY <2>1, <2>2 DEF Takes
<1> QED
  BY <1>2 DEF Roomy, Takes

\* Slots keep their files, and descriptors theirs.
LEMMA FilesKept ==
  ASSUME TypeOK, Files, UNCHANGED opened, \A f \in Fds : sock'[f] \in {NULL, sock[f]},
         \A s \in Slots : /\ conns'[s].file = conns[s].file
                          /\ conns'[s].sending => conns[s].sending
  PROVE  Files'
BY DEF Files, FilesOwned

\* Slot s is reset and its file closed.
LEMMA FilesReset ==
  ASSUME TypeOK, Files, NEW s \in Slots, NEW S, NEW so, NEW ep, CloseIn(S, so, ep),
         FileOf(s) \subseteq S, \A f \in S : opened[f] = NULL \/ f = conns[s].file,
         \A f \in Fds : so[f] = sock[f] \/ opened[f] = NULL,
         NEW y, conns' = [conns EXCEPT ![s] = y], y.file = 0, ~y.sending
  PROVE  Files'
<1>1. /\ conns \in [Slots -> SlotRecords] /\ opened \in [Fds -> Requests \cup {NULL}]
      /\ \A t \in Slots : conns[t].file \in Fds \cup {0}
  BY TableTypes DEF SlotRecords
<1>2. conns'[s] = y /\ \A t \in Slots \ {s} : conns'[t] = conns[t]
  BY <1>1
<1>3. \A f \in Fds : opened'[f] = IF f \in S THEN NULL ELSE opened[f]
  BY DEF CloseIn
<1>4. \A f \in Fds : sock'[f] = IF f \in S THEN NULL ELSE so[f]
  BY DEF CloseIn
<1>5. ASSUME NEW t \in Slots \ {s}, conns[t].file # 0 PROVE opened'[conns[t].file] # NULL
  <2>1. conns[t].file # conns[s].file /\ opened[conns[t].file] # NULL /\ conns[t].file \in Fds
    BY <1>1, <1>5 DEF Files, FilesOwned
  <2> QED
    BY <1>3, <2>1
<1>6. FilesOwned'
  <2>1. \A t \in Slots : conns'[t].file # 0 => opened'[conns'[t].file] # NULL
    BY <1>2, <1>5
  <2>2. ASSUME NEW t \in Slots, NEW u \in Slots, t # u, conns'[t].file = conns'[u].file
        PROVE  conns'[t].file = 0
    BY <1>2, <2>2 DEF Files, FilesOwned
  <2> QED
    BY <2>1, <2>2 DEF FilesOwned
<1>7. \A f \in Fds : opened'[f] # NULL => sock'[f] = NULL /\ opened'[f].kind # "dir"
  BY <1>3, <1>4 DEF Files
<1>8. \A t \in Slots : conns'[t].sending => conns'[t].file # 0
  BY <1>2 DEF Files
<1> QED
  BY <1>6, <1>7, <1>8 DEF Files

\* What the loop has in hand can be sent, so that no sendfile fails.
LEMMA NothingFails ==
  ASSUME TypeOK, Numbers PROVE ~WriteFails /\ ~SendFails /\ ~SendEAGAIN
<1>1. at.op # "next" => Client \in Clients /\ Client # NULL /\ peer[Client] # "reset"
  BY TableTypes, CurrentType DEF Numbers, Live, NoResets, Client
<1>2. at.op = "file" => ~Unsendable
  <2>1. ASSUME at.op = "file" PROVE File # NULL /\ File.kind # "dir"
    <3>1. at.slot \in Slots /\ conns[at.slot].file # 0 /\ conns[at.slot].file \in Fds \cup {0}
      BY <2>1, CurrentType DEF TypeOK, Serving, Numbers, Files, SlotRecords
    <3> QED
      BY <3>1 DEF Numbers, Files, FilesOwned, File
  <2> QED
    BY <2>1 DEF Unsendable
<1>3. at.op = "file" => Takes(Client)
  BY DEF Numbers, Roomy
<1> QED
  BY <1>1, <1>2, <1>3 DEF WriteFails, SendFails, SendEAGAIN, At, Takes

(***************************************************************************)
(* The steps of the connection in hand.                                    *)
(***************************************************************************)
\* Reads, writes and sendfiles of nothing, and steps that end the process.
LEMMA NumbersIdle ==
  ASSUME TypeOK, Numbers,
         \/ ReadEAGAIN \/ WriteNothing \/ SendNothing \/ BrokenPipe \/ UNCHANGED vars
         \/ \E e \in ready : AcceptFails(e)
  PROVE  Numbers'
<1>1. UNCHANGED <<sockVars, conns, ready>>
  BY DEF ReadEAGAIN, WriteNothing, SendNothing, BrokenPipe, AcceptFails, Exit, vars, loopVars
<1>2. at' = at \/ at'.op = "next"
  BY DEF ReadEAGAIN, WriteNothing, SendNothing, BrokenPipe, AcceptFails, Exit, vars, loopVars,
         Done, Go
<1>3. UNCHANGED <<sock, opened, epi, full, peer>>
  BY <1>1 DEF sockVars
<1>4. \A c \in Clients : peer'[c] # "reset" /\ (peer[c] = "gone" => peer'[c] = "gone")
  BY <1>3 DEF Numbers, NoResets
<1> QED
  BY <1>1, <1>2, <1>3, <1>4, NumbersQuiet

\* handle_request gives the slot a file that was free, keeps the one it has, or none.
LEMMA HandleFiles ==
  ASSUME TypeOK, TypeOK', Files, Mild, NEW s \in Slots, NEW r \in Requests, HandleRequest(s, r),
         UNCHANGED sock
  PROVE  Files'
<1> DEFINE x == Header(conns[s], r)
           y == [x EXCEPT !.file = 0, !.sending = FALSE]
           z(f) == [x EXCEPT !.file = f, !.fleft = Size(x.name), !.sending = TRUE]
<1>1. x \in SlotRecords /\ x.name \in Kinds \cup {""}
  BY HeaderType, TableTypes
<1>2. x.file = conns[s].file /\ x.sending = conns[s].sending
  BY TableTypes DEF Header, SlotRecords
<1>3. \A f : z(f).file = f
  BY <1>1 DEF SlotRecords
<1>4. y.file = 0 /\ ~y.sending
  BY <1>1 DEF SlotRecords
<1>5. \/ conns' = [conns EXCEPT ![s] = x] /\ UNCHANGED opened
      \/ conns' = [conns EXCEPT ![s] = y] /\ UNCHANGED opened
      \/ /\ x.name # "" 
         /\ \E f \in Fds : /\ Lowest(f) /\ conns' = [conns EXCEPT ![s] = z(f)]
                           /\ opened' = [opened EXCEPT ![f] = [r EXCEPT !.kind = x.name]]
  BY DEF HandleRequest
<1> HIDE DEF x, y, z
<1>6. /\ \A t \in Slots \ {s} : conns'[t] = conns[t]
      /\ \A w : conns' = [conns EXCEPT ![s] = w] => conns'[s] = w
  BY <1>5, TableTypes
<1>7. CASE conns' = [conns EXCEPT ![s] = x] /\ UNCHANGED opened
  <2>1. \A t \in Slots : conns'[t].file = conns[t].file /\ conns'[t].sending = conns[t].sending
    BY <1>2, <1>6, <1>7
  <2> QED
    BY <1>7, <2>1, FilesKept
<1>8. CASE conns' = [conns EXCEPT ![s] = y] /\ UNCHANGED opened
  <2>1. conns'[s].file = 0 /\ ~conns'[s].sending
    BY <1>4, <1>6, <1>8
  <2> QED
    BY <1>6, <1>8, <2>1 DEF Files, FilesOwned
<1>9. ASSUME x.name # "", NEW f \in Fds, Lowest(f), conns' = [conns EXCEPT ![s] = z(f)],
             opened' = [opened EXCEPT ![f] = [r EXCEPT !.kind = x.name]]
      PROVE  Files'
  <2>1. sock[f] = NULL /\ opened[f] = NULL /\ f # 0
    BY <1>9, Constants DEF Lowest, FreeFds
  <2>2. conns'[s].file = f
    BY <1>3, <1>6, <1>9
  <2>3. opened'[f] # NULL /\ opened'[f].kind # "dir"
    <3>1. [r EXCEPT !.kind = x.name] \in Requests /\ [r EXCEPT !.kind = x.name].kind # "dir"
      BY <1>1, <1>9 DEF Requests, Mild
    <3> QED
      BY <1>9, <3>1, TableTypes, Constants
  <2>4. \A g \in Fds \ {f} : opened'[g] = opened[g]
    BY <1>9, TableTypes
  <2>5. \A t \in Slots : conns[t].file # 0 => conns[t].file # f /\ conns[t].file \in Fds
    BY <2>1, TableTypes DEF Files, FilesOwned, SlotRecords
  <2>6. FilesOwned'
    <3>1. \A t \in Slots : conns'[t].file # 0 => opened'[conns'[t].file] # NULL
      BY <1>6, <2>2, <2>3, <2>4, <2>5 DEF Files, FilesOwned
    <3>2. ASSUME NEW t \in Slots, NEW u \in Slots, t # u, conns'[t].file = conns'[u].file
          PROVE  conns'[t].file = 0
      BY <1>6, <2>1, <2>2, <2>5, <3>2 DEF Files, FilesOwned
    <3> QED
      BY <3>1, <3>2 DEF FilesOwned
  <2>7. \A g \in Fds : opened'[g] # NULL => sock'[g] = NULL /\ opened'[g].kind # "dir"
    BY <2>1, <2>3, <2>4 DEF Files
  <2>8. \A t \in Slots : conns'[t].sending => conns'[t].file # 0
    BY <1>6, <2>1, <2>2 DEF Files
  <2> QED
    BY <2>6, <2>7, <2>8 DEF Files
<1> QED
  BY <1>5, <1>7, <1>8, <1>9

LEMMA NumbersRead ==
  ASSUME Mild, TypeOK, TypeOK', Apart, Queued, Numbers, ReadSome PROVE Numbers'
<1>1. /\ at.op = "read" /\ Client # NULL /\ Fd \in Fds /\ Client \in Clients /\ at.slot \in Slots
      /\ UNCHANGED <<sock, backlog, peer, full, asked, got>>
  BY CurrentType, TableTypes DEF ReadSome, At, Client
<1>2. PICK k \in 1..Len(inbox[Client]) :
        \/ Exit /\ UNCHANGED <<epi, opened>>
        \/ /\ HandleRequest(at.slot, inbox[Client][1])
           /\ epi' = [epi EXCEPT ![Fd] = Item("out", Fd)]
           /\ UNCHANGED <<ready, at>>
  BY DEF ReadSome
<1>3. \A c \in Clients : peer'[c] # "reset" /\ (peer[c] = "gone" => peer'[c] = "gone")
  BY <1>1 DEF Numbers, NoResets
<1>4. CASE Exit /\ UNCHANGED <<epi, opened>>
  BY <1>1, <1>3, <1>4, NumbersQuiet DEF Exit, loopVars
<1>5. CASE /\ HandleRequest(at.slot, inbox[Client][1])
           /\ epi' = [epi EXCEPT ![Fd] = Item("out", Fd)]
           /\ UNCHANGED <<ready, at>>
  <2>1. inbox[Client][1] \in Requests
    BY <1>1, <1>2, OrderTypes
  <2>2. Fd' = Fd
    BY <1>1, <1>5, <2>1, HandleRequestType DEF Fd
  <2>3. NoResets' /\ Files'
    BY <1>1, <1>5, <2>1, HandleFiles DEF Numbers, NoResets
  <2>4. Tagged'
    BY <1>1, <1>5, TableTypes DEF Numbers, Tagged, Item
  <2>5. Live'
    BY <1>1, <1>5, <2>2, HandLive DEF Numbers
  <2>6. Roomy'
    BY <1>1, <1>5, HandRoomy DEF Numbers
  <2> QED
    BY <2>3, <2>4, <2>5, <2>6 DEF Numbers
<1> QED
  BY <1>2, <1>4, <1>5

LEMMA NumbersReadEnd ==
  ASSUME TypeOK, TypeOK', Apart, Numbers, ReadEnd PROVE Numbers'
<1>1. /\ at.op = "read" /\ at'.op = "next" /\ Fd \in Fds /\ at.slot \in Slots
      /\ CloseIn({Fd} \cup FileOf(at.slot), sock, epi)
      /\ conns' = [conns EXCEPT ![at.slot] = Reset(conns[at.slot])]
      /\ UNCHANGED <<peer, full, ready>>
  BY CurrentType DEF ReadEnd, At, Done, Go, CloseFds
<1>2. sock[Fd] # NULL /\ opened[Fd] = NULL
  BY <1>1 DEF Numbers, Live, Files, Client
<1>3. \A f \in FileOf(at.slot) : f \in Fds /\ f = conns[at.slot].file /\ opened[f] # NULL
  BY <1>1, CurrentType DEF FileOf, Numbers, Files, FilesOwned
<1>4. \A f \in Fds \ {Fd} : sock'[f] = sock[f]
  BY <1>1, <1>3 DEF CloseIn, Numbers, Files
<1>5. \A x \in SlotRecords : Reset(x).file = 0 /\ ~Reset(x).sending
  BY DEF Reset, SlotRecords
<1>6. Files'
  <2> DEFINE y == Reset(conns[at.slot])
             S == {Fd} \cup FileOf(at.slot)
  <2>1. y.file = 0 /\ ~y.sending
    BY <1>1, <1>5, TableTypes
  <2>2. FileOf(at.slot) \subseteq S /\ \A f \in S : opened[f] = NULL \/ f = conns[at.slot].file
    BY <1>2, <1>3
  <2>3. conns' = [conns EXCEPT ![at.slot] = y] /\ CloseIn(S, sock, epi)
    BY <1>1
  <2>4. \A f \in Fds : sock[f] = sock[f] \/ opened[f] = NULL
    OBVIOUS
  <2> HIDE DEF y, S
  <2> QED
    BY <1>1, <2>1, <2>2, <2>3, <2>4, FilesReset DEF Numbers
<1>7. NoResets' /\ Tagged'
  BY <1>1 DEF Numbers, NoResets, Tagged, CloseIn
<1>8. Live' /\ Roomy'
  BY <1>1, <1>4, HandLive, HandRoomy DEF Numbers
<1> QED
  BY <1>6, <1>7, <1>8 DEF Numbers

\* A write to client c.
LEMMA BufferedOne ==
  ASSUME TypeOK, NoResets, NEW c \in Clients, full' \in {[full EXCEPT ![c] = b] : b \in BOOLEAN},
         peer' = [peer EXCEPT ![c] = IF @ = "closed" THEN "doomed" ELSE @]
  PROVE  /\ NoResets'
         /\ \A d \in Clients \ {c} : full'[d] = full[d] /\ peer'[d] = peer[d]
<1>1. full \in [Clients -> BOOLEAN] /\ peer \in [Clients -> Peers]
  BY TableTypes
<1>2. NoResets'
  BY <1>1 DEF NoResets
<1>3. \A d \in Clients \ {c} : full'[d] = full[d] /\ peer'[d] = peer[d]
  BY <1>1
<1> QED
  BY <1>2, <1>3

LEMMA NumbersWrite ==
  ASSUME Mild, TypeOK, Apart, Numbers, Write PROVE Numbers'
<1> PICK s \in Slots : s = at.slot
  BY CurrentType
<1> DEFINE x == conns[s]
           y(k) == [x EXCEPT !.left = x.left - k, !.sent = (k = x.left)]
<1>1. /\ x \in SlotRecords /\ Fd = x.fd /\ Fd \in Fds /\ at.op = "write" /\ x.left \in Nat
      /\ Client \in Clients /\ UNCHANGED <<sock, opened, epi, ready>>
  <2>1. at.op = "write" /\ Client # NULL /\ UNCHANGED <<sock, opened, epi, ready>>
    BY DEF Write, At
  <2>2. x \in SlotRecords /\ Fd = x.fd /\ Fd \in Fds
    BY <2>1, CurrentType DEF Fd
  <2>3. x.left \in 0..HeaderLen
    BY <2>2, SlotFields
  <2>4. x.left \in Nat
    BY <2>3, Constants
  <2> QED
    BY <2>1, <2>2, <2>4, TableTypes DEF Client
<1>2. PICK k \in 1..x.left :
        /\ Buffered(Client, k, x.left, ~x.sending)
        /\ conns' = [conns EXCEPT ![s] = y(k)]
        /\ \/ k = x.left /\ AfterHeader(s, x.sending)
           \/ Done
  BY DEF Write
<1>3. y(k).fd = x.fd /\ y(k).file = x.file /\ y(k).sending = x.sending
  BY <1>1 DEF SlotRecords
<1>4. at'.op = "next" \/ (at'.op = "file" /\ at'.slot = s /\ k = x.left /\ x.sending)
  BY <1>2 DEF AfterHeader, Done, Go
<1> HIDE DEF y
<1>5. conns'[s] = y(k) /\ \A t \in Slots \ {s} : conns'[t] = conns[t]
  BY <1>2, TableTypes
<1>6. /\ NoResets'
      /\ \A d \in Clients \ {Client} : full'[d] = full[d] /\ peer'[d] = peer[d]
      /\ k = x.left /\ x.sending => ~full'[Client]
  <2>1. k = x.left /\ x.sending => ~full'[Client]
    BY <1>2 DEF Buffered, Mild
  <2>2. /\ full' \in {[full EXCEPT ![Client] = b] : b \in BOOLEAN}
        /\ peer' = [peer EXCEPT ![Client] = IF @ = "closed" THEN "doomed" ELSE @]
    BY <1>2 DEF Buffered
  <2> QED
    BY <1>1, <2>1, <2>2, BufferedOne DEF Numbers
<1>7. at'.op # "next" => Fd' = Fd /\ Client' = Client
  BY <1>1, <1>3, <1>4, <1>5 DEF Fd, Client
<1>8. Tagged'
  BY <1>1 DEF Numbers, Tagged
<1>9. Live'
  BY <1>1, <1>7, HandLive DEF Numbers
<1>10. at'.op \in {"next", "read"} \/ Takes(Client)'
  BY <1>4, <1>6, <1>7 DEF Takes
<1>11. Roomy'
  BY <1>1, <1>6, <1>10, HandRoomy DEF Numbers
<1>12. Files'
  BY <1>1, <1>3, <1>5, FilesKept DEF Numbers
<1> QED
  BY <1>6, <1>8, <1>9, <1>11, <1>12 DEF Numbers

LEMMA NumbersSendFile ==
  ASSUME Mild, TypeOK, Apart, Numbers, SendFile PROVE Numbers'
<1> PICK s \in Slots : s = at.slot
  BY CurrentType
<1> DEFINE x == conns[s]
           y(k) == [x EXCEPT !.fleft = x.fleft - k]
           z == [Reset(x) EXCEPT !.fleft = 0]
           ep == [epi EXCEPT ![Fd] = Item("once", Fd)]
<1>1. /\ x \in SlotRecords /\ Fd = x.fd /\ Fd \in Fds /\ at.op = "file" /\ x.fleft \in Nat
      /\ Client \in Clients /\ Client # NULL /\ UNCHANGED ready /\ at'.op = "next"
  <2>1. at.op = "file" /\ Client # NULL /\ UNCHANGED ready /\ at'.op = "next"
    BY DEF SendFile, At, Done, Go
  <2>2. x \in SlotRecords /\ Fd = x.fd /\ Fd \in Fds
    BY <2>1, CurrentType DEF Fd
  <2>3. x.fleft \in 0..FileLen
    BY <2>2, SlotFields
  <2>4. x.fleft \in Nat
    BY <2>3, Constants
  <2> QED
    BY <2>1, <2>2, <2>4, TableTypes DEF Client
<1>2. PICK k \in 1..x.fleft :
        /\ Buffered(Client, k, x.fleft, TRUE)
        /\ \/ conns' = [conns EXCEPT ![s] = y(k)] /\ UNCHANGED <<sock, opened, epi>>
           \/ conns' = [conns EXCEPT ![s] = z] /\ CloseIn(FileOf(s), sock, ep)
  BY DEF SendFile
<1>3. /\ y(k).file = x.file /\ y(k).sending = x.sending
      /\ z.file = 0 /\ ~z.sending
  BY <1>1 DEF SlotRecords, Reset
<1>4. \A f \in FileOf(s) : f \in Fds /\ f = x.file /\ sock[f] = NULL
  BY <1>1, CurrentType DEF FileOf, Numbers, Files, FilesOwned
<1>5. ep[Fd].tag = Fd /\ \A f \in Fds \ {Fd} : ep[f] = epi[f]
  BY <1>1, TableTypes DEF Item
<1> HIDE DEF y, z, ep
<1>6. /\ NoResets'
      /\ \A d \in Clients \ {Client} : full'[d] = full[d] /\ peer'[d] = peer[d]
  <2>1. /\ full' \in {[full EXCEPT ![Client] = b] : b \in BOOLEAN}
        /\ peer' = [peer EXCEPT ![Client] = IF @ = "closed" THEN "doomed" ELSE @]
    BY <1>2 DEF Buffered
  <2> QED
    BY <1>1, <2>1, BufferedOne DEF Numbers
<1>7. /\ \A f \in Fds : sock'[f] = sock[f]
      /\ \A f \in Fds : sock[f] # NULL => epi'[f] \in {epi[f], ep[f]}
  BY <1>2, <1>4 DEF CloseIn
<1>8. Tagged'
  BY <1>5, <1>7 DEF Numbers, Tagged
<1>9. Live'
  BY <1>1, <1>7, HandLive DEF Numbers
<1>10. Roomy'
  BY <1>1, <1>6, <1>7, HandRoomy DEF Numbers
<1>11. ASSUME conns' = [conns EXCEPT ![s] = y(k)], UNCHANGED opened PROVE Files'
  <2>1. conns'[s] = y(k) /\ \A t \in Slots \ {s} : conns'[t] = conns[t]
    BY <1>11, TableTypes
  <2>2. \A t \in Slots : /\ conns'[t].file = conns[t].file
                         /\ conns'[t].sending => conns[t].sending
    BY <1>3, <2>1
  <2>3. \A f \in Fds : sock'[f] \in {NULL, sock[f]}
    BY <1>7
  <2> QED
    BY <1>11, <2>2, <2>3, FilesKept DEF Numbers
<1>12. ASSUME conns' = [conns EXCEPT ![s] = z], CloseIn(FileOf(s), sock, ep) PROVE Files'
  <2>1. \A f \in FileOf(s) : opened[f] = NULL \/ f = conns[s].file
    BY <1>4
  <2>2. \A f \in Fds : sock[f] = sock[f] \/ opened[f] = NULL
    OBVIOUS
  <2> QED
    BY <1>3, <1>12, <2>1, <2>2, FilesReset DEF Numbers
<1> QED
  BY <1>2, <1>6, <1>8, <1>9, <1>10, <1>11, <1>12 DEF Numbers

\* A connection gets the lowest number that is free, and a slot with no descriptor.
LEMMA NumbersAccept ==
  ASSUME TypeOK, Apart, Numbers, NEW e \in ready, Accept(e) PROVE Numbers'
<1>1. /\ at.op = "next" /\ e[1] = 0 /\ ready' = ready \ {e} /\ UNCHANGED <<peer, full, at>>
  BY DEF Accept, At
<1>2. PICK c \in backlog, f \in Fds, s \in Slots, S \in SUBSET Fds :
        /\ sock[f] = NULL /\ opened[f] = NULL
        /\ CloseIn(S, [sock EXCEPT ![f] = c], [epi EXCEPT ![f] = Item("inout", f)])
        /\ \/ /\ S = FileOf(s)
              /\ conns' = [conns EXCEPT ![s] = [Reset(conns[s]) EXCEPT !.fd = f]]
           \/ S = {} /\ UNCHANGED conns
  <2>1. \A t \in Slots : FileOf(t) \subseteq Fds
    BY TableTypes DEF FileOf, SlotRecords
  <2> QED
    BY <2>1, Constants DEF Accept, Lowest, FreeFds
<1> DEFINE so == [sock EXCEPT ![f] = c]
           ep == [epi EXCEPT ![f] = Item("inout", f)]
           y == [Reset(conns[s]) EXCEPT !.fd = f]
<1>3. /\ so[f] = c /\ ep[f].tag = f
      /\ \A g \in Fds \ {f} : so[g] = sock[g] /\ ep[g] = epi[g]
  BY TableTypes DEF Item
<1>4. y.file = 0 /\ ~y.sending
  <2>1. \A x \in SlotRecords : /\ Reset(x) \in SlotRecords /\ Reset(x).file = 0
                               /\ ~Reset(x).sending
    BY ResetType DEF Reset, SlotRecords
  <2>2. \A x \in SlotRecords : LET w == [x EXCEPT !.fd = f]
                               IN  w.file = x.file /\ w.sending = x.sending
    BY DEF SlotRecords
  <2> QED
    BY <2>1, <2>2, TableTypes
<1> HIDE DEF so, ep, y
<1>5. CloseIn(S, so, ep)
  BY <1>2 DEF so, ep
<1>6. (S = FileOf(s) /\ conns' = [conns EXCEPT ![s] = y]) \/ (S = {} /\ UNCHANGED conns)
  BY <1>2 DEF y
<1>7. f \notin S /\ \A g \in S : g = conns[s].file /\ opened[g] # NULL /\ sock[g] = NULL
  BY <1>2 DEF FileOf, Numbers, Files, FilesOwned
<1>8. \A g \in Fds : g # f => sock'[g] = sock[g] /\ (sock[g] # NULL => epi'[g] = epi[g])
  BY <1>3, <1>5, <1>7 DEF CloseIn
<1>9. sock'[f] = c /\ epi'[f].tag = f
  BY <1>3, <1>5, <1>7 DEF CloseIn
<1>10. NoResets' /\ Tagged'
  BY <1>1, <1>8, <1>9 DEF Numbers, NoResets, Tagged
<1>11. \A d \in ready : d[1] \in Fds \cup {0} /\ d[1] # f /\ d[1] = d[3]
  BY <1>2, TableTypes, EventOf, Constants DEF Numbers, Live
<1>12. Live'
  BY <1>1, <1>8, <1>11 DEF Numbers, Live
<1>13. Roomy'
  BY <1>1, <1>8, <1>11 DEF Numbers, Roomy, Takes
<1>14. Files'
  <2>1. CASE S = FileOf(s) /\ conns' = [conns EXCEPT ![s] = y]
    <3>1. \A g \in S : opened[g] = NULL \/ g = conns[s].file
      BY <1>7
    <3>2. \A g \in Fds : so[g] = sock[g] \/ opened[g] = NULL
      BY <1>2, <1>3
    <3> QED
      BY <1>4, <1>5, <2>1, <3>1, <3>2, FilesReset DEF Numbers
  <2>2. CASE S = {} /\ UNCHANGED conns
    <3>1. \A g \in Fds : opened'[g] = opened[g]
      BY <1>5, <2>2 DEF CloseIn
    <3>2. conns \in [Slots -> SlotRecords] /\ \A t \in Slots : conns[t].file \in Fds \cup {0}
      BY TableTypes DEF SlotRecords
    <3> QED
      BY <1>2, <1>8, <2>2, <3>1, <3>2 DEF Numbers, Files, FilesOwned
  <2> QED
    BY <1>6, <2>1, <2>2
<1> QED
  BY <1>10, <1>12, <1>13, <1>14 DEF Numbers

LEMMA NumbersInit == Init => Numbers
<1> SUFFICES ASSUME Init PROVE Numbers
  OBVIOUS
<1>1. /\ \A c \in Clients : peer[c] = "idle"
      /\ \A f \in Fds : sock[f] = NULL /\ opened[f] = NULL
      /\ \A s \in Slots : conns[s].file = 0 /\ ~conns[s].sending
      /\ ready = {} /\ at.op = "next"
  BY DEF Init, SocketsInit, EmptySlot
<1> QED
  BY <1>1 DEF Numbers, NoResets, Tagged, Live, Roomy, Files, FilesOwned

LEMMA NumbersStep == Mild /\ NumbersInv /\ [Next]_vars => NumbersInv'
<1> SUFFICES ASSUME Mild, NumbersInv, [Next]_vars PROVE NumbersInv'
  OBVIOUS
<1>1. OrderInv' /\ TypeOK /\ TypeOK' /\ Apart /\ Queued /\ Numbers
  BY OrderStep DEF NumbersInv, OrderInv, Ordered
<1>2. Numbers'
  BY <1>1, NothingFails, NumbersClients, NumbersWait, NumbersOrphan, NumbersBegin, NumbersIdle,
     NumbersRead, NumbersReadEnd, NumbersWrite, NumbersSendFile, NumbersAccept
     DEF Next, ServerNext, Handle, Reading, Writing, Sending
<1> QED
  BY <1>1, <1>2 DEF NumbersInv

\* A file belongs to one slot, and a slot's file_fd is an open file, as long as no client
\* resets its connection, no socket fills up unasked and no directory is asked for.
THEOREM FilesCorrect == Mild /\ Spec => []FilesOwned
<1>1. NumbersInv => FilesOwned
  BY DEF NumbersInv, Numbers, Files
<1>2. Init => NumbersInv
  BY OrderInit, NumbersInit DEF NumbersInv
<1>3. CASE Mild
  <2>1. NumbersInv /\ [Next]_vars => NumbersInv'
    BY <1>3, NumbersStep
  <2> QED
    BY <1>1, <1>2, <2>1, PTL DEF Spec
<1> QED
  BY <1>3

(***************************************************************************)
(* Who is hung up on.                                                      *)
(***************************************************************************)
\* Closing the file of a slot closes no connection.
LEMMA FileIsNoSocket ==
  ASSUME TypeOK, Files, NEW s \in Slots
  PROVE  \A f \in FileOf(s) : sock[f] = NULL /\ opened[f] # NULL /\ f \in Fds
<1>1. conns[s] \in SlotRecords
  BY TableTypes
<1>2. conns[s].file \in Fds \cup {0}
  BY <1>1, SlotFields
<1> QED
  BY <1>2 DEF FileOf, Files, FilesOwned

LEMMA NoHangupAccept ==
  ASSUME TypeOK, Files, NEW e \in ready, Accept(e), NEW c \in Clients, Connected(c)
  PROVE  Connected(c)'
<1>1. PICK d \in backlog, f \in Fds, S \in SUBSET Fds :
        /\ sock[f] = NULL /\ opened[f] = NULL /\ backlog' = backlog \ {d}
        /\ CloseIn(S, [sock EXCEPT ![f] = d], [epi EXCEPT ![f] = Item("inout", f)])
        /\ \A g \in S : sock[g] = NULL /\ g # f
  <2>1. PICK d \in backlog, f \in Fds :
          /\ sock[f] = NULL /\ opened[f] = NULL /\ backlog' = backlog \ {d}
          /\ \E S \in {FileOf(s) : s \in Slots} \cup {{}} :
               CloseIn(S, [sock EXCEPT ![f] = d], [epi EXCEPT ![f] = Item("inout", f)])
    BY DEF Accept, Lowest, FreeFds
  <2>2. \A S \in {FileOf(s) : s \in Slots} \cup {{}} :
          S \in SUBSET Fds /\ \A g \in S : sock[g] = NULL /\ opened[g] # NULL
    BY FileIsNoSocket
  <2> QED
    BY <2>1, <2>2
<1>2. sock'[f] = d /\ \A g \in Fds \ {f} : sock[g] # NULL => sock'[g] = sock[g]
  BY <1>1, TableTypes DEF CloseIn
<1> QED
  BY <1>1, <1>2, Constants DEF Connected

LEMMA NoHangupStep ==
  ASSUME Mild, NumbersInv, [Next]_vars, NEW c \in Clients, Connected(c), peer[c] = "open",
         \A f \in Fds : sock[f] = c => ~NoSlot(f)
  PROVE  Connected(c)'
<1>1. TypeOK /\ Numbers /\ Files
  BY DEF NumbersInv, OrderInv, Numbers
<1>2. CASE UNCHANGED <<sock, backlog>>
  BY <1>2 DEF Connected
<1>3. CASE ClientStep
  <2>1. UNCHANGED sock /\ backlog \subseteq backlog'
    BY <1>3 DEF ClientStep, ClientNext, Connect, Send, Close, HalfClose, Abort, Refused, Drain,
                Ends
  <2> QED
    BY <2>1 DEF Connected
<1>4. ASSUME NEW e \in ready, Orphan(e) PROVE Connected(c)'
  <2>1. NoSlot(e[1]) /\ CloseIn({e[1]}, sock, epi) /\ UNCHANGED backlog
    BY <1>4 DEF Orphan, CloseFds
  <2> QED
    BY <2>1 DEF Connected, CloseIn
<1>5. CASE ReadEnd
  <2>1. /\ Client # NULL /\ Readable(Fd) /\ inbox[Client] = <<>> /\ UNCHANGED backlog
        /\ CloseIn({Fd} \cup FileOf(at.slot), sock, epi)
    BY <1>1, <1>5 DEF ReadEnd, At, CloseFds, Numbers, Live
  <2>2. sock[Fd] # c
    BY <2>1 DEF Readable, Client
  <2>3. \A f \in FileOf(at.slot) : sock[f] = NULL
    BY <1>1, CurrentType, FileIsNoSocket
  <2> QED
    BY <2>1, <2>2, <2>3, Constants DEF Connected, CloseIn
<1>6. CASE SendFile
  <2>1. \A f \in FileOf(at.slot) : sock[f] = NULL
    BY <1>1, CurrentType, FileIsNoSocket
  <2>2. UNCHANGED backlog /\ \A f \in Fds : sock[f] # NULL => sock'[f] = sock[f]
    BY <1>6, <2>1 DEF SendFile, CloseIn
  <2> QED
    BY <2>2, Constants DEF Connected
<1>7. ASSUME NEW e \in ready, Accept(e) PROVE Connected(c)'
  BY <1>1, <1>7, NoHangupAccept
<1>8. \/ UNCHANGED <<sock, backlog>> \/ ClientStep \/ ReadEnd \/ SendFile
      \/ \E e \in ready : Orphan(e) \/ Accept(e)
  <2>1. \/ Wait \/ Handle \/ Reading \/ Write \/ WriteNothing \/ SendFile \/ SendNothing
        \/ BrokenPipe \/ ClientStep \/ UNCHANGED vars
    BY <1>1, NothingFails DEF Next, ServerNext, Writing, Sending
  <2> QED
    BY <2>1 DEF Wait, Handle, AcceptFails, BeginRead, BeginWrite, Reading, ReadSome, ReadEAGAIN,
                Write, WriteNothing, SendNothing, BrokenPipe, vars, sockVars
<1> QED
  BY <1>2, <1>3, <1>4, <1>5, <1>6, <1>7, <1>8

\* The server hangs up only on a client that has closed its end, or for want of a slot:
\* with the same assumptions no number is closed that has become another connection's.
THEOREM HangupCorrect == Mild /\ Spec => NoHangup
<1>1. CASE Mild
  <2>1. NumbersInv /\ [Next]_vars => NumbersInv'
    BY <1>1, NumbersStep
  <2>2. Init => NumbersInv
    BY OrderInit, NumbersInit DEF NumbersInv
  <2>3. NumbersInv /\ [Next]_vars =>
          [\A c \in Clients :
             Connected(c) /\ peer[c] = "open" /\ (\A f \in Fds : sock[f] = c => ~NoSlot(f))
               => Connected(c)']_vars
    BY <1>1, NoHangupStep
  <2> QED
    BY <2>1, <2>2, <2>3, PTL DEF Spec, NoHangup
<1> QED
  BY <1>1

(***************************************************************************)
(* Output that is left.                                                    *)
(***************************************************************************)
\* Something will have the loop write to the connection on f, which slot s serves.
Awaited(s, f) ==
  /\ epi[f].mask \in {"inout", "out"} /\ epi[f].tag = f
  /\ \/ epi[f].edge
     \/ full[sock[f]]
     \/ <<f, "out", f>> \in ready
     \/ at.op \in {"write", "file"} /\ at.slot = s

\* A level-triggered registration stays on epoll's list.
Level == \A f \in Fds : sock[f] # NULL /\ epi[f].mask = "inout" => epi[f].edge

Fresh == at.op = "write" => ~conns[at.slot].sent

\* The inductive invariant.
AwaitedInv == NumbersInv /\ NoStrandedOutput /\ Level /\ Fresh

LEMMA LevelStep ==
  ASSUME Mild, NumbersInv, Level, Next PROVE Level'
<1>1. TypeOK /\ Numbers /\ Files /\ at.slot \in Slots
  BY CurrentType DEF NumbersInv, OrderInv, Numbers
<1>2. ASSUME UNCHANGED <<sock, epi>> PROVE Level'
  BY <1>2 DEF Level
<1>3. CASE ClientStep
  <2>1. \A f \in Fds : /\ sock'[f] = sock[f] /\ epi'[f].mask = epi[f].mask
                       /\ epi[f].edge => epi'[f].edge
    <3>1. \A i \in Items : [i EXCEPT !.edge = TRUE].mask = i.mask /\ [i EXCEPT !.edge = TRUE].edge
      BY DEF Items
    <3>2. epi \in [Fds -> Items]
      BY <1>1, TableTypes
    <3>3. UNCHANGED sock /\ (UNCHANGED epi \/ \E c, ms : Wake(c, ms))
      BY <1>3 DEF ClientStep, ClientNext, Connect, Send, Close, HalfClose, Abort, Refused,
                  Drain, Ends
    <3> QED
      BY <3>1, <3>2, <3>3 DEF Wake
  <2> QED
    BY <2>1 DEF Level
<1>4. CASE Wait
  <2>1. \A f \in Fds : epi'[f].mask = "inout" => epi[f].mask = "inout" /\ epi'[f].edge = epi[f].edge
    <3>1. \A f \in Fds : epi[f] \in Items /\ epi'[f] = Polled(f)
      BY <1>1, <1>4, TableTypes DEF Wait
    <3> QED
      BY <3>1 DEF Polled, Items
  <2> QED
    BY <1>4, <2>1 DEF Level, Wait
<1>5. ASSUME NEW S, NEW so, NEW ep, CloseIn(S, so, ep),
             \A f \in Fds : so[f] # NULL /\ ep[f].mask = "inout" => ep[f].edge
      PROVE  Level'
  BY <1>5 DEF Level, CloseIn
<1>6. ASSUME NEW S, CloseFds(S) PROVE Level'
  BY <1>5, <1>6 DEF CloseFds, Level
<1>7. ASSUME NEW e \in ready, Accept(e) PROVE Level'
  <2>1. PICK c \in backlog, f \in Fds :
          \E S : CloseIn(S, [sock EXCEPT ![f] = c], [epi EXCEPT ![f] = Item("inout", f)])
    BY <1>7 DEF Accept
  <2> DEFINE so == [sock EXCEPT ![f] = c]
             ep == [epi EXCEPT ![f] = Item("inout", f)]
  <2>2. ep[f].edge /\ \A g \in Fds \ {f} : ep[g] = epi[g] /\ so[g] = sock[g]
    BY <1>1, TableTypes DEF Item
  <2>3. \E S : CloseIn(S, so, ep)
    BY <2>1
  <2> HIDE DEF so, ep
  <2>4. \A g \in Fds : so[g] # NULL /\ ep[g].mask = "inout" => ep[g].edge
    BY <2>2 DEF Level
  <2> QED
    BY <1>5, <2>3, <2>4
<1>8. CASE ReadSome
  BY <1>1, <1>8, TableTypes, CurrentType DEF ReadSome, Level, Item
<1>9. CASE SendFile
  <2> DEFINE ep == [epi EXCEPT ![Fd] = Item("once", Fd)]
  <2>1. UNCHANGED <<sock, epi>> \/ CloseIn(FileOf(at.slot), sock, ep)
    BY <1>9 DEF SendFile
  <2>2. \A f \in Fds : ep[f] = epi[f] \/ ep[f].mask = "once"
    BY <1>1, TableTypes DEF Item
  <2> HIDE DEF ep
  <2>3. \A f \in Fds : sock[f] # NULL /\ ep[f].mask = "inout" => ep[f].edge
    BY <2>2 DEF Level
  <2> QED
    BY <1>2, <1>5, <2>1, <2>3
<1> QED
  BY <1>1, <1>2, <1>3, <1>4, <1>6, <1>7, <1>8, <1>9, NothingFails
     DEF Next, ServerNext, Handle, AcceptFails, Orphan, BeginRead, BeginWrite, Reading, ReadEAGAIN,
         ReadEnd, Writing, Write, WriteNothing, Sending, SendNothing, BrokenPipe, sockVars

\* The wait for slot s goes on.
LEMMA AwaitedSame ==
  ASSUME NEW s, NEW f, Awaited(s, f), sock'[f] = sock[f],
         epi'[f].mask = epi[f].mask, epi'[f].tag = epi[f].tag, epi[f].edge => epi'[f].edge,
         full[sock[f]] => full'[sock[f]] \/ epi'[f].edge,
         <<f, "out", f>> \in ready => <<f, "out", f>> \in ready',
         at.op \in {"write", "file"} /\ at.slot = s => at' = at
  PROVE  Awaited(s, f)'
BY DEF Awaited

LEMMA AwaitedBefore ==
  ASSUME NoStrandedOutput, up, NEW s \in Slots, NEW f \in Fds, sock[f] # NULL, First(s, f), Unsent(s)
  PROVE  Awaited(s, f)
BY DEF NoStrandedOutput, Serves, Awaited

LEMMA AwaitedClients ==
  ASSUME TypeOK, NoStrandedOutput, ClientStep, up, NEW s \in Slots, NEW f \in Fds,
         Serves(s, f)', Unsent(s)'
  PROVE  Awaited(s, f)'
<1>1. UNCHANGED <<conns, ready, at, sock>>
  BY DEF ClientStep, ClientNext, Connect, Send, Close, HalfClose, Abort, Refused, Drain, Ends,
         loopVars
<1>2. Awaited(s, f)
  BY <1>1, AwaitedBefore DEF Serves, First, Unsent
<1>3. \A c, ms : Wake(c, ms) => /\ epi'[f].mask = epi[f].mask /\ epi'[f].tag = epi[f].tag
                                /\ epi[f].edge => epi'[f].edge
  <2>1. \A i \in Items : LET j == [i EXCEPT !.edge = TRUE]
                         IN  j.mask = i.mask /\ j.tag = i.tag /\ j.edge
    BY DEF Items
  <2> QED
    BY <2>1, TableTypes DEF Wake
<1>4. UNCHANGED epi \/ \E c, ms : Wake(c, ms)
  BY DEF ClientStep, ClientNext, Connect, Send, Close, HalfClose, Abort, Refused, Drain, Ends
<1>5. full[sock[f]] => full'[sock[f]] \/ epi'[f].edge
  <2>1. CASE UNCHANGED full
    BY <2>1
  <2>2. ASSUME NEW c \in Clients, full' = [full EXCEPT ![c] = FALSE], Wake(c, {"inout", "out"})
        PROVE  full[sock[f]] => full'[sock[f]] \/ epi'[f].edge
    <3>1. CASE sock[f] = c
      <4>1. \A i \in Items : [i EXCEPT !.edge = TRUE].edge
        BY DEF Items
      <4> QED
        BY <1>2, <2>2, <3>1, <4>1, TableTypes DEF Wake, Awaited
    <3>2. CASE sock[f] # c
      BY <2>2, <3>2, TableTypes
    <3> QED
      BY <3>1, <3>2
  <2> QED
    BY <2>1, <2>2 DEF ClientStep, ClientNext, Connect, Send, Close, HalfClose, Abort, Refused,
                      Drain, Ends
<1> QED
  BY <1>1, <1>2, <1>3, <1>4, <1>5, AwaitedSame

\* epoll_wait takes a registration off its list only to report it.
LEMMA AwaitedWait ==
  ASSUME TypeOK, Numbers, NoStrandedOutput, Wait, NEW s \in Slots, NEW f \in Fds,
         Serves(s, f)', Unsent(s)'
  PROVE  Awaited(s, f)'
<1>1. /\ up /\ at.op = "next" /\ ready = {} /\ ready' = Fired /\ epi'[f] = Polled(f)
      /\ UNCHANGED <<conns, sock, full, at>>
  BY DEF Wait, At
<1>2. Awaited(s, f) /\ sock[f] # NULL
  BY <1>1, AwaitedBefore DEF Serves, First, Unsent
<1>3. /\ epi[f] \in Items /\ Polled(f).mask = epi[f].mask /\ Polled(f).tag = epi[f].tag
      /\ Polled(f).edge = (epi[f].edge /\ epi[f].mask = "inout")
  BY <1>2, TableTypes DEF Polled, Items, Awaited
<1>4. CASE epi[f].mask = "inout" \/ full[sock[f]]
  BY <1>1, <1>2, <1>3, <1>4 DEF Awaited
<1>5. CASE epi[f].mask = "out" /\ ~full[sock[f]]
  <2>1. epi[f].edge
    BY <1>1, <1>2, <1>5 DEF Awaited
  <2>2. FiresOut(f)
    BY <1>2, <1>5, <2>1 DEF FiresOut, Writable
  <2>3. <<f, "out", f>> \in Fired
    BY <1>2, <2>2 DEF Fired, Awaited
  <2> QED
    BY <1>1, <1>2, <1>3, <2>3 DEF Awaited
<1> QED
  BY <1>2, <1>4, <1>5 DEF Awaited

LEMMA AwaitedOrphan ==
  ASSUME TypeOK, NoStrandedOutput, NEW e \in ready, Orphan(e), NEW s \in Slots, NEW f \in Fds,
         Serves(s, f)', Unsent(s)'
  PROVE  Awaited(s, f)'
<1>1. /\ up /\ NoSlot(e[1]) /\ CloseIn({e[1]}, sock, epi) /\ ready' = ready \ {e}
      /\ UNCHANGED <<conns, full, at>>
  BY DEF Orphan, At, CloseFds
<1>2. First(s, f) /\ Unsent(s) /\ f # e[1]
  BY <1>1 DEF Serves, First, Unsent, NoSlot
<1>3. sock'[f] = sock[f] /\ epi'[f] = epi[f] /\ sock[f] # NULL
  BY <1>1, <1>2 DEF CloseIn, Serves
<1>4. Awaited(s, f)
  BY <1>1, <1>2, <1>3, AwaitedBefore
<1>5. e # <<f, "out", f>>
  BY <1>2
<1> QED
  BY <1>1, <1>3, <1>4, <1>5, AwaitedSame

\* What the loop takes up, it has in hand.
LEMMA AwaitedBegin ==
  ASSUME TypeOK, Numbers, NoStrandedOutput, NEW e \in ready, BeginRead(e) \/ BeginWrite(e),
         NEW s \in Slots, NEW f \in Fds, Serves(s, f)', Unsent(s)'
  PROVE  Awaited(s, f)'
<1>1. /\ up /\ at.op = "next" /\ ready' = ready \ {e} /\ UNCHANGED <<sock, epi, full, conns>>
  BY DEF BeginRead, BeginWrite, At, sockVars
<1>2. First(s, f) /\ Unsent(s) /\ sock[f] # NULL
  BY <1>1 DEF Serves, First, Unsent
<1>3. Awaited(s, f)
  BY <1>1, <1>2, AwaitedBefore
<1>4. CASE e # <<f, "out", f>>
  BY <1>1, <1>3, <1>4, AwaitedSame
<1>5. CASE e = <<f, "out", f>>
  <2>1. PICK t \in Slots :
          /\ First(t, f)
          /\ \/ ~conns[t].sent /\ Go("write", t)
             \/ conns[t].sent /\ conns[t].sending /\ Go("file", t)
             \/ conns[t].sent /\ ~conns[t].sending /\ Done
    BY <1>5 DEF BeginRead, BeginWrite
  <2>2. t = s
    BY <1>2, <2>1, FirstUnique
  <2>3. at'.op \in {"write", "file"} /\ at'.slot = s
    BY <1>2, <2>1, <2>2 DEF Unsent, Go
  <2> QED
    BY <1>1, <1>3, <2>3 DEF Awaited
<1> QED
  BY <1>4, <1>5

\* A new connection is registered for both, level-triggered.
LEMMA AwaitedAccept ==
  ASSUME TypeOK, Numbers, NoStrandedOutput, NEW e \in ready, Accept(e),
         NEW s \in Slots, NEW f \in Fds, Serves(s, f)', Unsent(s)'
  PROVE  Awaited(s, f)'
<1>1. /\ up /\ at.op = "next" /\ e[1] = 0 /\ ready' = ready \ {e} /\ UNCHANGED <<full, at>>
  BY DEF Accept, At
<1>2. PICK c \in backlog, g \in Fds, t \in Slots, S \in SUBSET Fds :
        /\ sock[g] = NULL /\ opened[g] = NULL
        /\ CloseIn(S, [sock EXCEPT ![g] = c], [epi EXCEPT ![g] = Item("inout", g)])
        /\ \/ /\ S = FileOf(t) /\ conns[t].fd = 0
              /\ conns' = [conns EXCEPT ![t] = [Reset(conns[t]) EXCEPT !.fd = g]]
           \/ S = {} /\ UNCHANGED conns
  <2>1. \A t \in Slots : FileOf(t) \subseteq Fds
    BY FileIsNoSocket DEF Numbers
  <2> QED
    BY <2>1, Constants DEF Accept, Lowest, FreeFds, FirstFree, First
<1>3. \A h \in S : sock[h] = NULL /\ opened[h] # NULL
  BY <1>2, FileIsNoSocket DEF Numbers
<1>4. CASE f = g
  <2>1. [epi EXCEPT ![g] = Item("inout", g)][g] = Item("inout", g)
    BY TableTypes
  <2>2. epi'[g] = Item("inout", g)
    BY <1>2, <1>3, <2>1 DEF CloseIn
  <2> QED
    BY <1>4, <2>2 DEF Awaited, Item
<1>5. CASE f # g
  <2>1. [sock EXCEPT ![g] = c][f] = sock[f] /\ [epi EXCEPT ![g] = Item("inout", g)][f] = epi[f]
    BY <1>5, TableTypes
  <2>2. sock'[f] = sock[f] /\ epi'[f] = epi[f] /\ sock[f] # NULL
    BY <1>2, <2>1 DEF CloseIn, Serves
  <2>3. First(s, f) /\ conns'[s] = conns[s]
    <3> DEFINE y == [Reset(conns[t]) EXCEPT !.fd = g]
    <3>1. y.fd = g
      <4>1. \A x \in SlotRecords : [x EXCEPT !.fd = g].fd = g
        BY DEF SlotRecords
      <4> QED
        BY <4>1, ResetType, TableTypes
    <3> HIDE DEF y
    <3>2. CASE UNCHANGED conns
      BY <3>2 DEF Serves, First
    <3>3. CASE conns[t].fd = 0 /\ conns' = [conns EXCEPT ![t] = y]
      <4>1. conns'[t] = y /\ \A u \in Slots \ {t} : conns'[u] = conns[u]
        BY <3>3, TableTypes
      <4>2. s # t /\ \A u \in Slots : conns'[u].fd = f <=> conns[u].fd = f
        BY <1>5, <3>1, <3>3, <4>1, Constants DEF Serves, First
      <4> QED
        BY <4>1, <4>2 DEF Serves, First
    <3> QED
      BY <1>2, <3>2, <3>3 DEF y
  <2>4. Awaited(s, f)
    BY <1>1, <2>2, <2>3, AwaitedBefore DEF Unsent
  <2>5. e # <<f, "out", f>>
    BY <1>1, Constants
  <2> QED
    BY <1>1, <2>2, <2>4, <2>5, AwaitedSame
<1> QED
  BY <1>4, <1>5

\* The steps of the slot in hand are nothing to another connection's output.
LEMMA AwaitedOther ==
  ASSUME TypeOK, Apart, NoStrandedOutput, up, at.op # "next", UNCHANGED ready,
         NEW y, conns' = [conns EXCEPT ![at.slot] = y], y.fd = Fd,
         \A c \in Clients \ {Client} : full'[c] = full[c],
         NEW s \in Slots, NEW f \in Fds \ {Fd}, sock[f] # NULL, sock'[f] = sock[f],
         epi'[f] = epi[f], First(s, f)', Unsent(s)'
  PROVE  Awaited(s, f)'
<1>1. at.slot \in Slots /\ Fd \in Fds /\ Fd = conns[at.slot].fd
  BY CurrentType DEF Fd
<1>2. conns'[at.slot] = y /\ \A t \in Slots \ {at.slot} : conns'[t] = conns[t]
  BY <1>1, TableTypes
<1>3. \A t \in Slots : conns'[t].fd = conns[t].fd
  BY <1>1, <1>2
<1>4. First(s, f) /\ s # at.slot /\ conns'[s] = conns[s]
  BY <1>1, <1>2, <1>3 DEF First
<1>5. Awaited(s, f)
  BY <1>4, AwaitedBefore DEF Unsent
<1>6. sock[f] \in Clients \ {Client}
  BY <1>1, TableTypes DEF Apart, Client
<1> QED
  BY <1>4, <1>5, <1>6, AwaitedSame

LEMMA AwaitedRead ==
  ASSUME OrderInv, Numbers, NoStrandedOutput, ReadSome, up', NEW s \in Slots, NEW f \in Fds,
         Serves(s, f)', Unsent(s)'
  PROVE  Awaited(s, f)'
<1>1. /\ TypeOK /\ Apart /\ Queued /\ up /\ at.op = "read" /\ Client \in Clients /\ Fd \in Fds
      /\ at.slot \in Slots /\ UNCHANGED <<sock, full>>
  BY CurrentType, TableTypes DEF ReadSome, At, Client, OrderInv, Ordered
<1>2. PICK k \in 1..Len(inbox[Client]) :
        /\ HandleRequest(at.slot, inbox[Client][1])
        /\ epi' = [epi EXCEPT ![Fd] = Item("out", Fd)]
        /\ UNCHANGED ready
  BY DEF ReadSome, Exit
<1>3. epi'[Fd] = Item("out", Fd) /\ \A g \in Fds \ {Fd} : epi'[g] = epi[g]
  BY <1>1, <1>2, TableTypes
<1>4. CASE f = Fd
  BY <1>3, <1>4 DEF Awaited, Item
<1>5. CASE f # Fd
  <2>1. inbox[Client][1] \in Requests
    BY <1>1, <1>2, OrderTypes
  <2>2. PICK y : conns' = [conns EXCEPT ![at.slot] = y]
    BY <1>2 DEF HandleRequest
  <2>3. conns'[at.slot].fd = Fd /\ conns'[at.slot] = y
    BY <1>1, <1>2, <2>1, <2>2, HandleRequestType, TableTypes DEF Fd
  <2> QED
    BY <1>1, <1>2, <1>3, <1>5, <2>2, <2>3, AwaitedOther DEF Serves
<1> QED
  BY <1>4, <1>5

LEMMA AwaitedReadEnd ==
  ASSUME OrderInv, Numbers, NoStrandedOutput, ReadEnd, NEW s \in Slots, NEW f \in Fds,
         Serves(s, f)', Unsent(s)'
  PROVE  Awaited(s, f)'
<1>1. /\ TypeOK /\ Apart /\ up /\ at.op = "read" /\ Fd \in Fds /\ at.slot \in Slots
      /\ CloseIn({Fd} \cup FileOf(at.slot), sock, epi)
      /\ conns' = [conns EXCEPT ![at.slot] = Reset(conns[at.slot])]
      /\ UNCHANGED <<full, ready>>
  BY CurrentType DEF ReadEnd, At, CloseFds, OrderInv
<1>2. f # Fd /\ f \notin FileOf(at.slot)
  BY <1>1 DEF Serves, CloseIn
<1>3. sock'[f] = sock[f] /\ epi'[f] = epi[f] /\ sock'[f] # NULL
  BY <1>1, <1>2 DEF Serves, CloseIn
<1>4. Reset(conns[at.slot]).fd = Fd
  BY <1>1, CurrentType, ResetFields DEF Fd
<1> QED
  BY <1>1, <1>2, <1>3, <1>4, AwaitedOther DEF Serves

LEMMA AwaitedWrite ==
  ASSUME OrderInv, Numbers, NoStrandedOutput, Write, NEW s \in Slots, NEW f \in Fds,
         Serves(s, f)', Unsent(s)'
  PROVE  Awaited(s, f)'
<1>0. TypeOK /\ Apart /\ Placed /\ Spent /\ at.slot \in Slots
  BY CurrentType DEF OrderInv
<1> DEFINE x == conns[at.slot]
           y(k) == [x EXCEPT !.left = x.left - k, !.sent = (k = x.left)]
<1>1. /\ x \in SlotRecords /\ up /\ at.op = "write" /\ Fd \in Fds /\ Fd = x.fd
      /\ Client \in Clients /\ Client = sock[Fd] /\ UNCHANGED <<sock, epi, ready>> /\ x.left > 0
  BY <1>0, CurrentType, TableTypes DEF Write, At, Fd, Client
<1>2. PICK k \in 1..x.left :
        /\ Buffered(Client, k, x.left, ~x.sending)
        /\ conns' = [conns EXCEPT ![at.slot] = y(k)]
        /\ \/ k = x.left /\ AfterHeader(at.slot, x.sending)
           \/ k # x.left /\ Done
  BY DEF Write
<1>3. /\ y(k).fd = x.fd /\ y(k).sending = x.sending /\ y(k).left = x.left - k
      /\ y(k).sent <=> k = x.left
  BY <1>1 DEF SlotRecords
<1> HIDE DEF y
<1>4. \A c \in Clients \ {Client} : full'[c] = full[c]
  BY <1>0, <1>2, TableTypes DEF Buffered
<1>5. CASE f # Fd
  BY <1>0, <1>1, <1>2, <1>3, <1>4, <1>5, AwaitedOther DEF Serves
<1>6. CASE f = Fd
  <2>1. conns'[at.slot] = y(k) /\ \A t \in Slots \ {at.slot} : conns'[t] = conns[t]
    BY <1>0, <1>2, TableTypes
  <2>2. \A t \in Slots : conns'[t].fd = conns[t].fd
    BY <1>3, <2>1
  <2>3. First(s, Fd) /\ s = at.slot
    BY <1>0, <1>1, <1>6, <2>2, FirstUnique DEF Placed, Serves, First
  <2>4. ~x.sent
    <3>1. x.left # 0
      <4>1. x.left \in 0..HeaderLen
        BY <1>1, SlotFields
      <4> QED
        BY <1>1, <4>1, Constants
    <3> QED
      BY <1>0, <3>1 DEF Spent
  <2>5. Awaited(s, f)
    BY <1>1, <1>6, <2>3, <2>4, AwaitedBefore DEF Unsent, Serves
  <2>6. CASE k = x.left
    <3>1. x.sending
      BY <1>3, <2>1, <2>3, <2>6 DEF Unsent
    <3>2. at'.op = "file" /\ at'.slot = s
      BY <1>2, <2>3, <2>6, <3>1 DEF AfterHeader, Done, Go
    <3> QED
      BY <1>1, <2>5, <3>2 DEF Awaited
  <2>7. CASE k # x.left
    <3>1. k < x.left
      <4>1. x.left \in 0..HeaderLen
        BY <1>1, SlotFields
      <4> QED
        BY <2>7, <4>1, Constants
    <3>2. full'[Client]
      BY <1>2, <3>1 DEF Buffered
    <3> QED
      BY <1>1, <1>6, <2>5, <3>2 DEF Awaited
  <2> QED
    BY <2>6, <2>7
<1> QED
  BY <1>5, <1>6

LEMMA AwaitedSendFile ==
  ASSUME OrderInv, Numbers, NoStrandedOutput, SendFile, NEW s \in Slots, NEW f \in Fds,
         Serves(s, f)', Unsent(s)'
  PROVE  Awaited(s, f)'
<1>0. TypeOK /\ Apart /\ Placed /\ Spent /\ at.slot \in Slots
  BY CurrentType DEF OrderInv
<1> DEFINE x == conns[at.slot]
           y(k) == [x EXCEPT !.fleft = x.fleft - k]
           z == [Reset(x) EXCEPT !.fleft = 0]
           ep == [epi EXCEPT ![Fd] = Item("once", Fd)]
<1>1. /\ x \in SlotRecords /\ up /\ at.op = "file" /\ Fd \in Fds /\ Fd = x.fd
      /\ Client \in Clients /\ Client = sock[Fd] /\ UNCHANGED ready /\ x.fleft > 0
      /\ x.sending /\ x.sent /\ x.left = 0
  BY <1>0, CurrentType, TableTypes DEF SendFile, At, Fd, Client, Spent, TypeOK, Serving
<1>2. PICK k \in 1..x.fleft :
        /\ Buffered(Client, k, x.fleft, TRUE)
        /\ \/ k < x.fleft /\ conns' = [conns EXCEPT ![at.slot] = y(k)] /\ UNCHANGED <<sock, epi>>
           \/ conns' = [conns EXCEPT ![at.slot] = z] /\ CloseIn(FileOf(at.slot), sock, ep)
  BY DEF SendFile
<1>3. y(k).fd = x.fd /\ z.fd = x.fd /\ z.left = 0 /\ ~z.sending
  BY <1>1 DEF SlotRecords, Reset
<1>4. \A g \in Fds \ {Fd} : ep[g] = epi[g]
  BY <1>1, TableTypes
<1> HIDE DEF y, z, ep
<1>5. \A c \in Clients \ {Client} : full'[c] = full[c]
  BY <1>0, <1>2, TableTypes DEF Buffered
<1>6. sock'[f] = sock[f] /\ sock[f] # NULL /\ (f # Fd => epi'[f] = epi[f])
  BY <1>2, <1>4 DEF CloseIn, Serves
<1>7. CASE f # Fd
  BY <1>0, <1>1, <1>2, <1>3, <1>5, <1>6, <1>7, AwaitedOther DEF Serves
<1>8. CASE f = Fd
  <2>1. \A w : conns' = [conns EXCEPT ![at.slot] = w] =>
                 conns'[at.slot] = w /\ \A t \in Slots \ {at.slot} : conns'[t] = conns[t]
    BY <1>0, TableTypes
  <2>2. \A t \in Slots : conns'[t].fd = conns[t].fd
    BY <1>2, <1>3, <2>1
  <2>3. First(s, Fd) /\ s = at.slot
    BY <1>0, <1>1, <1>8, <2>2, FirstUnique DEF Placed, Serves, First
  <2>4. Awaited(s, f)
    BY <1>1, <1>6, <1>8, <2>3, AwaitedBefore DEF Unsent
  <2>5. CASE k < x.fleft /\ UNCHANGED epi
    <3>1. full'[Client]
      BY <1>2, <2>5 DEF Buffered
    <3> QED
      BY <1>1, <1>6, <1>8, <2>4, <2>5, <3>1 DEF Awaited
  <2>6. conns' # [conns EXCEPT ![at.slot] = z]
    <3>1. ~(z.left > 0)
      BY <1>3
    <3> QED
      BY <1>3, <2>1, <2>3, <3>1 DEF Unsent
  <2> QED
    BY <1>2, <2>5, <2>6
<1> QED
  BY <1>7, <1>8

\* Nothing is written when nothing is left, or nothing fits.
LEMMA AwaitedIdle ==
  ASSUME OrderInv, Numbers, NoStrandedOutput, Fresh,
         ReadEAGAIN \/ WriteNothing \/ SendNothing, NEW s \in Slots, NEW f \in Fds,
         Serves(s, f)', Unsent(s)'
  PROVE  Awaited(s, f)'
<1>1. /\ TypeOK /\ Spent /\ up /\ UNCHANGED <<sock, epi, full, ready, conns>>
  BY DEF OrderInv, ReadEAGAIN, WriteNothing, SendNothing, At, sockVars
<1>2. First(s, f) /\ Unsent(s) /\ sock[f] # NULL
  BY <1>1 DEF Serves, First, Unsent
<1>3. Awaited(s, f)
  BY <1>1, <1>2, AwaitedBefore
<1>4. CASE at.op \in {"write", "file"} /\ at.slot = s
  <2>1. f = Fd
    BY <1>2, <1>4 DEF First, Fd
  <2>2. CASE WriteNothing
    <3>1. conns[s].left = 0 \/ full[sock[f]]
      BY <1>4, <2>1, <2>2 DEF WriteNothing, Client
    <3>2. conns[s].left = 0 => ~(conns[s].left > 0)
      OBVIOUS
    <3>3. full[sock[f]]
      BY <1>2, <1>4, <2>2, <3>1, <3>2 DEF Unsent, Fresh, WriteNothing, At
    <3> QED
      BY <1>1, <1>3, <3>3 DEF Awaited
  <2>3. CASE SendNothing
    <3>1. conns[s].sent /\ conns[s].fleft = 0
      BY <1>1, <1>4, <2>3 DEF SendNothing, At, Spent
    <3> QED
      BY <1>2, <3>1 DEF Unsent
  <2>4. CASE ReadEAGAIN
    BY <1>4, <2>4 DEF ReadEAGAIN, At
  <2> QED
    BY <2>2, <2>3, <2>4
<1>5. CASE ~(at.op \in {"write", "file"} /\ at.slot = s)
  BY <1>1, <1>3, <1>5, AwaitedSame
<1> QED
  BY <1>4, <1>5

LEMMA AwaitedStep ==
  ASSUME Mild, AwaitedInv, [Next]_vars PROVE AwaitedInv'
<1>1. NumbersInv /\ OrderInv /\ TypeOK /\ Numbers /\ NoStrandedOutput /\ Level /\ Fresh
  BY DEF AwaitedInv, NumbersInv, OrderInv
<1>2. NumbersInv'
  BY <1>1, NumbersStep
<1>3. CASE UNCHANGED vars
  <2>1. NoStrandedOutput' /\ Level' /\ Fresh'
    BY <1>1, <1>3 DEF vars, sockVars, loopVars, NoStrandedOutput, Serves, First, Unsent, Level, Fresh
  <2> QED
    BY <1>2, <2>1 DEF AwaitedInv
<1>4. CASE Next
  <2>1. Level'
    BY <1>1, <1>4, LevelStep
  <2>2. Fresh'
    <3> SUFFICES ASSUME at'.op = "write" PROVE ~conns'[at'.slot].sent
      BY DEF Fresh
    <3>1. CASE ClientStep \/ BrokenPipe \/ \E e \in ready : AcceptFails(e)
      <4>1. UNCHANGED <<at, conns>>
        BY <3>1 DEF ClientStep, BrokenPipe, AcceptFails, Exit, loopVars
      <4> QED
        BY <1>1, <4>1 DEF Fresh
    <3>2. CASE Wait \/ \E e \in ready : Accept(e) \/ Orphan(e)
      <4>1. at' = at /\ at.op = "next"
        BY <3>2 DEF Wait, Accept, Orphan, At
      <4> QED
        BY <4>1
    <3>3. CASE \E e \in ready : BeginRead(e)
      BY <3>3 DEF BeginRead, Go
    <3>4. CASE \E e \in ready : BeginWrite(e)
      BY <3>4 DEF BeginWrite, Go, Done
    <3>5. CASE Reading
      <4>1. CASE ReadSome
        <5>1. (at' = at) /\ at.op = "read"
          BY <4>1 DEF ReadSome, Exit, loopVars, At
        <5> QED
          BY <5>1
      <4>2. CASE ReadEAGAIN \/ ReadEnd
        BY <4>2 DEF ReadEAGAIN, ReadEnd, Done, Go
      <4> QED
        BY <3>5, <4>1, <4>2 DEF Reading
    <3>6. CASE Writing
      <4>1. CASE Write
        <5>1. \/ at' = [op |-> "file", slot |-> at.slot]
              \/ \E n \in {1, at.slot} : at' = [op |-> "next", slot |-> n]
          BY <4>1 DEF Write, AfterHeader, Done, Go
        <5> QED
          BY <5>1
      <4>2. CASE WriteNothing \/ WriteFails
        BY <4>2 DEF WriteNothing, WriteFails, Done, Go
      <4> QED
        BY <3>6, <4>1, <4>2 DEF Writing
    <3>7. CASE Sending
      <4>1. Done
        BY <3>7 DEF Sending, SendFile, SendNothing, SendEAGAIN, SendFails
      <4> QED
        BY <4>1 DEF Done, Go
    <3> QED
      BY <1>4, <3>1, <3>2, <3>3, <3>4, <3>5, <3>6, <3>7 DEF Next, ServerNext, Handle
  <2>3. ASSUME NEW s \in Slots, NEW f \in Fds, up', Serves(s, f)', Unsent(s)' PROVE Awaited(s, f)'
    <3>1. \/ ClientStep \/ Wait \/ \E e \in ready : Accept(e) \/ Orphan(e) \/ BeginRead(e) \/ BeginWrite(e)
          \/ ReadSome \/ ReadEnd \/ Write \/ SendFile \/ ReadEAGAIN \/ WriteNothing \/ SendNothing
      BY <1>1, <1>4, <2>3, NothingFails
         DEF Next, ServerNext, Handle, Reading, Writing, Sending, AcceptFails, BrokenPipe, Exit
    <3>2. ClientStep => up
      BY <2>3 DEF ClientStep
    <3> QED
      BY <1>1, <2>3, <3>1, <3>2, AwaitedClients, AwaitedWait, AwaitedOrphan, AwaitedBegin,
         AwaitedAccept, AwaitedRead, AwaitedReadEnd, AwaitedWrite, AwaitedSendFile, AwaitedIdle
  <2>4. NoStrandedOutput'
    BY <2>3 DEF NoStrandedOutput, Awaited
  <2> QED
    BY <1>2, <2>1, <2>2, <2>4 DEF AwaitedInv
<1> QED
  BY <1>3, <1>4

\* Output that is left is waited for, by a registration that will fire under the number of
\* its own connection: with the same assumptions no client waits for an event that was lost.
THEOREM StrandedCorrect == Mild /\ Spec => []NoStrandedOutput
<1>1. CASE Mild
  <2>1. Init => AwaitedInv
    <3> SUFFICES ASSUME Init PROVE AwaitedInv
      OBVIOUS
    <3>1. NumbersInv
      BY OrderInit, NumbersInit DEF NumbersInv
    <3>2. /\ \A f \in Fds : sock[f] = NULL
          /\ at.op = "next"
      BY DEF Init, SocketsInit
    <3> QED
      BY <3>1, <3>2 DEF AwaitedInv, NoStrandedOutput, Serves, Level, Fresh
  <2>2. AwaitedInv /\ [Next]_vars => AwaitedInv'
    BY <1>1, AwaitedStep
  <2>3. AwaitedInv => NoStrandedOutput
    BY DEF AwaitedInv
  <2> QED
    BY <2>1, <2>2, <2>3, PTL DEF Spec
<1> QED
  BY <1>1

(***************************************************************************)
(* Whose answers they are.                                                 *)
(***************************************************************************)
\* The clients, moreover, wait for their answers.
Waiting == Faults = {} /\ "dir" \notin Kinds

\* A client has one request outstanding at most, and got its answers one by one.
Steady(c) ==
  /\ asked[c] \in {Len(got[c]), Len(got[c]) + 1}
  /\ inbox[c] # <<>> => /\ asked[c] = Len(got[c]) + 1
                        /\ Len(inbox[c]) = 1 /\ inbox[c][1].n = asked[c]
  /\ \A i \in 1..Len(got[c]) : got[c][i].client = c /\ got[c][i].n = i
  /\ peer[c] \in {"idle", "open"} \/ Answered(c)

\* Slot s has nothing to send, and no name that would open a file that has something.
Calm(s) ==
  /\ conns[s].left = 0 /\ (conns[s].sending => conns[s].fleft = 0)
  /\ conns[s].name \in {"", "empty"}

\* It answers the request that its connection waits for.
Mine(s) ==
  LET r == conns[s].hdr IN
  /\ r # NULL /\ conns[s].fd # 0 /\ sock[conns[s].fd] = r.client
  /\ r.n = Len(got[r.client]) + 1 /\ asked[r.client] = r.n /\ inbox[r.client] = <<>>

\* An answer that is complete with its header has no file behind it.
Short(s) ==
  conns[s].hdr # NULL /\ conns[s].hdr.kind \in Whole =>
    (conns[s].sending => conns[s].fleft = 0) /\ conns[s].name \in {"", "empty"}

Served == /\ \A c \in Clients : Steady(c)
          /\ \A s \in Slots : (Calm(s) \/ Mine(s)) /\ Short(s)

\* The inductive invariant.
ServedInv == NumbersInv /\ Served

\* What the slot serving a connection has to send is for it.
LEMMA ServedOwn == ASSUME ServedInv PROVE OwnOutput
<1> SUFFICES ASSUME NEW s \in Slots, NEW f \in Fds, Serves(s, f), Unsent(s)
             PROVE  conns[s].hdr.client = sock[f]
  BY DEF OwnOutput
<1>1. conns[s].fd = f
  BY DEF Serves, First
<1>2. ~Calm(s)
  <2>1. conns[s] \in SlotRecords
    BY TableTypes DEF ServedInv, NumbersInv, OrderInv
  <2>2. conns[s].left \in 0..HeaderLen /\ conns[s].fleft \in 0..FileLen
    BY <2>1, SlotFields
  <2>3. (conns[s].left > 0 => conns[s].left # 0) /\ (conns[s].fleft > 0 => conns[s].fleft # 0)
    BY <2>2, Constants
  <2> QED
    BY <2>3 DEF Unsent, Calm
<1> QED
  BY <1>1, <1>2 DEF ServedInv, Served, Mine

\* No answer arrives, no request is sent, and every slot is as it was or served.
LEMMA ServedKept ==
  ASSUME TypeOK, Served, UNCHANGED <<got, asked>>,
         \A c \in Clients : inbox'[c] \in {inbox[c], <<>>},
         \A c \in Clients : peer'[c] \in {peer[c], "idle", "open"} \/ Answered(c),
         \A s \in Slots :
           \/ conns'[s] = conns[s] /\ (~Calm(s) => sock'[conns[s].fd] = sock[conns[s].fd])
           \/ (Calm(s)' \/ Mine(s)') /\ Short(s)'
  PROVE  Served'
<1>1. ASSUME NEW c \in Clients PROVE Steady(c)'
  BY DEF Served, Steady, Answered
<1>2. ASSUME NEW s \in Slots PROVE (Calm(s)' \/ Mine(s)') /\ Short(s)'
  <2>1. ASSUME conns'[s] = conns[s], ~Calm(s) => sock'[conns[s].fd] = sock[conns[s].fd]
        PROVE  (Calm(s)' \/ Mine(s)') /\ Short(s)'
    <3>1. Short(s)' /\ (Calm(s) => Calm(s)')
      BY <2>1 DEF Served, Short, Calm
    <3>2. ASSUME Mine(s), ~Calm(s) PROVE Mine(s)'
      <4>1. conns[s].hdr.client \in Clients
        BY <3>2, OrderTypes DEF Mine
      <4> QED
        BY <2>1, <3>2, <4>1 DEF Mine
    <3> QED
      BY <3>1, <3>2 DEF Served
  <2> QED
    BY <2>1
<1> QED
  BY <1>1, <1>2 DEF Served

\* A busy slot is the only one for its client.
LEMMA OneBusy ==
  ASSUME TypeOK, Placed, NEW s \in Slots, NEW t \in Slots, Mine(s), Mine(t),
         conns[s].hdr.client = conns[t].hdr.client
  PROVE  s = t
<1>1. conns[s] \in SlotRecords /\ conns[s].fd \in Fds
  BY TableTypes, SlotFields DEF Mine
<1>2. First(s, conns[s].fd) /\ First(t, conns[s].fd)
  BY <1>1 DEF Mine, Placed, Homed
<1> QED
  BY <1>2, FirstUnique

\* Slot s completes its answer.
LEMMA ServedReceive ==
  ASSUME TypeOK, Placed, Served, NEW s \in Slots, Mine(s),
         Receive(conns[s].hdr.client, conns[s].hdr), UNCHANGED asked,
         \A f \in Fds : sock'[f] = sock[f],
         \A c \in Clients : inbox'[c] \in {inbox[c], <<>>},
         \A c \in Clients : peer'[c] \in {peer[c], "idle", "open"} \/ Answered(c),
         Calm(s)', Short(s)', \A t \in Slots \ {s} : conns'[t] = conns[t]
  PROVE  Served'
<1>0. conns[s].hdr \in Requests /\ conns[s].hdr.client \in Clients
  BY OrderTypes DEF Mine
<1> PICK r \in Requests, c \in Clients : r = conns[s].hdr /\ c = r.client
  BY <1>0
<1>1. got \in [Clients -> Seq(Requests)]
  BY OrderTypes
<1>2. /\ Len(got[c]) \in Nat /\ r.n = Len(got[c]) + 1 /\ asked[c] = r.n /\ inbox[c] = <<>>
      /\ sock[conns[s].fd] = c
  BY <1>1, OrderTypes DEF Mine
<1>3. got' = [got EXCEPT ![c] = Append(got[c], r)]
  BY DEF Receive
<1>4. /\ Len(got'[c]) = Len(got[c]) + 1 /\ got'[c][Len(got[c]) + 1] = r
      /\ \A i \in 1..Len(got[c]) : got'[c][i] = got[c][i]
  BY <1>1, <1>3, Appended
<1>5. \A d \in Clients \ {c} : got'[d] = got[d]
  BY <1>1, <1>3
<1>6. ASSUME NEW d \in Clients \ {c} PROVE Steady(d)'
  BY <1>5 DEF Served, Steady, Answered
<1>7. Steady(c)'
  <2>1. Answered(c)' /\ asked'[c] = Len(got'[c]) /\ inbox'[c] = <<>>
    BY <1>1, <1>2, <1>4 DEF Answered
  <2>2. \A i \in 1..Len(got'[c]) : i \in 1..Len(got[c]) \/ i = Len(got[c]) + 1
    BY <1>2, <1>4
  <2>3. \A i \in 1..Len(got[c]) : got[c][i].client = c /\ got[c][i].n = i
    BY <1>1 DEF Served, Steady
  <2>4. ASSUME NEW i \in 1..Len(got'[c]) PROVE got'[c][i].client = c /\ got'[c][i].n = i
    <3>1. CASE i \in 1..Len(got[c])
      BY <1>4, <2>3, <3>1
    <3>2. CASE i = Len(got[c]) + 1
      BY <1>2, <1>4, <3>2
    <3> QED
      BY <2>2, <3>1, <3>2
  <2> QED
    BY <2>1, <2>4 DEF Steady
<1>8. ASSUME NEW t \in Slots \ {s} PROVE (Calm(t)' \/ Mine(t)') /\ Short(t)'
  <2>1. conns'[t] = conns[t] /\ Short(t)' /\ (Calm(t) => Calm(t)')
    BY DEF Served, Short, Calm
  <2>2. ASSUME Mine(t) PROVE Mine(t)'
    <3>1. conns[t].hdr.client # c
      BY <2>2, OneBusy
    <3>2. conns[t].hdr.client \in Clients \ {c}
      BY <2>2, <3>1, OrderTypes DEF Mine
    <3>3. conns[t] \in SlotRecords /\ conns[t].fd \in Fds
      BY <2>2, TableTypes, SlotFields DEF Mine
    <3> QED
      BY <1>5, <2>1, <2>2, <3>2, <3>3 DEF Mine
  <2> QED
    BY <2>1, <2>2 DEF Served
<1> QED
  BY <1>6, <1>7, <1>8 DEF Served

\* A client sends when it has had its last answer, so that no slot is busy with it.
LEMMA ServedSend ==
  ASSUME Waiting, TypeOK, Served, NEW c \in Clients, Send(c), UNCHANGED conns PROVE Served'
<1>1. PICK kind \in Kinds :
        inbox' = [inbox EXCEPT ![c] =
                    Append(inbox[c], [client |-> c, n |-> asked[c] + 1, kind |-> kind])]
  BY DEF Send
<1>2. /\ asked[c] = Len(got[c]) /\ asked[c] < MaxReq /\ peer[c] = "open"
      /\ asked' = [asked EXCEPT ![c] = asked[c] + 1] /\ UNCHANGED <<sock, peer, got>>
  BY DEF Send, Waiting, Answered
<1>3. Len(got[c]) \in Nat /\ inbox \in [Clients -> Seq(Requests)] /\ asked \in [Clients -> Nat]
  BY OrderTypes
<1>4. inbox[c] = <<>>
  BY <1>2, <1>3 DEF Served, Steady
<1> DEFINE r == [client |-> c, n |-> asked[c] + 1, kind |-> kind]
<1>5. r.n = asked[c] + 1 /\ r \in Requests
  BY <1>2, <1>3, Constants DEF Requests
<1>6. Len(inbox'[c]) = 1 /\ inbox'[c][1] = r
  <2> HIDE DEF r
  <2>1. inbox'[c] = Append(<<>>, r)
    BY <1>1, <1>3, <1>4 DEF r
  <2>2. <<>> \in Seq(Requests) /\ Len(<<>>) = 0
    BY EmptySeq
  <2> QED
    BY <1>5, <2>1, <2>2, Appended
<1>7. \A d \in Clients \ {c} : inbox'[d] = inbox[d] /\ asked'[d] = asked[d]
  BY <1>1, <1>2, <1>3
<1>8. asked'[c] = asked[c] + 1
  BY <1>2, <1>3
<1>9. Steady(c)'
  BY <1>2, <1>3, <1>5, <1>6, <1>8 DEF Served, Steady
<1>10. ASSUME NEW d \in Clients \ {c} PROVE Steady(d)'
  BY <1>2, <1>7 DEF Served, Steady, Answered
<1>11. ASSUME NEW s \in Slots PROVE (Calm(s)' \/ Mine(s)') /\ Short(s)'
  <2>1. Short(s)' /\ (Calm(s) => Calm(s)')
    BY DEF Served, Short, Calm
  <2>2. ASSUME Mine(s) PROVE Mine(s)'
    <3>1. conns[s].hdr.client \in Clients /\ conns[s].hdr.client # c
      BY <1>2, <1>3, <2>2, OrderTypes DEF Mine
    <3> QED
      BY <1>2, <1>7, <2>2, <3>1 DEF Mine
  <2> QED
    BY <2>1, <2>2 DEF Served
<1> QED
  BY <1>9, <1>10, <1>11 DEF Served

LEMMA ServedClients ==
  ASSUME Waiting, TypeOK, Served, ClientStep PROVE Served'
<1>1. PICK c \in Clients : \/ Connect(c) \/ Send(c) \/ Close(c) \/ HalfClose(c)
                           \/ Abort(c) \/ Refused(c) \/ Drain(c)
  BY DEF ClientStep, ClientNext
<1>2. UNCHANGED conns
  BY DEF ClientStep
<1>3. CASE Send(c)
  BY <1>2, <1>3, ServedSend
<1>4. CASE ~Send(c)
  <2>1. UNCHANGED <<sock, inbox, got, asked>>
    BY <1>1, <1>4 DEF Connect, Close, HalfClose, Abort, Refused, Drain, Ends
  <2>2. \/ UNCHANGED peer
        \/ \E p : /\ peer' = [peer EXCEPT ![c] = p]
                  /\ p = "open" \/ Answered(c) \/ peer[c] = "doomed"
    BY <1>1, <1>4 DEF Connect, Close, HalfClose, Abort, Refused, Drain, Ends, Waiting
  <2>3. peer[c] = "doomed" => Answered(c)
    BY DEF Served, Steady
  <2>4. \A d \in Clients : peer'[d] \in {peer[d], "idle", "open"} \/ Answered(d)
    BY <2>2, <2>3, TableTypes
  <2> QED
    BY <1>2, <2>1, <2>4, ServedKept
<1> QED
  BY <1>3, <1>4

LEMMA ServedQuiet ==
  ASSUME TypeOK, Served,
         \/ Wait \/ ReadEAGAIN \/ WriteNothing \/ SendNothing \/ BrokenPipe \/ UNCHANGED vars
         \/ \E e \in ready : AcceptFails(e) \/ BeginRead(e) \/ BeginWrite(e)
  PROVE  Served'
<1>1. UNCHANGED <<sock, peer, inbox, got, asked, conns>>
  BY DEF Wait, ReadEAGAIN, WriteNothing, SendNothing, BrokenPipe, AcceptFails, BeginRead,
         BeginWrite, Exit, vars, sockVars
<1> QED
  BY <1>1, ServedKept

LEMMA ServedOrphan ==
  ASSUME TypeOK, Served, NEW e \in ready, Orphan(e) PROVE Served'
<1>1. /\ NoSlot(e[1]) /\ CloseIn({e[1]}, sock, epi) /\ UNCHANGED <<peer, got, asked, conns>>
  BY DEF Orphan, CloseFds
<1>2. \A c \in Clients : inbox'[c] \in {inbox[c], <<>>}
  BY <1>1 DEF CloseIn
<1>3. ASSUME NEW s \in Slots, ~Calm(s) PROVE sock'[conns[s].fd] = sock[conns[s].fd]
  <2>1. conns[s] \in SlotRecords /\ conns[s].fd \in Fds /\ conns[s].fd # e[1]
    BY <1>1, <1>3, TableTypes, SlotFields DEF Served, Mine, NoSlot
  <2> QED
    BY <1>1, <2>1 DEF CloseIn
<1> QED
  BY <1>1, <1>2, <1>3, ServedKept

\* A slot at rest takes up a request: nothing is left of what it sent before.
LEMMA HandleShort ==
  ASSUME TypeOK, NEW s \in Slots, NEW r \in Requests, Calm(s), HandleRequest(s, r)
  PROVE  Short(s)'
<1> DEFINE x == Header(conns[s], r)
<1>1. conns[s] \in SlotRecords /\ x \in SlotRecords
  BY HeaderType, TableTypes
<1> DEFINE name == IF r.kind \in Named THEN r.kind
                   ELSE IF r.kind = "head" THEN "" ELSE conns[s].name
<1>2. x.sending = conns[s].sending /\ x.fleft = conns[s].fleft /\ x.name = name
  <2> DEFINE left == IF r.kind = "none" THEN 0 ELSE HeaderLen
  <2>1. x = [conns[s] EXCEPT !.hdr = r, !.left = left, !.sent = FALSE, !.name = name]
    BY DEF Header
  <2> HIDE DEF name, left
  <2> QED
    BY <1>1, <2>1 DEF SlotRecords
<1>3. r.kind \in Whole => x.name \in {"", "empty"}
  BY <1>2 DEF Whole, Named, Calm
<1> DEFINE y == [x EXCEPT !.file = 0, !.sending = FALSE]
           z(f) == [x EXCEPT !.file = f, !.fleft = Size(x.name), !.sending = TRUE]
<1>4. y.name = x.name /\ ~y.sending /\ \A f : z(f).name = x.name /\ z(f).fleft = Size(x.name)
  BY <1>1 DEF SlotRecords
<1>5. \/ conns' = [conns EXCEPT ![s] = x]
      \/ conns' = [conns EXCEPT ![s] = y]
      \/ x.name # "" /\ \E f : conns' = [conns EXCEPT ![s] = z(f)]
  BY DEF HandleRequest
<1> HIDE DEF x, y, z, name
<1>6. \A w : conns' = [conns EXCEPT ![s] = w] => conns'[s] = w
  BY TableTypes
<1>7. conns'[s].hdr = r
  BY HandleRequestSlot
<1>8. Size("empty") = 0
  BY DEF Size
<1>9. ASSUME r.kind \in Whole
      PROVE  (conns'[s].sending => conns'[s].fleft = 0) /\ conns'[s].name \in {"", "empty"}
  <2>1. CASE conns' = [conns EXCEPT ![s] = x]
    BY <1>2, <1>3, <1>6, <1>9, <2>1 DEF Calm
  <2>2. CASE conns' = [conns EXCEPT ![s] = y]
    BY <1>3, <1>4, <1>6, <1>9, <2>2
  <2>3. ASSUME x.name # "", NEW f, conns' = [conns EXCEPT ![s] = z(f)]
        PROVE  (conns'[s].sending => conns'[s].fleft = 0) /\ conns'[s].name \in {"", "empty"}
    BY <1>3, <1>4, <1>6, <1>8, <1>9, <2>3
  <2> QED
    BY <1>5, <2>1, <2>2, <2>3
<1> QED
  BY <1>7, <1>9 DEF Short

LEMMA ServedRead ==
  ASSUME TypeOK, Placed, Queued, Served, ReadSome PROVE Served'
<1> PICK s \in Slots, c \in Clients : s = at.slot /\ c = Client
  BY CurrentType, TableTypes DEF ReadSome, At, Client
<1>1. /\ at.op = "read" /\ Fd \in Fds /\ Fd = conns[s].fd /\ sock[Fd] = c /\ Fd # 0
      /\ UNCHANGED <<sock, peer, asked, got>>
  BY CurrentType, Constants DEF ReadSome, At, Client, Fd
<1>2. PICK k \in 1..Len(inbox[c]) :
        /\ inbox' = [inbox EXCEPT ![c] = SubSeq(inbox[c], k + 1, Len(inbox[c]))]
        /\ \/ UNCHANGED conns
           \/ HandleRequest(s, inbox[c][1])
  BY DEF ReadSome, Exit
<1>3. inbox \in [Clients -> Seq(Requests)] /\ inbox[c] # <<>>
  BY <1>2, OrderTypes, EmptySeq
<1>4. Len(inbox[c]) = 1 /\ inbox[c][1].n = Len(got[c]) + 1 /\ asked[c] = inbox[c][1].n
  BY <1>3 DEF Served, Steady
<1>5. inbox[c][1] \in Requests /\ inbox[c][1].client = c
  <2>1. 1 \in 1..Len(inbox[c])
    BY <1>4
  <2> QED
    BY <2>1, OrderTypes DEF Queued
<1>6. inbox'[c] = <<>>
  <2>1. /\ SubSeq(inbox[c], k + 1, Len(inbox[c])) \in Seq(Requests)
        /\ Len(SubSeq(inbox[c], k + 1, Len(inbox[c]))) = 0
    BY <1>2, <1>3, <1>4, SubSeqProperties
  <2> QED
    BY <1>2, <1>3, <2>1, EmptySeq
<1>7. \A d \in Clients : inbox'[d] \in {inbox[d], <<>>}
  BY <1>2, <1>3, <1>6
<1>8. CASE UNCHANGED conns
  BY <1>1, <1>7, <1>8, ServedKept
<1>9. CASE HandleRequest(s, inbox[c][1])
  <2>1. Calm(s)
    BY <1>1, <1>3 DEF Served, Mine
  <2>2. Short(s)'
    BY <1>5, <1>9, <2>1, HandleShort
  <2>3. /\ conns'[s].hdr = inbox[c][1] /\ conns'[s].fd = Fd
        /\ \A t \in Slots \ {s} : conns'[t] = conns[t]
    BY <1>1, <1>5, <1>9, HandleRequestSlot
  <2>4. Mine(s)'
    <3>1. inbox[c][1] # NULL
      BY <1>5, Constants
    <3> QED
      BY <1>1, <1>4, <1>5, <1>6, <2>3, <3>1 DEF Mine
  <2> QED
    BY <1>1, <1>7, <2>2, <2>3, <2>4, ServedKept
<1> QED
  BY <1>2, <1>8, <1>9

\* The client has closed its end, and so has had its answers: the slot is at rest.
LEMMA ServedReadEnd ==
  ASSUME TypeOK, Apart, Numbers, Served, ReadEnd PROVE Served'
<1> PICK s \in Slots, c \in Clients : s = at.slot /\ c = Client
  BY CurrentType, TableTypes DEF ReadEnd, At, Client, Numbers, Live
<1>1. /\ at.op = "read" /\ Fd \in Fds /\ Fd = conns[s].fd /\ sock[Fd] = c /\ c # NULL
      /\ inbox[c] = <<>> /\ Readable(Fd) /\ CloseIn({Fd} \cup FileOf(s), sock, epi)
      /\ conns' = [conns EXCEPT ![s] = Reset(conns[s])]
      /\ UNCHANGED <<peer, got, asked>>
  BY CurrentType, Constants DEF ReadEnd, At, Client, Fd, CloseFds
<1>2. Answered(c)
  BY <1>1 DEF Readable, Apart, Connected, Served, Steady
<1>3. \A t \in Slots : ~Calm(t) => conns[t].fd \in Fds /\ sock[conns[t].fd] \notin {NULL, c}
  <2> SUFFICES ASSUME NEW t \in Slots, Mine(t) 
               PROVE  conns[t].fd \in Fds /\ sock[conns[t].fd] \notin {NULL, c}
    BY DEF Served
  <2>1. conns[t] \in SlotRecords /\ conns[t].fd \in Fds
    BY TableTypes, SlotFields DEF Mine
  <2>2. conns[t].hdr.client \in Clients /\ ~Answered(conns[t].hdr.client)
    <3>1. conns[t].hdr.client \in Clients /\ Len(got[conns[t].hdr.client]) \in Nat
      BY OrderTypes DEF Mine
    <3> QED
      BY <3>1 DEF Mine, Answered
  <2> QED
    BY <1>2, <2>1, <2>2, Constants DEF Mine
<1>4. Calm(s)
  BY <1>1, <1>3
<1>5. Reset(conns[s]).left = 0 /\ Reset(conns[s]).name = "" /\ ~Reset(conns[s]).sending
  <2>1. \A x \in SlotRecords : Reset(x).name = ""
    BY DEF Reset, SlotRecords
  <2>2. conns[s] \in SlotRecords /\ conns[s].left = 0
    BY <1>4, TableTypes DEF Calm
  <2> QED
    BY <2>1, <2>2, ResetFields
<1>6. conns'[s] = Reset(conns[s]) /\ \A t \in Slots \ {s} : conns'[t] = conns[t]
  BY <1>1, TableTypes
<1>7. Calm(s)' /\ Short(s)'
  BY <1>5, <1>6 DEF Calm, Short
<1>8. \A f \in Fds : sock[f] \notin {NULL, c} => sock'[f] = sock[f]
  BY <1>1, FileIsNoSocket DEF CloseIn, Numbers
<1>9. \A d \in Clients : inbox'[d] \in {inbox[d], <<>>}
  BY <1>1 DEF CloseIn
<1> QED
  BY <1>1, <1>3, <1>6, <1>7, <1>8, <1>9, ServedKept

\* A slot without a descriptor is at rest.
LEMMA ServedAccept ==
  ASSUME TypeOK, Numbers, Served, NEW e \in ready, Accept(e) PROVE Served'
<1>1. UNCHANGED <<peer, got, asked>>
  BY DEF Accept
<1>2. PICK c \in backlog, f \in Fds, s \in Slots, S \in SUBSET Fds :
        /\ sock[f] = NULL /\ opened[f] = NULL
        /\ CloseIn(S, [sock EXCEPT ![f] = c], [epi EXCEPT ![f] = Item("inout", f)])
        /\ \/ /\ S = FileOf(s) /\ conns[s].fd = 0
              /\ conns' = [conns EXCEPT ![s] = [Reset(conns[s]) EXCEPT !.fd = f]]
           \/ S = {} /\ UNCHANGED conns
  <2>1. \A t \in Slots : FileOf(t) \subseteq Fds
    BY FileIsNoSocket DEF Numbers
  <2> QED
    BY <2>1, Constants DEF Accept, Lowest, FreeFds, FirstFree, First
<1> DEFINE y == [Reset(conns[s]) EXCEPT !.fd = f]
<1>3. \A g \in Fds : sock[g] # NULL => sock'[g] = sock[g]
  <2>1. \A g \in S : sock[g] = NULL
    BY <1>2, FileIsNoSocket DEF Numbers
  <2> QED
    BY <1>2, <2>1, TableTypes DEF CloseIn
<1>4. \A d \in Clients : inbox'[d] \in {inbox[d], <<>>}
  BY <1>2 DEF CloseIn
<1>5. ASSUME NEW t \in Slots, ~Calm(t) PROVE sock'[conns[t].fd] = sock[conns[t].fd]
  <2>1. Mine(t) /\ conns[t] \in SlotRecords /\ conns[t].fd \in Fds
    BY <1>5, TableTypes, SlotFields DEF Served, Mine
  <2>2. sock[conns[t].fd] # NULL
    BY <2>1, OrderTypes, Constants DEF Mine
  <2> QED
    BY <1>3, <2>1, <2>2
<1>6. CASE UNCHANGED conns
  BY <1>1, <1>4, <1>5, <1>6, ServedKept
<1>7. CASE conns[s].fd = 0 /\ conns' = [conns EXCEPT ![s] = y]
  <2>1. conns[s] \in SlotRecords /\ Calm(s)
    BY <1>7, TableTypes DEF Served, Mine
  <2>2. /\ Reset(conns[s]) \in SlotRecords /\ Reset(conns[s]).left = 0
        /\ Reset(conns[s]).name = "" /\ ~Reset(conns[s]).sending
    <3>1. \A x \in SlotRecords : Reset(x).name = ""
      BY DEF Reset, SlotRecords
    <3>2. conns[s].left = 0
      BY <2>1 DEF Calm
    <3> QED
      BY <2>1, <3>1, <3>2, ResetType, ResetFields
  <2>3. y.left = 0 /\ y.name = "" /\ ~y.sending
    <3>1. \A x \in SlotRecords :
            LET w == [x EXCEPT !.fd = f]
            IN  w.left = x.left /\ w.name = x.name /\ w.sending = x.sending
      BY DEF SlotRecords
    <3> QED
      BY <2>2, <3>1
  <2> HIDE DEF y
  <2>4. conns'[s] = y /\ \A t \in Slots \ {s} : conns'[t] = conns[t]
    BY <1>7, TableTypes
  <2>5. Calm(s)' /\ Short(s)'
    BY <2>3, <2>4 DEF Calm, Short
  <2> QED
    BY <1>1, <1>4, <1>5, <2>4, <2>5, ServedKept
<1> QED
  BY <1>2, <1>6, <1>7

\* A busy slot's client is there: nothing changes for it but its buffer.
LEMMA BusyClient ==
  ASSUME TypeOK, Served, NEW s \in Slots, Mine(s), NEW c \in Clients, c = conns[s].hdr.client,
         peer' = [peer EXCEPT ![c] = IF @ = "closed" THEN "doomed" ELSE @]
  PROVE  \A d \in Clients : peer'[d] = peer[d]
<1>1. ~Answered(c)
  BY OrderTypes DEF Mine, Answered
<1>2. peer[c] \in {"idle", "open"}
  BY <1>1 DEF Served, Steady
<1> QED
  BY <1>2, TableTypes

\* A slot that has something to send answers its connection's request.
LEMMA BusyHand ==
  ASSUME TypeOK, Spent, Served, Write \/ SendFile
  PROVE  /\ Mine(at.slot) /\ Client = conns[at.slot].hdr.client /\ Client \in Clients
         /\ conns[at.slot].hdr \in Requests
<1> PICK s \in Slots : s = at.slot
  BY CurrentType
<1>1. /\ conns[s].left \in Nat /\ conns[s].fleft \in Nat /\ Fd = conns[s].fd
      /\ conns[s].left > 0 => conns[s].left # 0
      /\ conns[s].fleft > 0 => conns[s].fleft # 0
  <2>1. conns[s] \in SlotRecords
    BY TableTypes
  <2>2. conns[s].left \in 0..HeaderLen /\ conns[s].fleft \in 0..FileLen
    BY <2>1, SlotFields
  <2> QED
    BY <2>2, Constants DEF Fd
<1>2. CASE Write
  BY <1>1, <1>2, OrderTypes DEF Write, Served, Calm, Mine, Client
<1>3. CASE SendFile
  <2>1. conns[s].fleft > 0 /\ conns[s].sending
    BY <1>3 DEF SendFile, At, TypeOK, Serving
  <2> QED
    BY <1>1, <2>1, OrderTypes DEF Served, Calm, Mine, Client
<1> QED
  BY <1>2, <1>3

LEMMA ServedWrite ==
  ASSUME TypeOK, Placed, Spent, Served, Write PROVE Served'
<1> PICK s \in Slots : s = at.slot
  BY CurrentType
<1> DEFINE x == conns[s]
           y(k) == [x EXCEPT !.left = x.left - k, !.sent = (k = x.left)]
<1>1. x \in SlotRecords /\ x.left \in Nat /\ UNCHANGED <<sock, inbox, asked>>
  <2>1. x \in SlotRecords /\ UNCHANGED <<sock, inbox, asked>>
    BY TableTypes DEF Write
  <2>2. x.left \in 0..HeaderLen
    BY <2>1, SlotFields
  <2> QED
    BY <2>1, <2>2, Constants
<1>2. Mine(s)
  BY BusyHand
<1>3. Client = x.hdr.client /\ x.hdr.client \in Clients
  BY BusyHand
<1>4. PICK k \in 1..x.left :
        /\ peer' = [peer EXCEPT ![Client] = IF @ = "closed" THEN "doomed" ELSE @]
        /\ conns' = [conns EXCEPT ![s] = y(k)]
        /\ \/ k = x.left /\ x.hdr.kind \in Whole /\ Receive(Client, x.hdr)
           \/ UNCHANGED got
  BY DEF Write, Buffered
<1>5. \A d \in Clients : peer'[d] = peer[d]
  BY <1>2, <1>3, <1>4, BusyClient
<1>6. /\ y(k).fd = x.fd /\ y(k).hdr = x.hdr /\ y(k).name = x.name /\ y(k).fleft = x.fleft
      /\ y(k).sending = x.sending /\ y(k).left = x.left - k
  BY <1>1 DEF SlotRecords
<1> HIDE DEF y
<1>7. conns'[s] = y(k) /\ \A t \in Slots \ {s} : conns'[t] = conns[t]
  BY <1>4, TableTypes
<1>8. Short(s)'
  BY <1>6, <1>7 DEF Served, Short
<1>9. CASE UNCHANGED got
  <2>1. Mine(s)'
    BY <1>1, <1>2, <1>6, <1>7, <1>9 DEF Mine
  <2> QED
    BY <1>1, <1>5, <1>7, <1>8, <1>9, <2>1, ServedKept
<1>10. CASE k = x.left /\ x.hdr.kind \in Whole /\ Receive(Client, x.hdr)
  <2>1. (x.sending => x.fleft = 0) /\ x.name \in {"", "empty"}
    BY <1>2, <1>10 DEF Served, Short, Mine
  <2>2. y(k).left = 0
    BY <1>1, <1>6, <1>10
  <2>3. Calm(s)'
    BY <1>6, <1>7, <2>1, <2>2 DEF Calm
  <2> QED
    BY <1>1, <1>2, <1>3, <1>5, <1>7, <1>8, <1>10, <2>3, ServedReceive
<1> QED
  BY <1>4, <1>9, <1>10

LEMMA ServedSendFile ==
  ASSUME TypeOK, Placed, Spent, Numbers, Served, SendFile PROVE Served'
<1> PICK s \in Slots : s = at.slot
  BY CurrentType
<1> DEFINE x == conns[s]
           y(k) == [x EXCEPT !.fleft = x.fleft - k]
           z == [Reset(x) EXCEPT !.fleft = 0]
<1>1. x \in SlotRecords /\ x.fleft # 0 /\ x.sending /\ x.left = 0 /\ UNCHANGED asked
  <2>1. x \in SlotRecords /\ x.fleft > 0 /\ at.op = "file" /\ UNCHANGED asked
    BY TableTypes DEF SendFile, At
  <2>2. x.fleft \in 0..FileLen
    BY <2>1, SlotFields
  <2>3. x.fleft # 0
    BY <2>1, <2>2, Constants
  <2> QED
    BY <2>1, <2>3 DEF TypeOK, Serving, Spent
<1>2. Mine(s)
  BY BusyHand
<1>3. Client = x.hdr.client /\ x.hdr.client \in Clients
  BY BusyHand
<1>4. PICK k \in 1..x.fleft :
        /\ peer' = [peer EXCEPT ![Client] = IF @ = "closed" THEN "doomed" ELSE @]
        /\ \/ conns' = [conns EXCEPT ![s] = y(k)] /\ UNCHANGED <<sock, inbox, got>>
           \/ /\ conns' = [conns EXCEPT ![s] = z]
              /\ CloseIn(FileOf(s), sock, [epi EXCEPT ![Fd] = Item("once", Fd)])
              /\ IF x.hdr.kind = "file" THEN Receive(Client, x.hdr) ELSE UNCHANGED got
  BY DEF SendFile, Buffered
<1>5. \A d \in Clients : peer'[d] = peer[d]
  BY <1>2, <1>3, <1>4, BusyClient
<1>6. /\ \A f \in Fds : sock'[f] = sock[f]
      /\ \A d \in Clients : inbox'[d] \in {inbox[d], <<>>}
  BY <1>4, FileIsNoSocket DEF CloseIn, Numbers
<1>7. /\ y(k).fd = x.fd /\ y(k).hdr = x.hdr
      /\ y(k).name = x.name
      /\ z.left = x.left /\ z.name = "" /\ ~z.sending
  BY <1>1 DEF SlotRecords, Reset
<1> HIDE DEF y, z
<1>8. \A w : conns' = [conns EXCEPT ![s] = w] =>
               conns'[s] = w /\ \A t \in Slots \ {s} : conns'[t] = conns[t]
  BY TableTypes
<1>9. CASE conns' = [conns EXCEPT ![s] = y(k)] /\ UNCHANGED <<sock, inbox, got>>
  <2>1. conns'[s] = y(k) /\ \A t \in Slots \ {s} : conns'[t] = conns[t]
    BY <1>8, <1>9
  <2>2. conns'[s].hdr = x.hdr /\ conns'[s].fd = x.fd
    BY <1>7, <2>1
  <2>3. Mine(s)'
    BY <1>1, <1>2, <1>9, <2>2 DEF Mine
  <2>4. x.hdr.kind \notin Whole
    BY <1>1, <1>2 DEF Served, Short, Mine
  <2>5. Short(s)'
    BY <2>2, <2>4 DEF Short
  <2> QED
    BY <1>1, <1>5, <1>9, <2>1, <2>3, <2>5, ServedKept
<1>10. CASE /\ conns' = [conns EXCEPT ![s] = z]
            /\ Receive(Client, x.hdr) \/ UNCHANGED got
  <2>1. conns'[s] = z /\ \A t \in Slots \ {s} : conns'[t] = conns[t]
    BY <1>8, <1>10
  <2>2. Calm(s)' /\ Short(s)'
    BY <1>1, <1>7, <2>1 DEF Calm, Short
  <2>3. ASSUME NEW t \in Slots \ {s}, ~Calm(t)
        PROVE  sock'[conns[t].fd] = sock[conns[t].fd]
    <3>1. conns[t] \in SlotRecords /\ conns[t].fd \in Fds
      BY <2>3, TableTypes, SlotFields DEF Served, Mine
    <3> QED
      BY <1>6, <3>1
  <2>4. CASE UNCHANGED got
    BY <1>1, <1>5, <1>6, <2>1, <2>2, <2>3, <2>4, ServedKept
  <2>5. CASE Receive(Client, x.hdr)
    BY <1>1, <1>2, <1>3, <1>5, <1>6, <2>1, <2>2, <2>5, ServedReceive
  <2> QED
    BY <1>10, <2>4, <2>5
<1> QED
  BY <1>4, <1>9, <1>10

LEMMA ServedInit == Init => Served
<1> SUFFICES ASSUME Init PROVE Served
  OBVIOUS
<1>1. /\ \A c \in Clients : Len(got[c]) = 0 /\ asked[c] = 0 /\ peer[c] = "idle"
      /\ \A c \in Clients : inbox[c] = <<>>
      /\ \A s \in Slots : conns[s].hdr = NULL /\ conns[s].left = 0 /\ ~conns[s].sending
      /\ \A s \in Slots : conns[s].name = ""
  BY EmptySeq DEF Init, SocketsInit, EmptySlot
<1>2. 1..0 = {}
  OBVIOUS
<1> QED
  BY <1>1, <1>2 DEF Served, Steady, Calm, Short

LEMMA ServedStep == Waiting /\ ServedInv /\ [Next]_vars => ServedInv'
<1> SUFFICES ASSUME Waiting, ServedInv, [Next]_vars PROVE ServedInv'
  OBVIOUS
<1>1. /\ NumbersInv /\ Served /\ OrderInv
      /\ TypeOK /\ Apart /\ Placed /\ Spent /\ Queued /\ Numbers
  BY DEF ServedInv, NumbersInv, OrderInv, Ordered
<1>2. NumbersInv'
  BY <1>1, NumbersStep DEF Waiting, Mild
<1>3. Served'
  BY <1>1, NothingFails, ServedClients, ServedQuiet, ServedOrphan, ServedRead, ServedReadEnd,
     ServedAccept, ServedWrite, ServedSendFile
     DEF Next, ServerNext, Handle, Reading, Writing, Sending
<1> QED
  BY <1>2, <1>3 DEF ServedInv

LEMMA ServedAlways == ASSUME Waiting PROVE Spec => []ServedInv
<1>1. Init => ServedInv
  BY OrderInit, NumbersInit, ServedInit DEF ServedInv, NumbersInv
<1>2. ServedInv /\ [Next]_vars => ServedInv'
  BY ServedStep
<1> QED
  BY <1>1, <1>2, PTL DEF Spec

\* Output is for the client that asked, whatever slots and numbers it was written with, if
\* no client sends before it has had its last answer, or leaves owing one.
THEOREM OwnOutputCorrect == Waiting /\ Spec => []OwnOutput
<1>1. CASE Waiting
  BY <1>1, ServedOwn, ServedAlways, PTL
<1> QED
  BY <1>1

(***************************************************************************)
(* Files that are closed again.                                            *)
(***************************************************************************)
\* While slot s has a file its connection is not read: no request replaces the file.
Busy(s) ==
  LET f == conns[s].fd IN
  /\ f # 0 /\ conns[s].hdr # NULL /\ sock[f] = conns[s].hdr.client
  /\ epi[f].mask = "out" /\ \A e \in ready : e[1] = f => e[2] = "out"
  /\ at.op = "read" /\ at.slot = s => inbox[sock[f]] = <<>> /\ ~Answered(sock[f])

Held == (\A s \in Slots : conns[s].file # 0 => Busy(s)) /\ NoFileLeak

\* The inductive invariant.
HeldInv == ServedInv /\ Held

LEMMA BusyTypes ==
  ASSUME TypeOK, NEW s \in Slots, Busy(s)
  PROVE  /\ conns[s].fd \in Fds /\ sock[conns[s].fd] \in Clients /\ sock[conns[s].fd] # NULL
         /\ epi[conns[s].fd] \in Items
<1>1. conns[s].fd \in Fds
  BY TableTypes, SlotFields DEF Busy
<1>2. conns[s].hdr \in Requests /\ sock[conns[s].fd] = conns[s].hdr.client
  BY OrderTypes DEF Busy
<1>3. conns[s].hdr.client \in Clients
  BY <1>2, OrderTypes
<1> QED
  BY <1>1, <1>2, <1>3, TableTypes, Constants

\* The slot in hand is the one busy with its connection.
LEMMA BusyOther ==
  ASSUME TypeOK, Placed, at.op # "next", NEW s \in Slots, s # at.slot, Busy(s)
  PROVE  conns[s].fd # Fd
<1>1. conns[s].fd \in Fds /\ First(s, conns[s].fd)
  BY BusyTypes DEF Busy, Placed, Homed
<1> QED
  BY <1>1, FirstUnique, CurrentType DEF Placed

\* The slot stays as it is, and is not taken up for reading.
LEMMA BusySame ==
  ASSUME NEW s, Busy(s), conns'[s].fd = conns[s].fd, conns'[s].hdr = conns[s].hdr,
         sock'[conns[s].fd] = sock[conns[s].fd], epi'[conns[s].fd].mask = epi[conns[s].fd].mask,
         \A e \in ready' : e[1] = conns[s].fd => e \in ready \/ e[2] = "out",
         at'.op = "read" /\ at'.slot = s =>
           /\ at' = at /\ UNCHANGED <<got, asked>>
           /\ inbox[sock[conns[s].fd]] = <<>> => inbox'[sock[conns[s].fd]] = <<>>
  PROVE  Busy(s)'
BY DEF Busy, Answered

LEMMA HeldClients ==
  ASSUME Waiting, TypeOK, Held, ClientStep PROVE Held'
<1>1. UNCHANGED <<conns, ready, at, sock, opened, got>>
  BY DEF ClientStep, ClientNext, Connect, Send, Close, HalfClose, Abort, Refused, Drain, Ends,
         loopVars
<1>2. \A f \in Fds : epi'[f].mask = epi[f].mask
  <2>1. \A i \in Items : [i EXCEPT !.edge = TRUE].mask = i.mask
    BY DEF Items
  <2>2. UNCHANGED epi \/ \E c, ms : Wake(c, ms)
    BY DEF ClientStep, ClientNext, Connect, Send, Close, HalfClose, Abort, Refused, Drain, Ends
  <2> QED
    BY <2>1, <2>2, TableTypes DEF Wake
<1>3. ASSUME NEW c \in Clients, ~Answered(c) PROVE inbox'[c] = inbox[c] /\ asked'[c] = asked[c]
  <2>1. CASE UNCHANGED <<inbox, asked>>
    BY <2>1
  <2>2. ASSUME NEW d \in Clients, Send(d)
        PROVE  inbox'[c] = inbox[c] /\ asked'[c] = asked[c]
    <3>1. d # c
      BY <1>3, <2>2 DEF Send, Waiting
    <3>2. PICK q : inbox' = [inbox EXCEPT ![d] = q]
      BY <2>2 DEF Send
    <3>3. asked' = [asked EXCEPT ![d] = asked[d] + 1]
      BY <2>2 DEF Send
    <3> QED
      BY <3>1, <3>2, <3>3, OrderTypes
  <2> QED
    BY <2>1, <2>2 DEF ClientStep, ClientNext, Connect, Close, HalfClose, Abort, Refused, Drain, Ends
<1>4. ASSUME NEW s \in Slots, Busy(s) PROVE Busy(s)'
  <2>1. conns[s].fd \in Fds /\ sock[conns[s].fd] \in Clients
    BY <1>4, BusyTypes
  <2> QED
    BY <1>1, <1>2, <1>3, <1>4, <2>1 DEF Busy, Answered
<1> QED
  BY <1>1, <1>4 DEF Held, NoFileLeak

\* An event to read is not for a registration for writing.
LEMMA HeldWait ==
  ASSUME TypeOK, Numbers, Held, Wait PROVE Held'
<1>1. /\ at.op = "next" /\ ready' = Fired /\ epi' = [f \in Fds |-> Polled(f)]
      /\ UNCHANGED <<conns, sock, opened, at>>
  BY DEF Wait, At
<1>2. ASSUME NEW s \in Slots, Busy(s) PROVE Busy(s)'
  <2> DEFINE f == conns[s].fd
  <2>1. f \in Fds /\ f # 0 /\ epi[f] \in Items /\ epi[f].mask = "out"
    BY <1>2, BusyTypes DEF Busy
  <2>2. epi'[f].mask = "out"
    BY <1>1, <2>1 DEF Polled, Items
  <2>3. ASSUME NEW e \in Fired, e[1] = f PROVE e[2] = "out"
    <3>1. ASSUME NEW g \in Fds, FiresIn(g) PROVE epi[g].tag # f
      <4>1. sock[g] # NULL /\ g # f
        BY <2>1, <3>1 DEF FiresIn, Readable
      <4> QED
        BY <4>1 DEF Numbers, Tagged
    <3> QED
      BY <2>1, <2>3, <3>1 DEF Fired
  <2> HIDE DEF f
  <2> QED
    BY <1>1, <1>2, <2>1, <2>2, <2>3, BusySame DEF f
<1> QED
  BY <1>1, <1>2 DEF Held, NoFileLeak

LEMMA HeldQuiet ==
  ASSUME TypeOK, Held,
         \/ ReadEAGAIN \/ WriteNothing \/ SendNothing \/ BrokenPipe \/ UNCHANGED vars
         \/ \E e \in ready : AcceptFails(e) \/ BeginRead(e) \/ BeginWrite(e)
  PROVE  Held'
<1>1. UNCHANGED <<sockVars, conns>> /\ \A e \in ready' : e \in ready
  BY DEF ReadEAGAIN, WriteNothing, SendNothing, BrokenPipe, AcceptFails, BeginRead, BeginWrite,
         Exit, vars, loopVars
<1>2. ASSUME NEW s \in Slots, Busy(s), at'.op = "read", at'.slot = s PROVE at' = at
  <2>1. CASE UNCHANGED at
    BY <2>1
  <2>2. CASE Done
    BY <1>2, <2>2 DEF Done, Go
  <2>3. ASSUME NEW e \in ready, BeginRead(e) PROVE FALSE
    <3>1. First(s, e[1]) /\ e[2] = "in"
      BY <1>2, <2>3 DEF BeginRead, Go
    <3> QED
      BY <1>2, <3>1 DEF Busy, First
  <2>4. ASSUME NEW e \in ready, BeginWrite(e) PROVE at'.op # "read"
    BY <2>4 DEF BeginWrite, Go, Done
  <2> QED
    BY <1>2, <2>1, <2>2, <2>3, <2>4
       DEF ReadEAGAIN, WriteNothing, SendNothing, BrokenPipe, AcceptFails, Exit, vars, loopVars
<1>3. ASSUME NEW s \in Slots, Busy(s) PROVE Busy(s)'
  BY <1>1, <1>2, <1>3, BusySame DEF sockVars
<1> QED
  BY <1>1, <1>3 DEF Held, NoFileLeak, sockVars

LEMMA HeldOrphan ==
  ASSUME TypeOK, Numbers, Held, NEW e \in ready, Orphan(e) PROVE Held'
<1>1. /\ at.op = "next" /\ NoSlot(e[1]) /\ CloseIn({e[1]}, sock, epi) /\ ready' = ready \ {e}
      /\ e[1] # 0 /\ UNCHANGED <<conns, at>>
  BY DEF Orphan, At, CloseFds
<1>2. ASSUME NEW s \in Slots, Busy(s) PROVE Busy(s)'
  <2>1. conns[s].fd \in Fds /\ conns[s].fd # e[1]
    BY <1>1, <1>2, BusyTypes DEF NoSlot
  <2> QED
    BY <1>1, <1>2, <2>1, BusySame DEF CloseIn
<1>3. NoFileLeak'
  BY <1>1 DEF Held, NoFileLeak, CloseIn
<1> QED
  BY <1>1, <1>2, <1>3 DEF Held

\* A slot without a descriptor has no file to close.
LEMMA HeldAccept ==
  ASSUME TypeOK, Numbers, Held, NEW e \in ready, Accept(e) PROVE Held'
<1>1. at.op = "next" /\ ready' = ready \ {e} /\ UNCHANGED at
  BY DEF Accept, At
<1>2. PICK c \in backlog, f \in Fds, t \in Slots, S \in SUBSET Fds :
        /\ sock[f] = NULL /\ opened[f] = NULL
        /\ CloseIn(S, [sock EXCEPT ![f] = c], [epi EXCEPT ![f] = Item("inout", f)])
        /\ \/ /\ S = FileOf(t) /\ conns[t].fd = 0
              /\ conns' = [conns EXCEPT ![t] = [Reset(conns[t]) EXCEPT !.fd = f]]
           \/ S = {} /\ UNCHANGED conns
  <2>1. \A t \in Slots : FileOf(t) \subseteq Fds
    BY FileIsNoSocket DEF Numbers
  <2> QED
    BY <2>1, Constants DEF Accept, Lowest, FreeFds, FirstFree, First
<1> DEFINE y == [Reset(conns[t]) EXCEPT !.fd = f]
<1>3. y.file = 0
  <2>1. \A x \in SlotRecords : [Reset(x) EXCEPT !.fd = f].file = 0
    BY DEF SlotRecords, Reset
  <2> QED
    BY <2>1, TableTypes
<1> HIDE DEF y
<1>4. /\ conns[t].fd = 0 => conns[t].file = 0
      /\ S = {}
  BY <1>2 DEF Held, Busy, FileOf
<1>5. \A g \in Fds \ {f} : sock'[g] = sock[g] /\ epi'[g] = epi[g]
  BY <1>2, <1>4, TableTypes DEF CloseIn
<1>6. \A g \in Fds : opened'[g] = opened[g]
  BY <1>2, <1>4 DEF CloseIn
<1>7. \/ UNCHANGED conns
      \/ /\ conns[t].file = 0 /\ conns'[t].file = 0
         /\ \A s \in Slots \ {t} : conns'[s] = conns[s]
  BY <1>2, <1>3, <1>4, TableTypes DEF y
<1>8. ASSUME NEW s \in Slots, conns[s].file # 0, conns'[s] = conns[s] PROVE Busy(s)'
  <2>1. Busy(s)
    BY <1>8 DEF Held
  <2>2. conns[s].fd \in Fds \ {f}
    BY <1>2, <2>1, BusyTypes
  <2> QED
    BY <1>1, <1>5, <1>8, <2>1, <2>2, BusySame
<1>9. NoFileLeak'
  BY <1>6, <1>7, Constants DEF Held, NoFileLeak
<1> QED
  BY <1>7, <1>8, <1>9 DEF Held

\* handle_request opens a file for its slot, or none.
LEMMA HandleOpened ==
  ASSUME TypeOK, NEW s \in Slots, NEW r \in Requests, HandleRequest(s, r)
  PROVE  \A g \in Fds : opened'[g] # NULL => opened[g] # NULL \/ conns'[s].file = g
<1> DEFINE x == Header(conns[s], r)
           z(f) == [x EXCEPT !.file = f, !.fleft = Size(x.name), !.sending = TRUE]
<1>1. x \in SlotRecords
  BY HeaderType, TableTypes
<1>2. \A f : z(f).file = f
  BY <1>1 DEF SlotRecords
<1>3. \/ UNCHANGED opened
      \/ \E f \in Fds : /\ conns' = [conns EXCEPT ![s] = z(f)]
                        /\ \E q : opened' = [opened EXCEPT ![f] = q]
  BY DEF HandleRequest
<1> HIDE DEF x, z
<1> QED
  BY <1>2, <1>3, TableTypes

\* A request is read into a slot without a file.
LEMMA HeldRead ==
  ASSUME TypeOK, Placed, Queued, Numbers, Served, Held, ReadSome PROVE Held'
<1> PICK s \in Slots, c \in Clients : s = at.slot /\ c = Client
  BY CurrentType, TableTypes DEF ReadSome, At, Client
<1>1. /\ at.op = "read" /\ Fd \in Fds /\ Fd = conns[s].fd /\ sock[Fd] = c /\ Fd # 0
      /\ UNCHANGED <<sock, asked, got, ready, at>>
  BY CurrentType, Constants DEF ReadSome, At, Client, Fd, Exit, loopVars
<1>2. PICK k \in 1..Len(inbox[c]) :
        /\ inbox' = [inbox EXCEPT ![c] = SubSeq(inbox[c], k + 1, Len(inbox[c]))]
        /\ \/ UNCHANGED <<conns, opened, epi>>
           \/ HandleRequest(s, inbox[c][1]) /\ epi' = [epi EXCEPT ![Fd] = Item("out", Fd)]
  BY DEF ReadSome, Exit
<1>3. inbox \in [Clients -> Seq(Requests)] /\ inbox[c] # <<>>
  BY <1>2, OrderTypes, EmptySeq
<1>4. Len(inbox[c]) = 1 /\ asked[c] = Len(got[c]) + 1
  BY <1>3 DEF Served, Steady
<1>5. inbox[c][1] \in Requests /\ inbox[c][1].client = c /\ inbox[c][1] # NULL
  <2>1. 1 \in 1..Len(inbox[c])
    BY <1>4
  <2> QED
    BY <2>1, OrderTypes, Constants DEF Queued
<1>6. inbox'[c] = <<>>
  <2>1. /\ SubSeq(inbox[c], k + 1, Len(inbox[c])) \in Seq(Requests)
        /\ Len(SubSeq(inbox[c], k + 1, Len(inbox[c]))) = 0
    BY <1>2, <1>3, <1>4, SubSeqProperties
  <2> QED
    BY <1>2, <1>3, <2>1, EmptySeq
<1>7. conns[s].file = 0
  BY <1>1, <1>3 DEF Held, Busy
<1>8. ASSUME NEW t \in Slots \ {s}, conns'[t] = conns[t], conns[t].file # 0 PROVE Busy(t)'
  <2>1. Busy(t) /\ conns[t].fd \in Fds \ {Fd}
    BY <1>1, <1>8, BusyOther, BusyTypes DEF Held
  <2>2. epi'[conns[t].fd] = epi[conns[t].fd]
    BY <1>2, <2>1, TableTypes
  <2> QED
    BY <1>1, <1>8, <2>1, <2>2, BusySame
<1>9. CASE UNCHANGED <<conns, opened, epi>>
  BY <1>7, <1>8, <1>9 DEF Held, NoFileLeak
<1>10. CASE HandleRequest(s, inbox[c][1]) /\ epi' = [epi EXCEPT ![Fd] = Item("out", Fd)]
  <2>1. /\ conns'[s].hdr = inbox[c][1] /\ conns'[s].fd = Fd
        /\ \A t \in Slots \ {s} : conns'[t] = conns[t]
    BY <1>1, <1>5, <1>10, HandleRequestSlot
  <2>2. Busy(s)'
    <3>1. epi'[Fd].mask = "out"
      BY <1>1, <1>10, TableTypes DEF Item
    <3>2. \A e \in ready' : e[1] # Fd
      BY <1>1 DEF Numbers, Live
    <3>3. asked'[c] # Len(got'[c])
      BY <1>1, <1>4, OrderTypes
    <3> QED
      BY <1>1, <1>5, <1>6, <2>1, <3>1, <3>2, <3>3 DEF Busy, Answered
  <2>3. NoFileLeak'
    <3>1. ASSUME NEW g \in Fds, opened[g] # NULL PROVE \E t \in Slots : conns'[t].file = g
      <4>1. PICK t \in Slots : conns[t].file = g
        BY <3>1 DEF Held, NoFileLeak
      <4>2. t # s
        BY <1>7, <4>1, Constants
      <4> QED
        BY <2>1, <4>1, <4>2
    <3> QED
      BY <1>5, <1>10, <3>1, HandleOpened DEF NoFileLeak
  <2> QED
    BY <1>8, <2>1, <2>2, <2>3 DEF Held
<1> QED
  BY <1>2, <1>9, <1>10

\* The slot in hand is reset and its file closed.
LEMMA HeldReset ==
  ASSUME TypeOK, Placed, Numbers, Held, at.op # "next", at'.op = "next", UNCHANGED ready,
         NEW S, NEW ep, CloseIn(S, sock, ep), FileOf(at.slot) \subseteq S,
         S \subseteq {Fd} \cup FileOf(at.slot), \A f \in Fds \ {Fd} : ep[f] = epi[f],
         NEW y, conns' = [conns EXCEPT ![at.slot] = y], y.file = 0
  PROVE  Held'
<1> PICK s \in Slots : s = at.slot
  BY CurrentType
<1>1. conns'[s] = y /\ \A t \in Slots \ {s} : conns'[t] = conns[t]
  BY TableTypes
<1>2. ASSUME NEW t \in Slots \ {s}, conns[t].file # 0 PROVE Busy(t)'
  <2>1. Busy(t) /\ conns[t].fd \in Fds \ {Fd} /\ sock[conns[t].fd] # NULL
    BY <1>2, BusyOther, BusyTypes DEF Held
  <2>2. conns[t].fd \notin S
    BY <2>1, FileIsNoSocket DEF Numbers
  <2>3. sock'[conns[t].fd] = sock[conns[t].fd] /\ epi'[conns[t].fd] = epi[conns[t].fd]
    BY <2>1, <2>2 DEF CloseIn
  <2> QED
    BY <1>1, <2>1, <2>3, BusySame
<1>3. NoFileLeak'
  <2>1. ASSUME NEW g \in Fds, opened'[g] # NULL PROVE \E t \in Slots : conns'[t].file = g
    <3>1. g \notin S /\ opened[g] # NULL
      BY <2>1 DEF CloseIn
    <3>2. PICK t \in Slots : conns[t].file = g
      BY <3>1 DEF Held, NoFileLeak
    <3>3. t # s
      BY <3>1, <3>2, Constants DEF FileOf
    <3> QED
      BY <1>1, <3>2, <3>3
  <2> QED
    BY <2>1 DEF NoFileLeak
<1> QED
  BY <1>1, <1>2, <1>3 DEF Held

LEMMA HeldReadEnd ==
  ASSUME TypeOK, Placed, Numbers, Held, ReadEnd PROVE Held'
<1>1. /\ at.op = "read" /\ at'.op = "next" /\ UNCHANGED ready
      /\ CloseIn({Fd} \cup FileOf(at.slot), sock, epi)
      /\ conns' = [conns EXCEPT ![at.slot] = Reset(conns[at.slot])]
  BY DEF ReadEnd, At, Done, Go, CloseFds
<1>2. Reset(conns[at.slot]).file = 0
  BY CurrentType DEF Reset, SlotRecords
<1> QED
  BY <1>1, <1>2, HeldReset

\* A slot that has written some of its answer keeps its file.
LEMMA HeldOn ==
  ASSUME TypeOK, Held, UNCHANGED <<ready, sock, epi, opened>>, at'.op # "read",
         NEW s \in Slots, NEW y, conns' = [conns EXCEPT ![s] = y],
         y.file = conns[s].file, y.fd = conns[s].fd, y.hdr = conns[s].hdr
  PROVE  Held'
<1>1. \A t \in Slots : /\ conns'[t].file = conns[t].file /\ conns'[t].fd = conns[t].fd
                       /\ conns'[t].hdr = conns[t].hdr
  BY TableTypes
<1>2. ASSUME NEW t \in Slots, Busy(t) PROVE Busy(t)'
  BY <1>1, <1>2, BusySame
<1> QED
  BY <1>1, <1>2 DEF Held, NoFileLeak

LEMMA HeldWrite ==
  ASSUME TypeOK, Held, Write PROVE Held'
<1> PICK s \in Slots : s = at.slot
  BY CurrentType
<1> DEFINE x == conns[s]
           y(k) == [x EXCEPT !.left = x.left - k, !.sent = (k = x.left)]
<1>1. PICK k \in 1..x.left : conns' = [conns EXCEPT ![s] = y(k)]
  BY DEF Write
<1>2. UNCHANGED <<ready, sock, epi, opened>> /\ at'.op # "read"
  BY DEF Write, AfterHeader, Done, Go
<1>3. y(k).file = x.file /\ y(k).fd = x.fd /\ y(k).hdr = x.hdr
  BY CurrentType DEF SlotRecords
<1> HIDE DEF y
<1> QED
  BY <1>1, <1>2, <1>3, HeldOn

LEMMA HeldSendFile ==
  ASSUME TypeOK, Placed, Numbers, Held, SendFile PROVE Held'
<1> PICK s \in Slots : s = at.slot
  BY CurrentType
<1> DEFINE x == conns[s]
           y(k) == [x EXCEPT !.fleft = x.fleft - k]
           z == [Reset(x) EXCEPT !.fleft = 0]
           ep == [epi EXCEPT ![Fd] = Item("once", Fd)]
<1>1. at.op = "file" /\ at'.op = "next" /\ UNCHANGED ready
  BY DEF SendFile, At, Done, Go
<1>2. PICK k \in 1..x.fleft :
        \/ conns' = [conns EXCEPT ![s] = y(k)] /\ UNCHANGED <<sock, opened, epi>>
        \/ conns' = [conns EXCEPT ![s] = z] /\ CloseIn(FileOf(s), sock, ep)
  BY DEF SendFile
<1>3. y(k).file = x.file /\ y(k).fd = x.fd /\ y(k).hdr = x.hdr /\ z.file = 0
  BY CurrentType DEF SlotRecords, Reset
<1>4. \A f \in Fds \ {Fd} : ep[f] = epi[f]
  BY TableTypes
<1> HIDE DEF y, z, ep
<1>5. CASE conns' = [conns EXCEPT ![s] = y(k)] /\ UNCHANGED <<sock, opened, epi>>
  BY <1>1, <1>3, <1>5, HeldOn
<1>6. CASE conns' = [conns EXCEPT ![s] = z] /\ CloseIn(FileOf(s), sock, ep)
  BY <1>1, <1>3, <1>4, <1>6, HeldReset
<1> QED
  BY <1>2, <1>5, <1>6

LEMMA HeldStep == Waiting /\ HeldInv /\ [Next]_vars => HeldInv'
<1> SUFFICES ASSUME Waiting, HeldInv, [Next]_vars PROVE HeldInv'
  OBVIOUS
<1>1. /\ ServedInv /\ Served /\ Held /\ TypeOK /\ Placed /\ Queued /\ Numbers
  BY DEF HeldInv, ServedInv, NumbersInv, OrderInv, Ordered
<1>2. ServedInv'
  BY <1>1, ServedStep
<1>3. Held'
  BY <1>1, NothingFails, HeldClients, HeldWait, HeldQuiet, HeldOrphan, HeldAccept, HeldRead,
     HeldReadEnd, HeldWrite, HeldSendFile
     DEF Next, ServerNext, Handle, Reading, Writing, Sending
<1> QED
  BY <1>2, <1>3 DEF HeldInv

\* Every file that is open is the file_fd of some slot, with the same assumptions: no request
\* is read while its slot has a file, so that open does not overwrite file_fd and forget one.
THEOREM LeakCorrect == Waiting /\ Spec => []NoFileLeak
<1>1. CASE Waiting
  <2>1. Init => HeldInv
    <3> SUFFICES ASSUME Init PROVE HeldInv
      OBVIOUS
    <3>1. ServedInv
      BY OrderInit, NumbersInit, ServedInit DEF ServedInv, NumbersInv
    <3>2. /\ \A s \in Slots : conns[s].file = 0
          /\ \A f \in Fds : opened[f] = NULL
      BY DEF Init, SocketsInit, EmptySlot
    <3> QED
      BY <3>1, <3>2 DEF HeldInv, Held, NoFileLeak
  <2>2. HeldInv /\ [Next]_vars => HeldInv'
    BY <1>1, HeldStep
  <2>3. HeldInv => NoFileLeak
    BY DEF HeldInv, Held
  <2> QED
    BY <2>1, <2>2, <2>3, PTL DEF Spec
<1> QED
  BY <1>1

(***************************************************************************)
(* The refinement.                                                         *)
(***************************************************************************)
\* What the mapping makes of the answers q.
Replies(q) == [i \in 1..Len(q) |-> <<q[i].client, q[i].n>>]

LEMMA RepliesSeq ==
  ASSUME NEW P, NEW n \in Nat, NEW q, q = [i \in 1..n |-> q[i]], \A i \in 1..n : q[i] \in P
  PROVE  q \in Seq(P) /\ Len(q) = n
<1>1. q \in Seq(P)
  OBVIOUS
<1>2. DOMAIN q = 1..Len(q) /\ Len(q) \in Nat /\ DOMAIN q = 1..n
  BY <1>1, LenProperties
<1> QED
  BY <1>1, <1>2

LEMMA RepliesAppend ==
  ASSUME NEW q \in Seq(Requests), NEW r \in Requests
  PROVE  /\ Len(Replies(q)) = Len(q)
         /\ Replies(Append(q, r)) = Append(Replies(q), <<r.client, r.n>>)
<1> DEFINE P == Clients \X Nat
           a == Replies(Append(q, r))
           b == Append(Replies(q), <<r.client, r.n>>)
<1>1. \A x \in Requests : <<x.client, x.n>> \in P
  BY Constants DEF Requests
<1>2. ASSUME NEW t \in Seq(Requests) PROVE Replies(t) \in Seq(P) /\ Len(Replies(t)) = Len(t)
  <2>1. Len(t) \in Nat /\ \A i \in 1..Len(t) : t[i] \in Requests
    BY LenProperties, ElementOfSeq
  <2>2. \A i \in 1..Len(t) : Replies(t)[i] \in P
    BY <1>1, <2>1 DEF Replies
  <2>3. Replies(t) = [i \in 1..Len(t) |-> Replies(t)[i]]
    BY DEF Replies
  <2> QED
    BY <2>1, <2>2, <2>3, RepliesSeq
<1>3. /\ Append(q, r) \in Seq(Requests) /\ Len(q) \in Nat
      /\ Len(Append(q, r)) = Len(q) + 1 /\ Append(q, r)[Len(q) + 1] = r
      /\ \A i \in 1..Len(q) : Append(q, r)[i] = q[i]
  BY Appended
<1>4. a \in Seq(P) /\ Len(a) = Len(q) + 1
  BY <1>2, <1>3
<1>5. /\ b \in Seq(P) /\ Len(b) = Len(q) + 1 /\ b[Len(q) + 1] = <<r.client, r.n>>
      /\ \A i \in 1..Len(q) : b[i] = Replies(q)[i]
  BY <1>1, <1>2, AppendProperties
<1>6. \A i \in 1..Len(q) + 1 : a[i] = b[i]
  BY <1>3, <1>5 DEF Replies
<1> HIDE DEF a, b
<1>7. a = b
  BY <1>4, <1>5, <1>6, SeqEqual
<1> QED
  BY <1>2, <1>7 DEF a, b

\* The server's steps answer the next request of a client, or show nothing to any.
LEMMA ReplyOrNone ==
  ASSUME ServedInv, ServerNext
  PROVE  /\ UNCHANGED asked
         /\ \/ UNCHANGED got
            \/ \E s \in Slots : Mine(s) /\ Receive(conns[s].hdr.client, conns[s].hdr)
<1>1. TypeOK /\ Spent /\ Served
  BY DEF ServedInv, NumbersInv, OrderInv
<1>2. CASE Write \/ SendFile
  <2>1. UNCHANGED asked /\ (UNCHANGED got \/ Receive(Client, conns[at.slot].hdr))
    BY <1>2 DEF Write, SendFile
  <2>2. /\ Mine(at.slot) /\ Client = conns[at.slot].hdr.client /\ at.slot \in Slots
    BY <1>1, <1>2, BusyHand, CurrentType
  <2> QED
    BY <2>1, <2>2
<1>3. CASE ~Write /\ ~SendFile
  BY <1>3 DEF ServerNext, Wait, Handle, Accept, AcceptFails, Orphan, BeginRead, BeginWrite,
              Reading, ReadSome, ReadEAGAIN, ReadEnd, Writing, WriteNothing, WriteFails, Sending,
              SendNothing, SendEAGAIN, SendFails, BrokenPipe, Exit, sockVars
<1> QED
  BY <1>2, <1>3

LEMMA ExchangeStep ==
  ASSUME Waiting, ServedInv, [Next]_vars
  PROVE  [Ex!Next]_<<asked, [c \in Clients |-> Replies(got[c])]>>
<1> DEFINE replies == [c \in Clients |-> Replies(got[c])]
<1>1. TypeOK /\ got \in [Clients -> Seq(Requests)] /\ asked \in [Clients -> Nat]
  BY OrderTypes DEF ServedInv, NumbersInv, OrderInv
<1>2. CASE UNCHANGED <<asked, got>>
  BY <1>2
<1>3. ASSUME NEW c \in Clients, Send(c) PROVE Ex!Next
  <2>1. /\ asked[c] < MaxReq /\ asked' = [asked EXCEPT ![c] = asked[c] + 1]
        /\ UNCHANGED got
    BY <1>3 DEF Send
  <2>2. Ex!Ask(c)
    BY <2>1 DEF Ex!Ask
  <2> QED
    BY <2>2 DEF Ex!Next
<1>4. ASSUME NEW s \in Slots, Mine(s), Receive(conns[s].hdr.client, conns[s].hdr), UNCHANGED asked
      PROVE  Ex!Next
  <2>1. conns[s].hdr \in Requests /\ conns[s].hdr.client \in Clients
    BY <1>1, <1>4, OrderTypes DEF Mine
  <2> PICK r \in Requests, c \in Clients : r = conns[s].hdr /\ c = r.client
    BY <2>1
  <2>2. r.n = Len(got[c]) + 1 /\ asked[c] = r.n /\ Len(got[c]) \in Nat
    BY <1>1, <1>4, OrderTypes DEF Mine
  <2>3. got' = [got EXCEPT ![c] = Append(got[c], r)]
    BY <1>4 DEF Receive
  <2>4. /\ Len(replies[c]) = Len(got[c])
        /\ Replies(Append(got[c], r)) = Append(replies[c], <<c, Len(replies[c]) + 1>>)
    BY <1>1, <2>2, RepliesAppend
  <2>5. replies' = [replies EXCEPT ![c] = Append(replies[c], <<c, Len(replies[c]) + 1>>)]
    BY <1>1, <2>3, <2>4
  <2>6. Len(replies[c]) < asked[c]
    <3>1. Len(replies[c]) = Len(got[c])
      BY <2>4
    <3>2. Len(got[c]) < asked[c]
      BY <2>2
    <3> QED
      BY <3>1, <3>2
  <2>7. Ex!Reply(c)
    BY <1>4, <2>5, <2>6, Zenon DEF Ex!Reply, Replies
  <2> QED
    BY <2>7 DEF Ex!Next
<1>5. CASE ClientStep
  <2>1. UNCHANGED <<asked, got>> \/ \E c \in Clients : Send(c)
    BY <1>5 DEF ClientStep, ClientNext, Connect, Close, HalfClose, Abort, Refused, Drain, Ends
  <2> QED
    BY <1>2, <1>3, <2>1
<1>6. CASE ServerNext
  BY <1>2, <1>4, <1>6, ReplyOrNone
<1>7. CASE UNCHANGED vars
  BY <1>2, <1>7 DEF vars, sockVars
<1> QED
  BY <1>5, <1>6, <1>7 DEF Next

\* The loop implements the exchange: each client gets the answers to its own requests,
\* one by one and in order, whatever slots and descriptors they pass through.
THEOREM ExchangeImplemented == Waiting /\ Spec => ImplementsExchange
<1>1. CASE Waiting
  <2>1. Init => Ex!Init
    <3> SUFFICES ASSUME Init PROVE Ex!Init
      OBVIOUS
    <3>1. \A c \in Clients : Len(got[c]) = 0 /\ asked = [d \in Clients |-> 0]
      BY EmptySeq DEF Init, SocketsInit
    <3> QED
      BY <3>1 DEF Ex!Init, Init, SocketsInit
  <2>2. ServedInv /\ [Next]_vars => [Ex!Next]_(Ex!exchangeVars)
    BY <1>1, ExchangeStep DEF Ex!exchangeVars, Replies
  <2> QED
    BY <1>1, <2>1, <2>2, ServedAlways, PTL DEF Spec, ImplementsExchange, Ex!Spec
<1> QED
  BY <1>1

=============================================================================
