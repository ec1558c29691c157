--------------------------- MODULE EventLoopProofs ---------------------------
(***************************************************************************)
(* Theorems about EventLoop, for every number of clients, slots and        *)
(* descriptors.                                                            *)
(***************************************************************************)
EXTENDS EventLoop, SequenceTheorems, TLAPS

(***************************************************************************)
(* Types.                                                                  *)
(***************************************************************************)
\* The constants: 0 is neither a slot nor a descriptor.
LEMMA Constants ==
  /\ NFds \in Nat \ {0} /\ NSlots \in Nat \ {0} /\ HeaderLen \in Nat \ {0}
  /\ FileLen \in Nat \ {0} /\ MaxReq \in Nat
  /\ 0 \notin Fds /\ 0 \notin Slots /\ 1 \in Slots
  /\ Fds \subseteq Nat /\ Slots \subseteq Nat
  /\ NULL \notin Clients /\ NULL \notin Requests
BY SizesAssumption, TableAssumption, NullAssumption DEF Fds, Slots

\* Closing descriptors keeps the types.
LEMMA CloseInType ==
  ASSUME SocketsTypeOK, NEW S,
         NEW so \in [Fds -> Clients \cup {NULL}], NEW ep \in [Fds -> Items],
         CloseIn(S, so, ep)
  PROVE  /\ sock' \in [Fds -> Clients \cup {NULL}]
         /\ opened' \in [Fds -> Requests \cup {NULL}]
         /\ epi' \in [Fds -> Items]
         /\ inbox' \in [Clients -> Seq(Requests)]
BY DEF CloseIn, SocketsTypeOK, NoItem, Items, Masks

\* The fields of a slot.
LEMMA SlotFields ==
  ASSUME NEW x \in SlotRecords
  PROVE  /\ x.fd \in Fds \cup {0}
         /\ x.hdr \in Requests \cup {NULL} /\ x.left \in 0..HeaderLen
         /\ x.sent \in BOOLEAN /\ x.name \in Kinds \cup {""}
         /\ x.file \in Fds \cup {0} /\ x.fleft \in 0..FileLen /\ x.sending \in BOOLEAN
BY DEF SlotRecords

\* What is left of n after k of it.
LEMMA Remainder ==
  ASSUME NEW max \in Nat, NEW n \in 0..max, NEW k \in 1..n
  PROVE  n - k \in 0..max
OBVIOUS

\* Receiving a request's answer keeps the type of got.
LEMMA ReceiveType ==
  ASSUME SocketsTypeOK, NEW c \in Clients, NEW r \in Requests,
         Receive(c, r) \/ UNCHANGED got
  PROVE  got' \in [Clients -> Seq(Requests)]
<1>1. Append(got[c], r) \in Seq(Requests)
  BY AppendProperties DEF SocketsTypeOK
<1> QED
  BY <1>1 DEF SocketsTypeOK, Receive

LEMMA ResetType ==
  ASSUME NEW x \in SlotRecords PROVE Reset(x) \in SlotRecords
BY DEF SlotRecords, Reset

LEMMA ResetFields ==
  ASSUME NEW x \in SlotRecords
  PROVE  /\ Reset(x).hdr = x.hdr /\ Reset(x).left = x.left /\ ~Reset(x).sending
         /\ Reset(x).fd = x.fd /\ ~Reset(x).sent
BY DEF Reset, SlotRecords

LEMMA HeaderType ==
  ASSUME NEW x \in SlotRecords, NEW r \in Requests
  PROVE  /\ Header(x, r) \in SlotRecords
         /\ Header(x, r).name \in Kinds \cup {""}
<1> DEFINE name == IF r.kind \in Named THEN r.kind
                   ELSE IF r.kind = "head" THEN "" ELSE x.name
           left == IF r.kind = "none" THEN 0 ELSE HeaderLen
<1>1. r.kind \in Kinds /\ x.name \in Kinds \cup {""}
  BY DEF Requests, SlotRecords
<1>2. name \in Kinds \cup {""}
  BY <1>1
<1>3. left \in 0..HeaderLen
  BY Constants
<1>4. Header(x, r) = [x EXCEPT !.hdr = r, !.left = left, !.sent = FALSE, !.name = name]
  BY DEF Header
<1> HIDE DEF name, left
<1>5. Header(x, r).name = name
  BY <1>4 DEF SlotRecords
<1>6. r \in Requests \cup {NULL} /\ FALSE \in BOOLEAN
  OBVIOUS
<1>7. Header(x, r) \in SlotRecords
  BY <1>2, <1>3, <1>4, <1>6 DEF SlotRecords
<1> QED
  BY <1>2, <1>5, <1>7

LEMMA ItemType ==
  ASSUME NEW m \in Masks, NEW t \in Fds \cup {0} PROVE Item(m, t) \in Items
BY DEF Item, Items

LEMMA WakeType ==
  ASSUME SocketsTypeOK, NEW c, NEW ms, Wake(c, ms) PROVE epi' \in [Fds -> Items]
<1>1. \A i \in Items : [i EXCEPT !.edge = TRUE] \in Items
  BY DEF Items
<1>2. \A f \in Fds : epi[f] \in Items
  BY DEF SocketsTypeOK
<1> QED
  BY <1>1, <1>2 DEF Wake

\* What the current slot is, in a typed state.
LEMMA CurrentType ==
  ASSUME TypeOK
  PROVE  /\ at.slot \in Slots /\ conns[at.slot] \in SlotRecords
         /\ Fd \in Fds \cup {0} /\ FileOf(at.slot) \subseteq Fds
         /\ at.op # "next" => Fd \in Fds
<1>1. at.slot \in Slots /\ conns[at.slot] \in SlotRecords
  BY DEF TypeOK, Types, Places
<1>2. conns[at.slot].fd \in Fds \cup {0} /\ conns[at.slot].file \in Fds \cup {0}
  BY <1>1 DEF SlotRecords
<1> QED
  BY <1>1, <1>2 DEF Fd, FileOf, TypeOK, Types, Serving

LEMMA HandleRequestType ==
  ASSUME TypeOK, NEW s \in Slots, NEW r \in Requests, HandleRequest(s, r)
  PROVE  /\ conns' \in [Slots -> SlotRecords]
         /\ opened' \in [Fds -> Requests \cup {NULL}]
         /\ conns'[s].fd = conns[s].fd
<1> DEFINE x == Header(conns[s], r)
<1>1. x \in SlotRecords /\ x.name \in Kinds \cup {""}
  BY HeaderType DEF TypeOK, Types
<1> x.fd = conns[s].fd
  BY DEF Header, TypeOK, Types, SlotRecords
<1>2. CASE x.name = "" /\ conns' = [conns EXCEPT ![s] = x] /\ UNCHANGED opened
  BY <1>1, <1>2 DEF TypeOK, Types, SocketsTypeOK
<1>3. CASE /\ conns' = [conns EXCEPT ![s] = [x EXCEPT !.file = 0, !.sending = FALSE]]
           /\ UNCHANGED opened
  <2>1. [x EXCEPT !.file = 0, !.sending = FALSE] \in SlotRecords
    BY <1>1 DEF SlotRecords
  <2> QED
    BY <1>1, <2>1, <1>3 DEF TypeOK, Types, SocketsTypeOK, SlotRecords
<1>4. ASSUME x.name \notin {"", "missing"}, NEW f \in Fds,
             conns' = [conns EXCEPT ![s] =
               [x EXCEPT !.file = f, !.fleft = Size(x.name), !.sending = TRUE]],
             opened' = [opened EXCEPT ![f] = [r EXCEPT !.kind = x.name]]
      PROVE  /\ conns' \in [Slots -> SlotRecords]
             /\ opened' \in [Fds -> Requests \cup {NULL}]
             /\ conns'[s].fd = x.fd
  <2>1. Size(x.name) \in 0..FileLen
    BY Constants DEF Size
  <2>2. [x EXCEPT !.file = f, !.fleft = Size(x.name), !.sending = TRUE] \in SlotRecords
    BY <1>1, <2>1 DEF SlotRecords
  <2>3. [r EXCEPT !.kind = x.name] \in Requests
    BY <1>1, <1>4 DEF Requests
  <2> QED
    BY <1>1, <2>2, <2>3, <1>4 DEF TypeOK, Types, SocketsTypeOK, SlotRecords
<1> HIDE DEF x
<1> QED
  BY <1>2, <1>3, <1>4 DEF HandleRequest, x

LEMMA BufferedType ==
  ASSUME SocketsTypeOK, NEW c, NEW k, NEW n, NEW last, Buffered(c, k, n, last)
  PROVE  full' \in [Clients -> BOOLEAN] /\ peer' \in [Clients -> Peers]
BY DEF SocketsTypeOK, Buffered, Peers

LEMMA InitType == Init => TypeOK
<1> SUFFICES ASSUME Init PROVE TypeOK
  OBVIOUS
<1>1. NoItem \in Items
  BY DEF NoItem, Items, Masks
<1>2. <<>> \in Seq(Requests) /\ 0 \in 0..MaxReq /\ "idle" \in Peers
  BY Constants, EmptySeq DEF Peers
<1>3. SocketsTypeOK
  BY <1>1, <1>2 DEF Init, SocketsInit, SocketsTypeOK
<1>4. EmptySlot \in SlotRecords
  BY Constants DEF EmptySlot, SlotRecords
<1>5. at \in Places /\ at.op = "next"
  BY Constants DEF Init, Places
<1> QED
  BY <1>3, <1>4, <1>5 DEF Init, EmptySlot, TypeOK, Types, Serving, Prepared

\* The steps of the clients.
LEMMA ClientStepType == TypeOK /\ ClientStep => Types'
<1> SUFFICES ASSUME TypeOK, ClientStep PROVE Types'
  OBVIOUS
<1>0. UNCHANGED <<conns, ready, at, evfd, up>>
  BY DEF ClientStep, loopVars
<1>1. SocketsTypeOK
  BY DEF TypeOK, Types
<1>2. ASSUME NEW c \in Clients, NEW p \in Peers, Ends(c, p) PROVE SocketsTypeOK'
  <2>1. epi' \in [Fds -> Items]
    BY <1>1, <1>2, WakeType DEF Ends
  <2> QED
    BY <1>1, <1>2, <2>1 DEF Ends, SocketsTypeOK
<1>3. ASSUME NEW c \in Clients, Connect(c) PROVE SocketsTypeOK'
  BY <1>1, <1>3 DEF Connect, SocketsTypeOK, Peers
<1>4. ASSUME NEW c \in Clients, Send(c) PROVE SocketsTypeOK'
  <2>1. epi' \in [Fds -> Items]
    BY <1>1, <1>4, WakeType DEF Send
  <2>2. PICK kind \in Kinds :
          inbox' = [inbox EXCEPT ![c] =
                      Append(inbox[c], [client |-> c, n |-> asked[c] + 1, kind |-> kind])]
    BY <1>4 DEF Send
  <2>3. asked[c] + 1 \in 1..MaxReq
    BY <1>1, <1>4, Constants DEF Send, SocketsTypeOK
  <2>4. [client |-> c, n |-> asked[c] + 1, kind |-> kind] \in Requests
    BY <2>3 DEF Requests
  <2>5. inbox' \in [Clients -> Seq(Requests)]
    BY <1>1, <2>2, <2>4, AppendProperties DEF SocketsTypeOK
  <2>6. asked' \in [Clients -> 0..MaxReq]
    BY <1>1, <1>4, <2>3, Constants DEF Send, SocketsTypeOK
  <2> QED
    BY <1>1, <1>4, <2>1, <2>5, <2>6 DEF Send, SocketsTypeOK
<1>5. ASSUME NEW c \in Clients, Drain(c) PROVE SocketsTypeOK'
  <2>1. epi' \in [Fds -> Items]
    BY <1>1, <1>5, WakeType DEF Drain
  <2> QED
    BY <1>1, <1>5, <2>1 DEF Drain, SocketsTypeOK
<1>6. SocketsTypeOK'
  BY <1>2, <1>3, <1>4, <1>5 DEF ClientStep, ClientNext, Close, HalfClose, Abort, Refused,
                                Peers
<1> QED
  BY <1>0, <1>6 DEF TypeOK, Types

\* The steps of the loop between two calls.
LEMMA DispatchType ==
  ASSUME TypeOK,
         \/ Wait \/ \E e \in ready : Accept(e) \/ AcceptFails(e) \/ Orphan(e)
                                     \/ BeginRead(e) \/ BeginWrite(e)
  PROVE  Types'
<1> USE DEF TypeOK, Types
<1>0. SocketsTypeOK /\ (\A s \in Slots : Reset(conns[s]) \in SlotRecords)
  BY ResetType
<1>1. CASE Wait
  <2>1. \A f \in Fds : Polled(f) \in Items
    BY <1>0 DEF Polled, SocketsTypeOK, Items, Masks
  <2>2. \A f \in Fds : epi[f].tag \in Fds \cup {0}
    BY <1>0 DEF SocketsTypeOK, Items
  <2>3. Fired \subseteq Events
    BY <2>2 DEF Fired, Events
  <2> QED
    BY <1>0, <1>1, <2>1, <2>3 DEF Wait, SocketsTypeOK
<1>2. ASSUME NEW e \in ready, Accept(e) PROVE Types'
  <2> PICK c \in backlog, f \in Fds :
        /\ LET so == [sock EXCEPT ![f] = c]
               ep == [epi EXCEPT ![f] = Item("inout", f)]
           IN \/ \E s \in Slots :
                   /\ FirstFree(s)
                   /\ conns' = [conns EXCEPT ![s] =
                                  [Reset(conns[s]) EXCEPT !.fd = f]]
                   /\ CloseIn(FileOf(s), so, ep)
              \/ NoSlot(0) /\ CloseIn({}, so, ep) /\ UNCHANGED conns
        /\ backlog' = backlog \ {c} /\ evfd' = f
    BY <1>2 DEF Accept
  <2> DEFINE so == [sock EXCEPT ![f] = c]
             ep == [epi EXCEPT ![f] = Item("inout", f)]
  <2>1. c \in Clients /\ so \in [Fds -> Clients \cup {NULL}]
    BY <1>0 DEF SocketsTypeOK
  <2>2. Item("inout", f) \in Items
    BY ItemType DEF Masks
  <2>3. ep \in [Fds -> Items]
    BY <1>0, <2>2 DEF SocketsTypeOK
  <2>4. PICK S : CloseIn(S, so, ep)
    OBVIOUS
  <2> HIDE DEF so, ep
  <2>5. /\ sock' \in [Fds -> Clients \cup {NULL}]
        /\ opened' \in [Fds -> Requests \cup {NULL}]
        /\ epi' \in [Fds -> Items]
        /\ inbox' \in [Clients -> Seq(Requests)]
    BY <1>0, <2>1, <2>3, <2>4, CloseInType
  <2>6. ASSUME NEW s \in Slots PROVE [Reset(conns[s]) EXCEPT !.fd = f] \in SlotRecords
    BY <1>0, <2>1 DEF SlotRecords
  <2>7. conns' \in [Slots -> SlotRecords]
    BY <2>6
  <2> QED
    BY <1>0, <1>2, <2>1, <2>5, <2>7 DEF Accept, SocketsTypeOK
<1>3. ASSUME NEW e \in ready, AcceptFails(e) PROVE Types'
  BY <1>3 DEF AcceptFails, Exit, sockVars, loopVars, SocketsTypeOK
<1>4. ASSUME NEW e \in ready, Orphan(e) PROVE Types'
  <2>1. /\ sock' \in [Fds -> Clients \cup {NULL}]
        /\ opened' \in [Fds -> Requests \cup {NULL}]
        /\ epi' \in [Fds -> Items]
        /\ inbox' \in [Clients -> Seq(Requests)]
    BY <1>0, <1>4, CloseInType DEF Orphan, CloseFds, SocketsTypeOK
  <2> QED
    BY <1>0, <1>4, <2>1 DEF Orphan, SocketsTypeOK
<1>5. ASSUME NEW e \in ready, BeginRead(e) PROVE Types'
  BY <1>5 DEF BeginRead, Go, Places, sockVars, SocketsTypeOK
<1>6. ASSUME NEW e \in ready, BeginWrite(e) PROVE Types'
  <2>1. at' \in Places
    BY <1>6, Constants DEF BeginWrite, Go, Done, Places
  <2> QED
    BY <1>6, <2>1 DEF BeginWrite, sockVars, SocketsTypeOK
<1> QED
  BY <1>1, <1>2, <1>3, <1>4, <1>5, <1>6

LEMMA ReadingType == TypeOK /\ Reading => Types'
<1> SUFFICES ASSUME TypeOK, Reading PROVE Types'
  OBVIOUS
<1>0. SocketsTypeOK /\ at.slot \in Slots /\ Done => at' \in Places
  BY Constants DEF Done, Go, Places
<1>1. CASE ReadSome
  <2>1. Client \in Clients /\ Fd \in Fds
    BY <1>1, CurrentType DEF ReadSome, At, Client, TypeOK, Types, SocketsTypeOK
  <2> PICK k \in 1..Len(inbox[Client]) :
        LET r == inbox[Client][1] IN
        /\ inbox' = [inbox EXCEPT ![Client] =
                       SubSeq(inbox[Client], k + 1, Len(inbox[Client]))]
        /\ \/ Unparsed(r) /\ Exit /\ UNCHANGED <<epi, opened>>
           \/ /\ ~Unparsed(r)
              /\ HandleRequest(at.slot, r)
              /\ epi' = [epi EXCEPT ![Fd] = Item("out", Fd)]
              /\ UNCHANGED <<ready, at, evfd, up>>
    BY <1>1 DEF ReadSome
  <2> DEFINE q == inbox[Client]
  <2>2. q \in Seq(Requests) /\ Len(q) \in Nat /\ 1 <= Len(q)
    BY <2>1, LenProperties DEF TypeOK, Types, SocketsTypeOK
  <2>3. q[1] \in Requests
    BY <2>2, ElementOfSeq
  <2>4. SubSeq(q, k + 1, Len(q)) \in Seq(Requests)
    BY <2>2, SubSeqProperties
  <2>5. inbox' \in [Clients -> Seq(Requests)]
    BY <2>1, <2>4 DEF TypeOK, Types, SocketsTypeOK
  <2>6. CASE Unparsed(q[1]) /\ Exit /\ UNCHANGED <<epi, opened>>
    BY <1>1, <2>5, <2>6 DEF ReadSome, Exit, loopVars, TypeOK, Types, SocketsTypeOK
  <2>7. CASE /\ HandleRequest(at.slot, q[1])
             /\ epi' = [epi EXCEPT ![Fd] = Item("out", Fd)]
             /\ UNCHANGED <<ready, at, evfd, up>>
    <3>1. conns' \in [Slots -> SlotRecords] /\ opened' \in [Fds -> Requests \cup {NULL}]
      BY <2>3, <2>7, CurrentType, HandleRequestType
    <3>2. epi' \in [Fds -> Items]
      BY <2>7, <2>1, ItemType DEF TypeOK, Types, SocketsTypeOK, Masks
    <3> QED
      BY <1>1, <2>5, <2>7, <3>1, <3>2 DEF ReadSome, TypeOK, Types, SocketsTypeOK
  <2> QED
    BY <2>6, <2>7
<1>2. CASE ReadEAGAIN
  BY <1>2, <1>0, CurrentType DEF ReadEAGAIN, TypeOK, Types, SocketsTypeOK, sockVars
<1>3. CASE ReadEnd
  <2>1. /\ sock' \in [Fds -> Clients \cup {NULL}]
        /\ opened' \in [Fds -> Requests \cup {NULL}]
        /\ epi' \in [Fds -> Items]
        /\ inbox' \in [Clients -> Seq(Requests)]
    BY <1>3, CloseInType DEF ReadEnd, CloseFds, TypeOK, Types, SocketsTypeOK
  <2>2. conns' \in [Slots -> SlotRecords]
    BY <1>3, CurrentType, ResetType DEF ReadEnd, TypeOK, Types
  <2> QED
    BY <1>3, <1>0, <2>1, <2>2, CurrentType DEF ReadEnd, TypeOK, Types, SocketsTypeOK
<1> QED
  BY <1>1, <1>2, <1>3 DEF Reading

LEMMA WritingType == TypeOK /\ Writing => Types'
<1> SUFFICES ASSUME TypeOK, Writing PROVE Types'
  OBVIOUS
<1>0. /\ SocketsTypeOK /\ at.slot \in Slots /\ conns[at.slot] \in SlotRecords
      /\ Done => at' \in Places
  BY CurrentType, Constants DEF Done, Go, Places, TypeOK, Types
<1>1. CASE Write
  <2> DEFINE x == conns[at.slot]
             y(k) == [x EXCEPT !.left = x.left - k, !.sent = (k = x.left)]
  <2>1. Client \in Clients /\ Fd \in Fds
    BY <1>1, CurrentType DEF Write, At, Client, TypeOK, Types, SocketsTypeOK
  <2> PICK k \in 1..x.left :
        /\ Buffered(Client, k, x.left, ~x.sending)
        /\ conns' = [conns EXCEPT ![at.slot] = y(k)]
        /\ AfterHeader(at.slot, x.sending) \/ Done
        /\ Receive(Client, x.hdr) \/ UNCHANGED got
    BY <1>1 DEF Write
  <2>2. full' \in [Clients -> BOOLEAN] /\ peer' \in [Clients -> Peers]
    BY <1>0, BufferedType
  <2> x.hdr \in Requests \cup {NULL} /\ x.left \in 0..HeaderLen
    BY <1>0, SlotFields
  <2>3. x.left - k \in 0..HeaderLen
    BY Constants, Remainder
  <2>4. y(k) \in SlotRecords
    BY <1>0, <2>3 DEF SlotRecords
  <2>5. conns' \in [Slots -> SlotRecords]
    BY <2>4, <1>0 DEF TypeOK, Types
  <2>7. at' \in Places
    BY <1>0 DEF AfterHeader, Go, Places
  <2>8. x.hdr \in Requests
    <3>1. x.left # 0
      OBVIOUS
    <3> QED
      BY <1>0, <3>1 DEF TypeOK, Prepared
  <2>9. got' \in [Clients -> Seq(Requests)]
    BY <1>0, <2>1, <2>8, ReceiveType
  <2> QED
    BY <1>0, <1>1, <2>2, <2>5, <2>7, <2>9 DEF Write, TypeOK, Types, SocketsTypeOK
<1>2. CASE WriteNothing
  BY <1>2, <1>0 DEF WriteNothing, TypeOK, Types, SocketsTypeOK, sockVars
<1>3. CASE WriteFails
  <2>1. /\ sock' \in [Fds -> Clients \cup {NULL}]
        /\ opened' \in [Fds -> Requests \cup {NULL}]
        /\ epi' \in [Fds -> Items]
        /\ inbox' \in [Clients -> Seq(Requests)]
    BY <1>3, CloseInType DEF WriteFails, CloseFds, TypeOK, Types, SocketsTypeOK
  <2>2. [conns[at.slot] EXCEPT !.fd = 0] \in SlotRecords
    BY <1>0 DEF SlotRecords
  <2>3. conns' \in [Slots -> SlotRecords]
    BY <1>3, <1>0, <2>2 DEF WriteFails, TypeOK, Types
  <2> QED
    BY <1>3, <1>0, <2>1, <2>3 DEF WriteFails, TypeOK, Types, SocketsTypeOK
<1> QED
  BY <1>1, <1>2, <1>3 DEF Writing

LEMMA SendingType == TypeOK /\ Sending => Types'
<1> SUFFICES ASSUME TypeOK, Sending PROVE Types'
  OBVIOUS
<1>0. /\ SocketsTypeOK /\ at.slot \in Slots /\ conns[at.slot] \in SlotRecords
      /\ Done => at' \in Places
  BY CurrentType, Constants DEF Done, Go, Places, TypeOK, Types
<1>1. at.op = "file"
  BY DEF Sending, SendFile, SendNothing, SendEAGAIN, SendFails, At
<1>2. Fd \in Fds
  BY <1>1, CurrentType
<1>3. CASE SendFile
  <2> DEFINE x == conns[at.slot]
             y(k) == [x EXCEPT !.fleft = x.fleft - k]
             z == [Reset(x) EXCEPT !.fleft = 0]
             ep == [epi EXCEPT ![Fd] = Item("once", Fd)]
  <2>1. Client \in Clients
    BY <1>3, <1>2 DEF SendFile, Client, TypeOK, Types, SocketsTypeOK
  <2> PICK k \in 1..x.fleft :
        /\ Buffered(Client, k, x.fleft, TRUE)
        /\ \/ /\ conns' = [conns EXCEPT ![at.slot] = y(k)]
              /\ UNCHANGED <<sock, opened, epi, inbox, got, evfd>>
           \/ /\ conns' = [conns EXCEPT ![at.slot] = z]
              /\ CloseIn(FileOf(at.slot), sock, ep)
              /\ evfd' = Fd
              /\ Receive(Client, x.hdr) \/ UNCHANGED got
    BY <1>3 DEF SendFile
  <2>2. full' \in [Clients -> BOOLEAN] /\ peer' \in [Clients -> Peers]
    BY <1>0, BufferedType
  <2> x.hdr \in Requests \cup {NULL} /\ x.fleft \in 0..FileLen
    BY <1>0, SlotFields
  <2>3. x.fleft - k \in 0..FileLen /\ 0 \in 0..FileLen
    BY Constants, Remainder
  <2>4. y(k) \in SlotRecords
    BY <1>0, <2>3 DEF SlotRecords
  <2>5. z \in SlotRecords
    BY <1>0, <2>3, ResetType DEF SlotRecords
  <2>6. ep \in [Fds -> Items]
    BY <1>0, <1>2, ItemType DEF SocketsTypeOK, Masks
  <2>7. CASE /\ conns' = [conns EXCEPT ![at.slot] = y(k)]
             /\ UNCHANGED <<sock, opened, epi, inbox, got, evfd>>
    <3>1. conns' \in [Slots -> SlotRecords]
      BY <2>7, <2>4, <1>0 DEF TypeOK, Types
    <3> QED
      BY <1>0, <1>3, <2>2, <2>7, <3>1 DEF SendFile, TypeOK, Types, SocketsTypeOK
  <2>8. CASE /\ conns' = [conns EXCEPT ![at.slot] = z]
             /\ CloseIn(FileOf(at.slot), sock, ep)
             /\ evfd' = Fd
             /\ Receive(Client, x.hdr) \/ UNCHANGED got
    <3> HIDE DEF z, ep
    <3>1. conns' \in [Slots -> SlotRecords]
      BY <2>8, <2>5, <1>0 DEF TypeOK, Types
    <3>2. /\ sock' \in [Fds -> Clients \cup {NULL}]
          /\ opened' \in [Fds -> Requests \cup {NULL}]
          /\ epi' \in [Fds -> Items]
          /\ inbox' \in [Clients -> Seq(Requests)]
      BY <2>8, <2>6, <1>0, CloseInType DEF SocketsTypeOK
    <3>3. got' \in [Clients -> Seq(Requests)]
      <4>1. x.hdr \in Requests
        BY <1>0, <1>1 DEF TypeOK, Serving, Prepared
      <4> QED
        BY <1>0, <2>1, <2>8, <4>1, ReceiveType
    <3> QED
      BY <1>0, <1>2, <1>3, <2>2, <2>8, <3>1, <3>2, <3>3
         DEF SendFile, TypeOK, Types, SocketsTypeOK
  <2> QED
    BY <2>7, <2>8
<1>4. CASE SendNothing
  BY <1>4, <1>0 DEF SendNothing, TypeOK, Types, SocketsTypeOK, sockVars
<1>5. CASE SendEAGAIN
  <2>1. epi' \in [Fds -> Items]
    BY <1>0, <1>2, <1>5, ItemType DEF SendEAGAIN, TypeOK, Types, SocketsTypeOK, Masks
  <2> QED
    BY <1>5, <1>0, <2>1 DEF SendEAGAIN, TypeOK, Types, SocketsTypeOK
<1>6. CASE SendFails
  <2>1. /\ sock' \in [Fds -> Clients \cup {NULL}]
        /\ opened' \in [Fds -> Requests \cup {NULL}]
        /\ epi' \in [Fds -> Items]
        /\ inbox' \in [Clients -> Seq(Requests)]
    BY <1>6, CloseInType DEF SendFails, CloseFds, TypeOK, Types, SocketsTypeOK
  <2>2. [conns[at.slot] EXCEPT !.fd = 0] \in SlotRecords
    BY <1>0 DEF SlotRecords
  <2>3. conns' \in [Slots -> SlotRecords]
    BY <1>6, <1>0, <2>2 DEF SendFails, TypeOK, Types
  <2> QED
    BY <1>6, <1>0, <2>1, <2>3 DEF SendFails, TypeOK, Types, SocketsTypeOK
<1> QED
  BY <1>3, <1>4, <1>5, <1>6 DEF Sending

\* The slot the loop turns to has a descriptor, and a file to send before sendfile.
LEMMA ServingStep == TypeOK /\ [Next]_vars => Serving'
<1> SUFFICES ASSUME TypeOK, [Next]_vars PROVE Serving'
  OBVIOUS
<1> USE DEF Serving, Fd
<1>0. Serving /\ at.slot \in Slots /\ conns \in [Slots -> SlotRecords]
  BY CurrentType DEF TypeOK, Types
<1>1. ASSUME UNCHANGED <<conns, at>> PROVE Serving'
  BY <1>0, <1>1
<1>2. ASSUME at'.op = "next" PROVE Serving'
  BY <1>2
<1>3. CASE ClientStep \/ UNCHANGED vars
  BY <1>1, <1>3 DEF ClientStep, vars, loopVars
<1>4. CASE Wait
  BY <1>1, <1>4 DEF Wait
<1>5. ASSUME NEW e \in ready, Accept(e) \/ AcceptFails(e) \/ Orphan(e) PROVE Serving'
  BY <1>2, <1>5 DEF Accept, AcceptFails, Orphan, At, Exit, loopVars
<1>6. ASSUME NEW e \in ready, BeginRead(e) PROVE Serving'
  BY <1>6 DEF BeginRead, First, Go
<1>7. ASSUME NEW e \in ready, BeginWrite(e) PROVE Serving'
  BY <1>7 DEF BeginWrite, First, Go, Done
<1>8. CASE ReadSome
  <2>1. CASE Exit
    BY <1>1, <2>1 DEF Exit, loopVars
  <2>2. ASSUME NEW r \in Requests, HandleRequest(at.slot, r), UNCHANGED at PROVE Serving'
    BY <1>0, <1>8, <2>2, HandleRequestType DEF ReadSome, At
  <2>3. Client \in Clients
    BY <1>0, <1>8, CurrentType DEF ReadSome, At, Client, TypeOK, Types, SocketsTypeOK
  <2>4. ASSUME NEW k \in 1..Len(inbox[Client]) PROVE inbox[Client][1] \in Requests
    <3>1. inbox[Client] \in Seq(Requests)
      BY <2>3 DEF TypeOK, Types, SocketsTypeOK
    <3>2. 1 \in 1..Len(inbox[Client])
      BY <3>1, LenProperties
    <3> QED
      BY <3>1, <3>2, ElementOfSeq
  <2> QED
    BY <1>8, <2>1, <2>2, <2>4 DEF ReadSome
<1>9. CASE ReadEAGAIN \/ ReadEnd
  BY <1>2, <1>9 DEF ReadEAGAIN, ReadEnd, Done, Go
<1>10. CASE Write
  <2> DEFINE x == conns[at.slot]
             y(k) == [x EXCEPT !.left = x.left - k, !.sent = (k = x.left)]
  <2>1. PICK k \in 1..x.left :
          /\ conns' = [conns EXCEPT ![at.slot] = y(k)]
          /\ AfterHeader(at.slot, x.sending) \/ Done
    BY <1>10 DEF Write
  <2>2. conns'[at.slot].fd = x.fd /\ conns'[at.slot].sending = x.sending
    BY <1>0, <2>1 DEF SlotRecords
  <2>3. x.fd # 0
    BY <1>0, <1>10 DEF Write, At
  <2> QED
    BY <2>1, <2>2, <2>3 DEF AfterHeader, Go, Done
<1>11. CASE WriteNothing \/ WriteFails
  BY <1>2, <1>11 DEF WriteNothing, WriteFails, Done, Go
<1>12. CASE Sending
  <2>1. at' = [op |-> "next", slot |-> 1]
    <3>1. CASE SendFile
      BY <3>1 DEF SendFile, Done, Go
    <3>2. CASE SendNothing \/ SendEAGAIN \/ SendFails
      BY <3>2 DEF SendNothing, SendEAGAIN, SendFails, Done, Go
    <3> QED
      BY <1>12, <3>1, <3>2 DEF Sending
  <2> QED
    BY <1>2, <2>1
<1>13. CASE BrokenPipe
  BY <1>1, <1>13 DEF BrokenPipe, Exit, loopVars
<1> QED
  BY <1>3, <1>4, <1>5, <1>6, <1>7, <1>8, <1>9, <1>10, <1>11, <1>12, <1>13
     DEF Next, ServerNext, Handle, Reading, Writing

\* A response without a request has no output: requests alone prepare output.
LEMMA PreparedStep == TypeOK /\ [Next]_vars => Prepared'
<1> SUFFICES ASSUME TypeOK, [Next]_vars PROVE Prepared'
  OBVIOUS
<1>0. /\ Prepared /\ at.slot \in Slots /\ conns \in [Slots -> SlotRecords]
      /\ \A s \in Slots : conns[s] \in SlotRecords
  BY CurrentType DEF TypeOK, Types
<1>1. ASSUME UNCHANGED conns PROVE Prepared'
  BY <1>0, <1>1 DEF Prepared
<1>2. ASSUME NEW s \in Slots, NEW x, conns' = [conns EXCEPT ![s] = x],
             x.hdr = NULL => x.left = 0 /\ ~x.sending
      PROVE  Prepared'
  BY <1>0, <1>2 DEF Prepared
<1>3. ASSUME NEW s \in Slots, NEW r \in Requests, HandleRequest(s, r) PROVE Prepared'
  <2> DEFINE x == Header(conns[s], r)
  <2>1. x \in SlotRecords /\ x.hdr = r /\ r # NULL
    <3>1. conns[s] \in SlotRecords
      BY <1>0, <1>3
    <3>2. x \in SlotRecords
      BY <1>3, <3>1, HeaderType
    <3>3. x.hdr = r
      BY <3>1 DEF Header, SlotRecords
    <3>4. r # NULL
      BY <1>3, NullAssumption
    <3> QED
      BY <3>2, <3>3, <3>4
  <2>2. [x EXCEPT !.file = 0, !.sending = FALSE].hdr = r
    BY <2>1 DEF SlotRecords
  <2>3. \A f : [x EXCEPT !.file = f, !.fleft = Size(x.name), !.sending = TRUE].hdr = r
    BY <2>1 DEF SlotRecords
  <2> HIDE DEF x
  <2> QED
    BY <1>2, <1>3, <2>1, <2>2, <2>3 DEF HandleRequest, x
<1>4. CASE ClientStep \/ UNCHANGED vars
  BY <1>1, <1>4 DEF ClientStep, vars
<1>5. CASE Wait \/ BrokenPipe \/ ReadEAGAIN \/ WriteNothing \/ SendNothing \/ SendEAGAIN
  BY <1>1, <1>5 DEF Wait, BrokenPipe, Exit, ReadEAGAIN, WriteNothing, SendNothing,
                    SendEAGAIN
<1>6. ASSUME NEW e \in ready, Accept(e) PROVE Prepared'
  <2>1. ASSUME NEW s \in Slots, NEW f, NEW c,
               conns' = [conns EXCEPT ![s] = [Reset(conns[s]) EXCEPT !.fd = f]]
        PROVE  Prepared'
    <3>1. /\ [Reset(conns[s]) EXCEPT !.fd = f].hdr = conns[s].hdr
          /\ [Reset(conns[s]) EXCEPT !.fd = f].left = conns[s].left
          /\ ~[Reset(conns[s]) EXCEPT !.fd = f].sending
      <4>1. conns[s] \in SlotRecords /\ Reset(conns[s]) \in SlotRecords
        BY <1>0, ResetType
      <4>2. \A y \in SlotRecords : /\ [y EXCEPT !.fd = f].hdr = y.hdr
                                   /\ [y EXCEPT !.fd = f].left = y.left
                                   /\ [y EXCEPT !.fd = f].sending = y.sending
        BY DEF SlotRecords
      <4> QED
        BY <4>1, <4>2, ResetFields
    <3> QED
      BY <1>0, <1>2, <2>1, <3>1 DEF Prepared
  <2> QED
    BY <1>1, <1>6, <2>1 DEF Accept
<1>7. ASSUME NEW e \in ready, AcceptFails(e) \/ Orphan(e) \/ BeginRead(e) \/ BeginWrite(e)
      PROVE  Prepared'
  BY <1>1, <1>7 DEF AcceptFails, Exit, Orphan, BeginRead, BeginWrite
<1>8. CASE ReadSome
  <2>1. Client \in Clients
    BY <1>0, <1>8, CurrentType DEF ReadSome, At, Client, TypeOK, Types, SocketsTypeOK
  <2>2. ASSUME NEW k \in 1..Len(inbox[Client]) PROVE inbox[Client][1] \in Requests
    <3>1. inbox[Client] \in Seq(Requests)
      BY <2>1 DEF TypeOK, Types, SocketsTypeOK
    <3>2. 1 \in 1..Len(inbox[Client])
      BY <3>1, LenProperties
    <3> QED
      BY <3>1, <3>2, ElementOfSeq
  <2> QED
    BY <1>0, <1>1, <1>3, <1>8, <2>2 DEF ReadSome, Exit
<1>9. CASE ReadEnd
  <2>1. /\ Reset(conns[at.slot]).hdr = conns[at.slot].hdr
        /\ Reset(conns[at.slot]).left = conns[at.slot].left
        /\ ~Reset(conns[at.slot]).sending
    BY <1>0, ResetFields
  <2> QED
    BY <1>0, <1>2, <1>9, <2>1 DEF ReadEnd, Prepared
<1>10. CASE Write
  <2> DEFINE x == conns[at.slot]
             y(k) == [x EXCEPT !.left = x.left - k, !.sent = (k = x.left)]
  <2>1. PICK k \in 1..x.left : conns' = [conns EXCEPT ![at.slot] = y(k)]
    BY <1>10 DEF Write
  <2>2. x.left # 0
    <3>1. x.left \in 0..HeaderLen
      BY <1>0, SlotFields
    <3>2. x.left > 0
      BY <1>10 DEF Write
    <3> QED
      BY <3>1, <3>2, Constants
  <2>3. y(k).hdr = x.hdr /\ x.hdr # NULL
    BY <1>0, <2>2 DEF SlotRecords, Prepared
  <2> QED
    BY <1>0, <1>2, <2>1, <2>3
<1>11. CASE WriteFails \/ SendFails
  <2> DEFINE x == conns[at.slot]
  <2>1. conns' = [conns EXCEPT ![at.slot] = [x EXCEPT !.fd = 0]]
    BY <1>11, <1>0 DEF WriteFails, SendFails
  <2>2. /\ [x EXCEPT !.fd = 0].hdr = x.hdr /\ [x EXCEPT !.fd = 0].left = x.left
        /\ [x EXCEPT !.fd = 0].sending = x.sending
    BY <1>0 DEF SlotRecords
  <2> QED
    BY <1>0, <1>2, <2>1, <2>2 DEF Prepared
<1>12. CASE SendFile
  <2> DEFINE x == conns[at.slot]
             y(k) == [x EXCEPT !.fleft = x.fleft - k]
             z == [Reset(x) EXCEPT !.fleft = 0]
  <2>1. PICK k \in 1..x.fleft : \/ conns' = [conns EXCEPT ![at.slot] = y(k)]
                                \/ conns' = [conns EXCEPT ![at.slot] = z]
    BY <1>12 DEF SendFile
  <2>2. x.hdr # NULL
    BY <1>0, <1>12 DEF SendFile, At, TypeOK, Serving, Prepared
  <2>3. y(k).hdr = x.hdr /\ z.hdr = x.hdr
    BY <1>0 DEF Reset, SlotRecords
  <2> HIDE DEF y, z
  <2> QED
    BY <1>0, <1>2, <2>1, <2>2, <2>3
<1> QED
  BY <1>4, <1>5, <1>6, <1>7, <1>8, <1>9, <1>10, <1>11, <1>12
     DEF Next, ServerNext, Handle, Reading, Writing, Sending

\* BrokenPipe and a stuttering step change no typed part.
LEMMA RestType == TypeOK /\ (BrokenPipe \/ UNCHANGED vars) => Types'
BY DEF BrokenPipe, Exit, vars, sockVars, loopVars, TypeOK, Types, SocketsTypeOK

\* Every step keeps the state well typed.
LEMMA TypeStep == TypeOK /\ [Next]_vars => TypeOK'
<1> SUFFICES ASSUME TypeOK, [Next]_vars PROVE Types'
  BY ServingStep, PreparedStep DEF TypeOK
<1> QED
  BY DispatchType, ReadingType, WritingType, SendingType, ClientStepType, RestType
     DEF Next, ServerNext, Handle

\* The state is well typed for every number of clients, slots and descriptors: whatever
\* the clients do, the loop serves only slots that have a descriptor, and a slot has
\* output only once it has had a request.
THEOREM TypeCorrect == Spec => []TypeOK
BY InitType, TypeStep, PTL DEF Spec

=============================================================================
