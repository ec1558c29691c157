------------------------------ MODULE Upload ------------------------------
(***************************************************************************)
(* One multipart upload on one connection: the upload branch of main's     *)
(* read loop (server.cpp) and process_upload_data (utils.h).  The loop of  *)
(* process_upload_data is one action per round.                            *)
(*                                                                         *)
(* The request is a sequence of tokens, the least units the server tells   *)
(* apart; the network may cut it anywhere between two of them.             *)
(*   post    request line and headers that need no attention               *)
(*   type    Content-Type: multipart/form-data with its boundary           *)
(*   hdr     one more header                                               *)
(*   blank   the empty line that ends request headers or part headers      *)
(*   m1, m2  the two halves of a boundary marker                           *)
(*   name    the Content-Disposition line with the file's name             *)
(*   nl      a line end                                                    *)
(*   dashes  the two dashes that make a marker the closing one             *)
(***************************************************************************)
EXTENDS Naturals, Sequences

CONSTANTS Payload,     \* the bytes of the file, in order
          Garbage,     \* a byte from outside a buffer
          NHeaders,    \* number of further headers
          Naming,      \* where the name may be: "head", "part"
          MaxRead,     \* BUFSIZE - 1
          BufLimit,    \* 4 * BUFSIZE
          SizeMod      \* 2^w, w the width of size_t

Marker == <<"m1", "m2">>
MarkerLen == Len(Marker)

Items == {"post", "type", "hdr", "blank", "m1", "m2", "name", "nl", "dashes"}
Data == {Payload[i] : i \in 1..Len(Payload)}
Tokens == Items \cup Data \cup {Garbage}

ASSUME UploadAssumption ==
  /\ Payload \in Seq(Data) /\ Data \cap Items = {} /\ Garbage \notin Items \cup Data
  /\ NHeaders \in Nat /\ Naming \subseteq {"head", "part"}
  /\ MaxRead \in Nat \ {0} /\ BufLimit \in Nat
  /\ SizeMod \in Nat /\ SizeMod > MaxRead + BufLimit + MarkerLen

VARIABLES
  rest,          \* what the client has still to send
  net,           \* what has arrived and is unread
  fin,           \* the client has closed its end
  registered,    \* what the connection is registered for: "in", "out"; or "closed"
  place,         \* idle: no event; read: before read; headers, content: scanning
  uploading,     \* is_upload_request, a local of the event
  upload_state,  \* NOT, HEADERS, CONTENT
  upload_buffer,
  data,          \* full_data from processed on
  file,          \* upload_file
  boundary,      \* whose boundary upload_boundary is: "own", "stale"
  answer,        \* the response prepared: none, stored, empty, other
  up             \* the process runs

clientVars == <<rest, net, fin>>
uploadVars == <<upload_state, upload_buffer, data, file, boundary>>
vars == <<clientVars, uploadVars, registered, place, uploading, answer, up>>

Request(naming) ==
  <<"post">> \o (IF naming = "head" THEN <<"name">> ELSE <<>>) \o <<"type">>
    \o [i \in 1..NHeaders |-> "hdr"] \o <<"blank">>
    \o Marker \o (IF naming = "part" THEN <<"name">> ELSE <<>>) \o <<"blank">>
    \o Payload \o <<"nl">> \o Marker \o <<"dashes", "nl">>

\* own: under the upload's own name.  bad: the stream has failed, writes do nothing.
NoFile == [open |-> FALSE, own |-> FALSE, bad |-> FALSE, text |-> <<>>]

Has(s, token) == \E i \in 1..Len(s) : s[i] = token

\* i is the first position in s where words stands.
FirstAt(s, words, i) ==
  LET At(j) == j + Len(words) <= Len(s) + 1 /\ SubSeq(s, j, j + Len(words) - 1) = words
  IN i \in 1..Len(s) /\ At(i) /\ \A j \in 1..(i - 1) : ~At(j)

Before(s, i) == SubSeq(s, 1, i - 1)
From(s, i) == SubSeq(s, i, Len(s))

\* upload_file.write of s.
Written(s) == IF file.bad THEN file ELSE [file EXCEPT !.text = @ \o s]

\* Mutant of ResetUpload: the upload goes on without its file.
ResetKeepsState ==
  /\ upload_buffer' = <<>>
  /\ file' = [file EXCEPT !.open = FALSE]
  /\ UNCHANGED upload_state
  /\ boundary' = "own"

\* ClientConnection::reset, the upload's part.
ResetUpload ==
  /\ upload_state' = "NOT"
  /\ upload_buffer' = <<>>
  /\ file' = [file EXCEPT !.open = FALSE]
  /\ boundary' = "own"

Running == up /\ registered # "closed"

(***************************************************************************)
(* The client and the network.                                             *)
(***************************************************************************)
Deliver ==
  /\ rest # <<>> /\ registered # "closed"
  /\ \E k \in 1..Len(rest) :
       net' = net \o SubSeq(rest, 1, k) /\ rest' = From(rest, k + 1)
  /\ UNCHANGED <<fin, uploadVars, registered, place, uploading, answer, up>>

Leave ==
  /\ ~fin /\ registered # "closed"
  /\ fin' = TRUE /\ rest' = <<>>
  /\ UNCHANGED <<net, uploadVars, registered, place, uploading, answer, up>>

(***************************************************************************)
(* The read loop of one event.                                             *)
(***************************************************************************)
Event ==
  /\ Running /\ place = "idle" /\ registered = "in" /\ (net # <<>> \/ fin)
  /\ place' = "read" /\ uploading' = FALSE
  /\ UNCHANGED <<clientVars, uploadVars, registered, answer, up>>

Reading == Running /\ place = "read"

\* What one read returns.
Chunk == SubSeq(net, 1, IF Len(net) < MaxRead THEN Len(net) ELSE MaxRead)

Receive == net # <<>> /\ net' = From(net, Len(Chunk) + 1) /\ UNCHANGED <<rest, fin>>

\* get_upload_file_name finds a name.
HasName(s) == Has(s, "name")

\* The request is recognised as an upload in this chunk.  buffer is not terminated after
\* the chunk, so that strstr and get_boundary may find the headers of an earlier upload
\* in it, and get_upload_file_name that upload's name.
Recognised(stale) == Has(Chunk, "post") /\ (Has(Chunk, "type") \/ stale)

BeginUpload ==
  /\ Reading /\ Receive /\ upload_state = "NOT"
  /\ \E stale \in BOOLEAN :
       /\ Recognised(stale) /\ (HasName(Chunk) \/ stale)
       /\ boundary' = IF Has(Chunk, "type") THEN "own" ELSE "stale"
       /\ LET opened(s) == [open |-> TRUE, own |-> HasName(Chunk),
                            bad |-> FALSE, text |-> s]
          IN \/ \E i \in 1..Len(Chunk) :
                  /\ FirstAt(Chunk, <<"blank">>, i)
                  /\ file' = opened(From(Chunk, i + 1))
                  /\ upload_state' = "CONTENT"
                  /\ UNCHANGED upload_buffer
             \/ /\ ~Has(Chunk, "blank")
                /\ file' = opened(<<>>)
                /\ upload_state' = "HEADERS"
                /\ upload_buffer' = Chunk
  /\ uploading' = TRUE
  /\ UNCHANGED <<data, registered, place, answer, up>>

Hangup ==
  /\ ResetUpload
  /\ registered' = "closed" /\ place' = "idle"
  /\ UNCHANGED <<data, answer, up>>

\* No name in the chunk: the file cannot be opened and the connection is closed.
NoName ==
  /\ Reading /\ Receive /\ upload_state = "NOT"
  /\ \E stale \in BOOLEAN : Recognised(stale)
  /\ ~HasName(Chunk)
  /\ uploading' = TRUE
  /\ Hangup

\* Anything else outside an upload is a request of its own: POST /uploads gets an empty
\* answer, and a line without a URL ends the process.
Ordinary ==
  /\ Reading /\ Receive /\ upload_state = "NOT" /\ ~Recognised(FALSE)
  /\ \/ Chunk[1] = "post" /\ answer' = "empty" /\ registered' = "out" /\ UNCHANGED up
     \/ Chunk[1] # "post" /\ answer' = "other" /\ registered' = "out" /\ UNCHANGED up
     \/ Chunk[1] # "post" /\ up' = FALSE /\ UNCHANGED <<answer, registered>>
  /\ UNCHANGED <<uploadVars, place, uploading>>

\* Mutant of FullData: what was held back of the last chunk is forgotten.
ChunkAlone == Chunk

\* full_data: what was held back, then the chunk.
FullData == upload_buffer \o Chunk

\* process_upload_data up to its loop.
Process ==
  /\ Reading /\ Receive /\ upload_state # "NOT" /\ uploading
  /\ \/ /\ Len(upload_buffer) > BufLimit
        /\ ResetUpload
        /\ UNCHANGED <<data, place>>
     \/ /\ Len(upload_buffer) <= BufLimit
        /\ data' = FullData
        /\ upload_buffer' = <<>>
        /\ place' = IF upload_state = "HEADERS" THEN "headers" ELSE "content"
        /\ UNCHANGED <<upload_state, file, boundary>>
  /\ UNCHANGED <<registered, uploading, answer, up>>

\* An upload goes on, but not one that began in this event: the chunk is dropped.
Dropped ==
  /\ Reading /\ Receive /\ upload_state # "NOT" /\ ~uploading
  /\ UNCHANGED <<uploadVars, registered, place, uploading, answer, up>>

ReadEAGAIN ==
  /\ Reading /\ net = <<>> /\ ~fin
  /\ place' = "idle"
  /\ UNCHANGED <<clientVars, uploadVars, registered, uploading, answer, up>>

ReadEnd ==
  /\ Reading /\ net = <<>> /\ fin
  /\ Hangup
  /\ UNCHANGED <<clientVars, uploading>>

(***************************************************************************)
(* The loop of process_upload_data.                                        *)
(***************************************************************************)
scanKeeps == <<clientVars, boundary, uploading, up>>

HeadersEnd ==
  /\ Running /\ place = "headers"
  /\ \E i \in 1..Len(data) : FirstAt(data, <<"blank">>, i) /\ data' = From(data, i + 1)
  /\ upload_state' = "CONTENT" /\ place' = "content"
  /\ UNCHANGED <<scanKeeps, upload_buffer, file, registered, answer>>

HeadersGoOn ==
  /\ Running /\ place = "headers" /\ ~Has(data, "blank")
  /\ upload_buffer' = data /\ data' = <<>> /\ place' = "read"
  /\ UNCHANGED <<scanKeeps, upload_state, file, registered, answer>>

Scanning == Running /\ place = "content"

\* The boundary is first met at i.
MarkerAt(i) == boundary = "own" /\ FirstAt(data, Marker, i)

\* No marker: all but the tail is written.  Of data shorter than a marker the length to
\* write wraps round and fails the stream, and the tail kept begins outside the data.
NoMarker ==
  /\ Scanning /\ ~\E i \in 1..Len(data) : MarkerAt(i)
  /\ LET safe_write == (SizeMod + Len(data) - MarkerLen) % SizeMod
         missing == IF MarkerLen <= Len(data) THEN 0 ELSE MarkerLen - Len(data)
     IN /\ file' = IF safe_write <= Len(data) THEN Written(SubSeq(data, 1, safe_write))
                   ELSE [file EXCEPT !.bad = TRUE]
        /\ upload_buffer' = [i \in 1..missing |-> Garbage]
                              \o From(data, Len(data) - (MarkerLen - missing) + 1)
  /\ data' = <<>> /\ place' = "read"
  /\ UNCHANGED <<scanKeeps, upload_state, registered, answer>>

\* Mutant of Closing: any marker ends the file.
AnyMarkerCloses(i) == TRUE

\* The two dashes follow the marker at i, in the data at hand.
Closing(i) == i + MarkerLen <= Len(data) /\ data[i + MarkerLen] = "dashes"

InnerMarker ==
  /\ Scanning
  /\ \E i \in 1..Len(data) :
       /\ MarkerAt(i) /\ ~Closing(i)
       /\ file' = Written(Before(data, i))
       /\ data' = From(data, i + MarkerLen)
       /\ place' = IF data' = <<>> THEN "read" ELSE "content"
  /\ UNCHANGED <<scanKeeps, upload_state, upload_buffer, registered, answer>>

ClosingMarker ==
  /\ Scanning
  /\ \E i \in 1..Len(data) :
       /\ MarkerAt(i) /\ Closing(i)
       /\ file' = [Written(Before(data, i)) EXCEPT !.open = FALSE]
  /\ data' = <<>>
  /\ upload_state' = "NOT" /\ answer' = "stored" /\ registered' = "out"
  /\ place' = "read"
  /\ UNCHANGED <<scanKeeps, upload_buffer>>

(***************************************************************************)
(* The specification.                                                      *)
(***************************************************************************)
Init ==
  /\ \E naming \in Naming : rest = Request(naming)
  /\ net = <<>> /\ fin = FALSE
  /\ registered = "in" /\ place = "idle" /\ uploading = FALSE
  /\ upload_state = "NOT" /\ upload_buffer = <<>> /\ data = <<>>
  /\ file = NoFile /\ boundary = "own" /\ answer = "none" /\ up = TRUE

Loop == Event \/ BeginUpload \/ NoName \/ Ordinary \/ Process \/ Dropped
          \/ ReadEAGAIN \/ ReadEnd

Scan == HeadersEnd \/ HeadersGoOn \/ NoMarker \/ InnerMarker \/ ClosingMarker

Next == Deliver \/ Leave \/ Loop \/ Scan

Spec == Init /\ [][Next]_vars

(***************************************************************************)
(* Properties.                                                             *)
(***************************************************************************)
\* The state is well typed, a file is open exactly while an upload is in progress, and
\* only the scan of an upload's data has data at hand.
TypeOK ==
  /\ rest \in Seq(Tokens) /\ net \in Seq(Tokens) /\ fin \in BOOLEAN
  /\ registered \in {"in", "out", "closed"}
  /\ place \in {"idle", "read", "headers", "content"}
  /\ uploading \in BOOLEAN
  /\ upload_state \in {"NOT", "HEADERS", "CONTENT"}
  /\ upload_buffer \in Seq(Tokens) /\ data \in Seq(Tokens)
  /\ file \in [open : BOOLEAN, own : BOOLEAN, bad : BOOLEAN, text : Seq(Tokens)]
  /\ boundary \in {"own", "stale"}
  /\ answer \in {"none", "stored", "empty", "other"}
  /\ up \in BOOLEAN
  /\ file.open <=> upload_state # "NOT"
  /\ data # <<>> => place \in {"headers", "content"}
  /\ place = "headers" => upload_state = "HEADERS"
  /\ place = "content" => upload_state = "CONTENT"

\* What is stored, held back, at hand, unread and unsent, in this order.
InOrder == file.text \o upload_buffer \o data \o net \o rest

\* The file's bytes stand in it in one piece, and there are no others.
Intact ==
  \E a \in 0..Len(InOrder) :
    /\ a + Len(Payload) <= Len(InOrder)
    /\ \A k \in 1..Len(InOrder) :
         IF k \in (a + 1)..(a + Len(Payload)) THEN InOrder[k] = Payload[k - a]
         ELSE InOrder[k] \notin Data

\* While one event handles the upload no byte of the file is lost, doubled or moved,
\* wherever the network cuts the request and however markers straddle the cuts.
Conserved ==
  up /\ ~fin /\ uploading /\ upload_state = "CONTENT" /\ ~file.bad => Intact

\* What may stand before the file's bytes: the marker that opens the part, unless the scan
\* has met it, and the part's headers.
Openings ==
  {<<"blank">>, <<"name", "blank">>, <<"m1", "m2", "blank">>, <<"m1", "m2", "name", "blank">>}

\* The upload acknowledged is stored as the part came: of the request's own headers and of
\* the marker that closes the part nothing is in the file, and of what is between them
\* nothing is missing.  The part's opening and the line end before the closing marker are
\* stored with the file's bytes.
StoredPart ==
  answer = "stored" /\ ~file.bad => \E o \in Openings : file.text = o \o Payload \o <<"nl">>

\* The same as Conserved for an upload in progress at any time: no chunk of it is dropped.
NothingDropped ==
  up /\ ~fin /\ upload_state = "CONTENT" /\ ~file.bad => Intact

=============================================================================
