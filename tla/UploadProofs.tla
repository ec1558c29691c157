---------------------------- MODULE UploadProofs ----------------------------
(***************************************************************************)
(* Type correctness of Upload, that no byte of the file is lost, doubled   *)
(* or moved while one event handles the upload, and that of an             *)
(* acknowledged upload the whole part is stored: for every file, number of *)
(* headers, size of the buffers and width of size_t, and however the       *)
(* network cuts the request.                                               *)
(***************************************************************************)
EXTENDS Upload, TLAPS, SequenceTheorems

LEMMA MarkerTyped == MarkerLen = 2 /\ Marker \in Seq(Tokens)
BY DEF MarkerLen, Marker, Tokens, Items

\* A part of what is sent is of the same tokens.
LEMMA PartTyped ==
  ASSUME NEW s \in Seq(Tokens), NEW a \in Nat \ {0}, NEW b \in Int, b <= Len(s)
  PROVE  SubSeq(s, a, b) \in Seq(Tokens)
<1>1. Len(s) \in Nat /\ s \in [1..Len(s) -> Tokens] /\ a..b \subseteq 1..Len(s)
  BY LenProperties
<1>2. \A j \in a..b : s[j] \in Tokens
  BY <1>1
<1> QED
  BY <1>2, SubSeqProperties

LEMMA FromTyped ==
  ASSUME NEW s \in Seq(Tokens), NEW a \in Nat \ {0} PROVE From(s, a) \in Seq(Tokens)
<1>1. Len(s) \in Int
  BY LenProperties
<1> QED
  BY <1>1, PartTyped DEF From

LEMMA BeforeTyped ==
  ASSUME NEW s \in Seq(Tokens), NEW i \in 1..Len(s) PROVE Before(s, i) \in Seq(Tokens)
<1>1. 1 \in Nat \ {0} /\ i - 1 \in Int /\ i - 1 <= Len(s)
  BY LenProperties
<1> QED
  BY <1>1, PartTyped DEF Before

LEMMA RequestTyped == \A naming : Request(naming) \in Seq(Tokens)
<1> SUFFICES ASSUME NEW naming PROVE Request(naming) \in Seq(Tokens)
  OBVIOUS
<1> DEFINE h == [i \in 1..NHeaders |-> "hdr"]
           n1 == IF naming = "head" THEN <<"name">> ELSE <<>>
           n2 == IF naming = "part" THEN <<"name">> ELSE <<>>
<1>1. h \in Seq(Tokens)
  <2>1. "hdr" \in Tokens /\ NHeaders \in Nat
    BY UploadAssumption DEF Tokens, Items
  <2> QED
    BY <2>1
<1>2. /\ n1 \in Seq(Tokens) /\ n2 \in Seq(Tokens) /\ <<"post">> \in Seq(Tokens)
      /\ <<"type">> \in Seq(Tokens) /\ <<"blank">> \in Seq(Tokens) /\ <<"nl">> \in Seq(Tokens)
      /\ <<"dashes", "nl">> \in Seq(Tokens) /\ Marker \in Seq(Tokens)
  <2>1. \A x \in Tokens : <<x>> \in Seq(Tokens)
    OBVIOUS
  <2>2. \A x, y \in Tokens : <<x, y>> \in Seq(Tokens)
    OBVIOUS
  <2>3. Items \subseteq Tokens
    BY DEF Tokens
  <2>4. {"post", "type", "blank", "nl", "dashes", "name"} \subseteq Tokens
    BY <2>3 DEF Items
  <2>5. <<>> \in Seq(Tokens)
    OBVIOUS
  <2> QED
    BY <2>1, <2>2, <2>4, <2>5, MarkerTyped
<1>3. Payload \in Seq(Tokens)
  BY UploadAssumption, SeqMonotonic DEF Tokens
<1>4. Request(naming) =
        <<"post">> \o n1 \o <<"type">> \o h \o <<"blank">> \o Marker \o n2 \o <<"blank">>
          \o Payload \o <<"nl">> \o Marker \o <<"dashes", "nl">>
  BY DEF Request
<1> HIDE DEF h, n1, n2
<1>5. \A s, t \in Seq(Tokens) : s \o t \in Seq(Tokens)
  BY ConcatProperties
<1> QED
  BY <1>1, <1>2, <1>3, <1>4, <1>5

LEMMA ChunkTyped ==
  ASSUME net \in Seq(Tokens)
  PROVE  Chunk \in Seq(Tokens) /\ Len(Chunk) \in Nat
<1>1. Len(net) \in Nat /\ MaxRead \in Nat
  BY LenProperties, UploadAssumption
<1> DEFINE b == IF Len(net) < MaxRead THEN Len(net) ELSE MaxRead
<1>2. b \in Int /\ b <= Len(net) /\ 1 \in Nat \ {0}
  BY <1>1
<1>3. SubSeq(net, 1, b) \in Seq(Tokens)
  <2> HIDE DEF b
  <2> QED
    BY <1>2, PartTyped
<1>4. Chunk \in Seq(Tokens)
  BY <1>3 DEF Chunk
<1> QED
  BY <1>4, LenProperties

LEMMA WrittenTyped ==
  ASSUME file \in [open : BOOLEAN, own : BOOLEAN, bad : BOOLEAN, text : Seq(Tokens)],
         NEW s \in Seq(Tokens)
  PROVE  /\ Written(s) \in [open : BOOLEAN, own : BOOLEAN, bad : BOOLEAN, text : Seq(Tokens)]
         /\ Written(s).open = file.open
<1>1. file.text \o s \in Seq(Tokens)
  BY ConcatProperties
<1> QED
  BY <1>1 DEF Written

(***************************************************************************)
(* The parts of the type invariant.                                        *)
(***************************************************************************)
Files == [open : BOOLEAN, own : BOOLEAN, bad : BOOLEAN, text : Seq(Tokens)]

NetOK == rest \in Seq(Tokens) /\ net \in Seq(Tokens) /\ fin \in BOOLEAN

StateOK ==
  /\ upload_state \in {"NOT", "HEADERS", "CONTENT"}
  /\ upload_buffer \in Seq(Tokens) /\ data \in Seq(Tokens)
  /\ file \in Files /\ boundary \in {"own", "stale"}
  /\ file.open <=> upload_state # "NOT"

LoopOK ==
  /\ registered \in {"in", "out", "closed"}
  /\ place \in {"idle", "read", "headers", "content"}
  /\ uploading \in BOOLEAN /\ up \in BOOLEAN
  /\ answer \in {"none", "stored", "empty", "other"}
  /\ data # <<>> => place \in {"headers", "content"}
  /\ place = "headers" => upload_state = "HEADERS"
  /\ place = "content" => upload_state = "CONTENT"

LEMMA Parts == TypeOK <=> NetOK /\ StateOK /\ LoopOK
BY DEF TypeOK, NetOK, StateOK, LoopOK, Files

LEMMA InitTyped == Init => TypeOK
<1> SUFFICES ASSUME Init PROVE TypeOK
  OBVIOUS
<1>1. NetOK
  <2>1. PICK naming \in Naming : rest = Request(naming)
    BY DEF Init
  <2>2. rest \in Seq(Tokens)
    BY <2>1, RequestTyped
  <2>3. net = <<>> /\ fin = FALSE
    BY DEF Init
  <2>4. net \in Seq(Tokens) /\ fin \in BOOLEAN
    BY <2>3, EmptySeq
  <2> QED
    BY <2>2, <2>4 DEF NetOK
<1>2. StateOK
  BY DEF Init, NoFile, StateOK, Files
<1>3. LoopOK
  BY DEF Init, LoopOK
<1> QED
  BY <1>1, <1>2, <1>3, Parts

LEMMA ReceiveTyped == ASSUME TypeOK, Receive PROVE NetOK'
<1>1. net \in Seq(Tokens) /\ Len(Chunk) + 1 \in Nat \ {0}
  BY ChunkTyped DEF TypeOK
<1> QED
  BY <1>1, FromTyped DEF Receive, TypeOK, NetOK

LEMMA PartsNext == TypeOK' <=> NetOK' /\ StateOK' /\ LoopOK'
BY DEF TypeOK, NetOK, StateOK, LoopOK, Files

LEMMA ResetTyped ==
  ASSUME TypeOK, ResetUpload, data' \in Seq(Tokens) PROVE StateOK' /\ upload_state' = "NOT"
<1>1. file \in Files
  BY DEF TypeOK, Files
<1>2. file' = [file EXCEPT !.open = FALSE] /\ upload_state' = "NOT"
      /\ upload_buffer' = <<>> /\ boundary' = "own"
  BY DEF ResetUpload
<1>3. file' \in Files /\ file'.open = FALSE
  BY <1>1, <1>2 DEF Files
<1> QED
  BY <1>2, <1>3 DEF StateOK

LEMMA HangupTyped ==
  ASSUME TypeOK, Hangup, NetOK', place = "read", uploading' \in BOOLEAN PROVE TypeOK'
<1>1. data = <<>>
  BY DEF TypeOK
<1>2. StateOK'
  BY ResetTyped DEF Hangup, TypeOK
<1>3. LoopOK'
  BY <1>1 DEF Hangup, TypeOK, LoopOK
<1> QED
  BY <1>2, <1>3, PartsNext

(***************************************************************************)
(* The steps.                                                              *)
(***************************************************************************)
LEMMA NetTyped == ASSUME TypeOK, Deliver \/ Leave PROVE TypeOK'
<1>1. NetOK'
  <2>1. CASE Deliver
    <3>1. PICK k \in 1..Len(rest) :
            net' = net \o SubSeq(rest, 1, k) /\ rest' = From(rest, k + 1)
      BY <2>1 DEF Deliver
    <3>2. rest \in Seq(Tokens) /\ net \in Seq(Tokens) /\ Len(rest) \in Nat
      BY LenProperties DEF TypeOK
    <3>3. SubSeq(rest, 1, k) \in Seq(Tokens) /\ From(rest, k + 1) \in Seq(Tokens)
      <4>1. k \in Int /\ k <= Len(rest) /\ 1 \in Nat \ {0} /\ k + 1 \in Nat \ {0}
        BY <3>2
      <4> QED
        BY <3>2, <4>1, PartTyped, FromTyped
    <3>4. net' \in Seq(Tokens) /\ rest' \in Seq(Tokens)
      BY <3>1, <3>2, <3>3, ConcatProperties
    <3> QED
      BY <2>1, <3>4 DEF Deliver, TypeOK, NetOK
  <2>2. CASE Leave
    BY <2>2 DEF Leave, TypeOK, NetOK
  <2> QED
    BY <2>1, <2>2
<1>2. UNCHANGED <<uploadVars, registered, place, uploading, answer, up>>
  BY DEF Deliver, Leave
<1>3. StateOK' /\ LoopOK'
  BY <1>2 DEF uploadVars, TypeOK, StateOK, LoopOK, Files
<1> QED
  BY <1>1, <1>3, PartsNext

LEMMA BeginTyped == ASSUME TypeOK, BeginUpload PROVE TypeOK'
<1>1. NetOK' /\ Chunk \in Seq(Tokens) /\ data = <<>> /\ data' = data
  BY ReceiveTyped, ChunkTyped DEF BeginUpload, Reading, TypeOK
<1>2. boundary' \in {"own", "stale"}
  BY DEF BeginUpload
<1> DEFINE opened(s) == [open |-> TRUE, own |-> HasName(Chunk), bad |-> FALSE, text |-> s]
<1>3. /\ upload_state' \in {"HEADERS", "CONTENT"} /\ upload_buffer' \in Seq(Tokens)
      /\ \E s \in Seq(Tokens) : file' = opened(s)
  <2>1. CASE \E i \in 1..Len(Chunk) : /\ file' = opened(From(Chunk, i + 1))
                                      /\ upload_state' = "CONTENT"
                                      /\ UNCHANGED upload_buffer
    <3>1. PICK i \in 1..Len(Chunk) : file' = opened(From(Chunk, i + 1))
      BY <2>1
    <3>2. From(Chunk, i + 1) \in Seq(Tokens)
      <4>1. i + 1 \in Nat \ {0}
        OBVIOUS
      <4> QED
        BY <1>1, <4>1, FromTyped
    <3> QED
      BY <2>1, <3>1, <3>2 DEF TypeOK
  <2>2. CASE file' = opened(<<>>) /\ upload_state' = "HEADERS" /\ upload_buffer' = Chunk
    <3>1. <<>> \in Seq(Tokens)
      BY EmptySeq
    <3>2. \E s \in Seq(Tokens) : file' = opened(s)
      BY <2>2, <3>1
    <3> HIDE DEF opened
    <3> QED
      BY <1>1, <2>2, <3>2
  <2> QED
    BY <2>1, <2>2 DEF BeginUpload
<1>4. \A s \in Seq(Tokens) : opened(s) \in Files /\ opened(s).open = TRUE
  <2>1. HasName(Chunk) \in BOOLEAN
    BY DEF HasName, Has
  <2> QED
    BY <2>1 DEF Files
<1>5. StateOK'
  <2>1. file' \in Files /\ file'.open = TRUE
    BY <1>3, <1>4
  <2> QED
    BY <1>1, <1>2, <1>3, <2>1 DEF StateOK, TypeOK
<1>6. LoopOK'
  BY <1>1 DEF BeginUpload, Reading, TypeOK, LoopOK
<1> QED
  BY <1>1, <1>5, <1>6, PartsNext

LEMMA LoopTyped ==
  ASSUME TypeOK, Event \/ NoName \/ Ordinary \/ Dropped \/ ReadEAGAIN \/ ReadEnd PROVE TypeOK'
<1>1. ASSUME NetOK', UNCHANGED uploadVars, LoopOK' PROVE TypeOK'
  <2>1. StateOK'
    BY <1>1 DEF uploadVars, TypeOK, StateOK, Files
  <2> QED
    BY <1>1, <2>1, PartsNext
<1>2. ASSUME UNCHANGED clientVars PROVE NetOK'
  BY <1>2 DEF clientVars, TypeOK, NetOK
<1>3. CASE Event
  BY <1>1, <1>2, <1>3 DEF Event, TypeOK, LoopOK, uploadVars
<1>4. CASE NoName
  <2>1. NetOK' /\ uploading' = TRUE
    BY <1>4, ReceiveTyped DEF NoName
  <2> QED
    BY <1>4, <2>1, HangupTyped DEF NoName, Reading
<1>5. CASE Ordinary
  <2>1. NetOK'
    BY <1>5, ReceiveTyped DEF Ordinary
  <2>2. LoopOK'
    BY <1>5 DEF Ordinary, TypeOK, LoopOK, uploadVars
  <2> QED
    BY <1>1, <1>5, <2>1, <2>2 DEF Ordinary
<1>6. CASE Dropped
  <2>1. NetOK'
    BY <1>6, ReceiveTyped DEF Dropped
  <2>2. LoopOK'
    BY <1>6 DEF Dropped, TypeOK, LoopOK, uploadVars
  <2> QED
    BY <1>1, <1>6, <2>1, <2>2 DEF Dropped
<1>7. CASE ReadEAGAIN
  BY <1>1, <1>2, <1>7 DEF ReadEAGAIN, Reading, TypeOK, LoopOK, uploadVars
<1>8. CASE ReadEnd
  <2>1. NetOK' /\ uploading' \in BOOLEAN
    BY <1>2, <1>8 DEF ReadEnd, TypeOK
  <2> QED
    BY <1>8, <2>1, HangupTyped DEF ReadEnd, Reading
<1> QED
  BY <1>3, <1>4, <1>5, <1>6, <1>7, <1>8

LEMMA ProcessTyped == ASSUME TypeOK, Process PROVE TypeOK'
<1>1. NetOK' /\ data = <<>> /\ Chunk \in Seq(Tokens) /\ upload_buffer \in Seq(Tokens)
  BY ReceiveTyped, ChunkTyped DEF Process, Reading, TypeOK
<1>2. CASE ResetUpload /\ UNCHANGED <<data, place>>
  <2>1. StateOK' /\ upload_state' = "NOT"
    BY <1>1, <1>2, ResetTyped
  <2>2. LoopOK'
    BY <1>1, <1>2 DEF Process, Reading, TypeOK, LoopOK
  <2> QED
    BY <1>1, <2>1, <2>2, PartsNext
<1>3. CASE /\ data' = FullData /\ upload_buffer' = <<>>
           /\ place' = IF upload_state = "HEADERS" THEN "headers" ELSE "content"
           /\ UNCHANGED <<upload_state, file, boundary>>
  <2>1. data' \in Seq(Tokens)
    BY <1>1, <1>3, ConcatProperties DEF FullData
  <2>2. StateOK'
    BY <1>3, <2>1 DEF TypeOK, StateOK, Files
  <2>3. LoopOK'
    BY <1>3 DEF Process, TypeOK, LoopOK
  <2> QED
    BY <1>1, <2>2, <2>3, PartsNext
<1> QED
  BY <1>2, <1>3 DEF Process

LEMMA HeadersTyped == ASSUME TypeOK, HeadersEnd \/ HeadersGoOn PROVE TypeOK'
<1>1. NetOK'
  BY DEF HeadersEnd, HeadersGoOn, scanKeeps, clientVars, TypeOK, NetOK
<1>2. CASE HeadersEnd
  <2>1. PICK i \in 1..Len(data) : data' = From(data, i + 1)
    BY <1>2 DEF HeadersEnd
  <2>2. data' \in Seq(Tokens)
    BY <2>1, FromTyped DEF TypeOK
  <2>3. StateOK' /\ LoopOK'
    BY <1>2, <2>2 DEF HeadersEnd, scanKeeps, TypeOK, StateOK, LoopOK, Files
  <2> QED
    BY <1>1, <2>3, PartsNext
<1>3. CASE HeadersGoOn
  <2>1. StateOK' /\ LoopOK'
    BY <1>3 DEF HeadersGoOn, scanKeeps, TypeOK, StateOK, LoopOK, Files
  <2> QED
    BY <1>1, <2>1, PartsNext
<1> QED
  BY <1>2, <1>3

\* A step of the scan that stays in the upload, whatever is written.
LEMMA ScanTyped ==
  ASSUME TypeOK, Scanning, UNCHANGED scanKeeps, upload_buffer' \in Seq(Tokens),
         data' \in Seq(Tokens), file' \in Files, file'.open = file.open,
         UNCHANGED <<upload_state, registered, answer>>,
         place' = IF data' = <<>> THEN "read" ELSE "content"
  PROVE  TypeOK'
<1>1. NetOK'
  BY DEF scanKeeps, clientVars, TypeOK, NetOK
<1>2. StateOK'
  BY DEF scanKeeps, TypeOK, StateOK
<1>3. LoopOK'
  BY DEF scanKeeps, Scanning, TypeOK, LoopOK
<1> QED
  BY <1>1, <1>2, <1>3, PartsNext

LEMMA NoMarkerTyped == ASSUME TypeOK, NoMarker PROVE TypeOK'
<1> DEFINE safe_write == (SizeMod + Len(data) - MarkerLen) % SizeMod
           missing == IF MarkerLen <= Len(data) THEN 0 ELSE MarkerLen - Len(data)
           held == [i \in 1..missing |-> Garbage]
           kept == From(data, Len(data) - (MarkerLen - missing) + 1)
<1>1. /\ data \in Seq(Tokens) /\ Len(data) \in Nat /\ MarkerLen = 2 /\ SizeMod \in Nat
      /\ SizeMod > 0 /\ file \in Files
  <2>1. SizeMod \in Nat /\ SizeMod > MaxRead + BufLimit + MarkerLen /\ MarkerLen = 2
        /\ MaxRead \in Nat /\ BufLimit \in Nat
    BY UploadAssumption, MarkerTyped
  <2>2. SizeMod > 0
    BY <2>1
  <2> QED
    BY <2>1, <2>2, LenProperties DEF TypeOK, Files
<1>2. safe_write \in Int
  BY <1>1
<1>3. missing \in Nat /\ Len(data) - (MarkerLen - missing) + 1 \in Nat \ {0}
  BY <1>1
<1>4. held \in Seq(Tokens) /\ kept \in Seq(Tokens)
  <2>1. Garbage \in Tokens
    BY DEF Tokens
  <2> HIDE DEF missing
  <2>2. held \in Seq(Tokens)
    BY <1>3, <2>1
  <2> QED
    BY <1>1, <1>3, <2>2, FromTyped
<1>5. /\ file' = (IF safe_write <= Len(data) THEN Written(SubSeq(data, 1, safe_write))
                  ELSE [file EXCEPT !.bad = TRUE])
      /\ upload_buffer' = held \o kept /\ data' = <<>> /\ place' = "read"
      /\ UNCHANGED <<scanKeeps, upload_state, registered, answer>>
  BY DEF NoMarker
<1> HIDE DEF safe_write, held, kept
<1>6. upload_buffer' \in Seq(Tokens)
  BY <1>4, <1>5, ConcatProperties
<1>7. file' \in Files /\ file'.open = file.open
  <2>1. CASE safe_write <= Len(data)
    <3>1. SubSeq(data, 1, safe_write) \in Seq(Tokens)
      BY <1>1, <1>2, <2>1, PartTyped
    <3> QED
      BY <1>1, <1>5, <2>1, <3>1, WrittenTyped DEF Files
  <2>2. CASE ~(safe_write <= Len(data))
    BY <1>1, <1>5, <2>2 DEF Files
  <2> QED
    BY <2>1, <2>2
<1> QED
  BY <1>5, <1>6, <1>7, ScanTyped DEF NoMarker

LEMMA MarkersTyped == ASSUME TypeOK, InnerMarker \/ ClosingMarker PROVE TypeOK'
<1>1. data \in Seq(Tokens) /\ file \in Files /\ Len(data) \in Nat /\ MarkerLen = 2
  BY LenProperties, MarkerTyped DEF TypeOK, Files
<1>2. \A i \in 1..Len(data) : /\ Before(data, i) \in Seq(Tokens)
                              /\ From(data, i + MarkerLen) \in Seq(Tokens)
  BY <1>1, BeforeTyped, FromTyped
<1>3. \A i \in 1..Len(data) : Written(Before(data, i)) \in Files /\ Written(Before(data, i)).open = file.open
  BY <1>1, <1>2, WrittenTyped DEF Files
<1>4. CASE InnerMarker
  <2>1. PICK i \in 1..Len(data) :
          /\ file' = Written(Before(data, i)) /\ data' = From(data, i + MarkerLen)
          /\ place' = IF data' = <<>> THEN "read" ELSE "content"
    BY <1>4 DEF InnerMarker
  <2>2. data' \in Seq(Tokens) /\ file' \in Files /\ file'.open = file.open
    BY <1>2, <1>3, <2>1
  <2>3. upload_buffer' \in Seq(Tokens)
    BY <1>4 DEF InnerMarker, TypeOK
  <2> QED
    BY <1>4, <2>1, <2>2, <2>3, ScanTyped DEF InnerMarker
<1>5. CASE ClosingMarker
  <2>1. PICK i \in 1..Len(data) : file' = [Written(Before(data, i)) EXCEPT !.open = FALSE]
    BY <1>5 DEF ClosingMarker
  <2>2. file' \in Files /\ file'.open = FALSE
    <3> DEFINE w == Written(Before(data, i))
    <3>1. w \in Files
      BY <1>3
    <3> HIDE DEF w
    <3>2. [w EXCEPT !.open = FALSE] \in Files /\ [w EXCEPT !.open = FALSE].open = FALSE
      BY <3>1 DEF Files
    <3> QED
      BY <2>1, <3>2 DEF w
  <2>3. NetOK' /\ StateOK' /\ LoopOK'
    BY <1>5, <2>2 DEF ClosingMarker, scanKeeps, clientVars, TypeOK, NetOK, StateOK, LoopOK
  <2> QED
    BY <2>3, PartsNext
<1> QED
  BY <1>4, <1>5

LEMMA StepTyped == TypeOK /\ [Next]_vars => TypeOK'
<1> SUFFICES ASSUME TypeOK, [Next]_vars PROVE TypeOK'
  OBVIOUS
<1>1. CASE UNCHANGED vars
  BY <1>1 DEF vars, clientVars, uploadVars, TypeOK
<1> QED
  BY <1>1, NetTyped, BeginTyped, LoopTyped, ProcessTyped, HeadersTyped, NoMarkerTyped, MarkersTyped
     DEF Next, Loop, Scan

\* In every reachable state of an upload, for every file and all sizes of the buffers, a file
\* is open exactly while an upload is in progress, and data is at hand only while it is
\* scanned (main's upload branch, process_upload_data, reset).
THEOREM TypeCorrect == Spec => []TypeOK
BY InitTyped, StepTyped, PTL DEF Spec

(***************************************************************************)
(* The inductive invariant of Conserved and StoredPart, by positions.      *)
(***************************************************************************)
Size == Len(Payload)

\* The file's bytes stand in s behind a, then come the line end and, once or not at all, the
\* last marker, then the dashes.  s may end anywhere.
Form(s, a) ==
  \A k \in 1..Len(s) :
    /\ k <= a => s[k] \in Items \ {"dashes"}
    /\ k \in (a + 1)..(a + Size) => s[k] = Payload[k - a]
    /\ k = a + Size + 1 => s[k] = "nl"
    /\ k > a + Size + 1 => s[k] \in {"m1", "m2", "dashes", "nl"}
    /\ k > a + Size + 1 /\ s[k] = "m1" => k = a + Size + 2
    /\ s[k] = "dashes" => k \in {a + Size + 2, a + Size + 4}

\* It does not end before them unless the client has left.
Long(s, a) == ~fin => Len(s) > a + Size

\* The text s goes on behind n with the opening of the part and ends with it.
Opens(s, n) ==
  \E o \in Openings : Len(s) = n + Len(o) /\ \A k \in 1..Len(o) : s[n + k] = o[k]

\* Behind h and up to a stands the opening of the part.
Front(s, h, a) ==
  \E o \in Openings :
    Len(o) = a - h /\ \A k \in 1..Len(s) : k \in (h + 1)..a => s[k] = o[k - h]

Body(s) == \E a \in Nat : Form(s, a) /\ Long(s, a) /\ Front(s, 0, a)

NoPost(s) == \A k \in 1..Len(s) : s[k] # "post"

\* s is the request from its start: the first blank line is at h, before the file's bytes.
Starts(s, h) ==
  \A k \in 1..Len(s) : /\ s[k] = "post" <=> k = 1
                       /\ k < h => s[k] # "blank"
                       /\ k = h => s[k] = "blank"

Fresh(s) ==
  \E a \in Nat : \E h \in 1..a : Form(s, a) /\ Long(s, a) /\ Starts(s, h) /\ Front(s, h, a)

Unread == net \o rest
Ahead == upload_buffer \o data \o net \o rest

Scanned ==
  /\ place \in {"headers", "content"} =>
       upload_buffer = <<>> /\ uploading /\ Len(data) <= BufLimit + MaxRead
  /\ upload_state = "NOT" => upload_buffer = <<>>

\* A request is recognised only at its start, and once.
Once ==
  /\ upload_state = "NOT" => Fresh(Unread) \/ NoPost(Unread)
  /\ upload_state # "NOT" => NoPost(Unread)

InHeaders ==
  upload_state = "HEADERS" /\ uploading => file.text = <<>> /\ ~file.bad /\ Fresh(Ahead)

InContent == upload_state = "CONTENT" /\ uploading /\ ~file.bad => Body(InOrder)

Stored == answer = "stored" => upload_state = "NOT" /\ NoPost(Unread) /\ StoredPart

UploadInv == TypeOK /\ Scanned /\ Once /\ InHeaders /\ InContent /\ Stored

(***************************************************************************)
(* Positions.                                                              *)
(***************************************************************************)
LEMMA Kinds ==
  /\ Size \in Nat /\ \A j \in 1..Size : Payload[j] \in Data /\ Payload[j] \notin Items
  /\ Payload \in Seq(Tokens) /\ Data \cap Items = {}
<1>1. Payload \in Seq(Data) /\ Data \cap Items = {}
  BY UploadAssumption
<1>2. Payload \in Seq(Tokens)
  BY <1>1, SeqMonotonic DEF Tokens
<1> QED
  BY <1>1, <1>2, LenProperties DEF Size

\* The openings: the marker is at the start of one, and without it the rest is one too.
LEMMA OpeningsAre ==
  ASSUME NEW o \in Openings
  PROVE  /\ o \in Seq(Tokens) /\ Len(o) \in 1..4
         /\ \A k \in 1..Len(o) : o[k] = "m1" => k = 1
         /\ o[1] = "m1" => \E c \in Openings : /\ Len(c) = Len(o) - 2
                                             /\ \A k \in 1..Len(c) : c[k] = o[k + 2]
<1>1. \A x, y, z, w \in Tokens :
        /\ <<x>> \in Seq(Tokens) /\ <<x, y>> \in Seq(Tokens)
        /\ <<x, y, z>> \in Seq(Tokens) /\ <<x, y, z, w>> \in Seq(Tokens)
  OBVIOUS
<1>2. {"blank", "name", "m1", "m2"} \subseteq Tokens
  BY DEF Tokens, Items
<1>3. CASE o = <<"blank">>
  BY <1>1, <1>2, <1>3
<1>4. CASE o = <<"name", "blank">>
  BY <1>1, <1>2, <1>4
<1>5. CASE o = <<"m1", "m2", "blank">>
  <2> DEFINE c == <<"blank">>
  <2>1. c \in Openings /\ Len(c) = Len(o) - 2 /\ \A k \in 1..Len(c) : c[k] = o[k + 2]
    BY <1>5 DEF Openings
  <2>2. o \in Seq(Tokens) /\ Len(o) = 3 /\ o[2] = "m2" /\ o[3] = "blank"
    BY <1>1, <1>2, <1>5
  <2> HIDE DEF c
  <2> QED
    BY <2>1, <2>2
<1>6. CASE o = <<"m1", "m2", "name", "blank">>
  <2> DEFINE c == <<"name", "blank">>
  <2>1. c \in Openings /\ Len(c) = Len(o) - 2 /\ \A k \in 1..Len(c) : c[k] = o[k + 2]
    BY <1>6 DEF Openings
  <2>2. o \in Seq(Tokens) /\ Len(o) = 4 /\ o[2] = "m2" /\ o[3] = "name" /\ o[4] = "blank"
    BY <1>1, <1>2, <1>6
  <2> HIDE DEF c
  <2> QED
    BY <2>1, <2>2
<1> QED
  BY <1>3, <1>4, <1>5, <1>6 DEF Openings

\* A marker is before the file's bytes or behind the line end after them.
LEMMA MarkerPlace ==
  ASSUME NEW s \in Seq(Tokens), NEW a \in Nat, Form(s, a), NEW p \in Nat \ {0},
         p + 1 <= Len(s), s[p] = "m1", s[p + 1] = "m2"
  PROVE  p + 1 <= a \/ p = a + Size + 2
<1>1. Len(s) \in Nat /\ p \in 1..Len(s) /\ p + 1 \in 1..Len(s) /\ Size \in Nat
  BY LenProperties, Kinds
<1>2. \A k \in 1..Len(s) : k \in (a + 1)..(a + Size) => s[k] \notin Items
  <2> SUFFICES ASSUME NEW k \in 1..Len(s), k \in (a + 1)..(a + Size) PROVE s[k] \notin Items
    OBVIOUS
  <2>1. k - a \in 1..Size /\ s[k] = Payload[k - a]
    BY <1>1 DEF Form
  <2> QED
    BY <2>1, Kinds
<1>3. p \notin (a + 1)..(a + Size) /\ p + 1 \notin (a + 1)..(a + Size)
  BY <1>1, <1>2 DEF Items
<1>4. p # a + Size + 1 /\ p + 1 # a + Size + 1
  BY <1>1 DEF Form
<1>5. p > a + Size + 1 => p = a + Size + 2
  BY <1>1 DEF Form
<1> QED
  BY <1>1, <1>3, <1>4, <1>5

LEMMA FormBefore ==
  ASSUME NEW s \in Seq(Tokens), NEW t \in Seq(Tokens), NEW a \in Nat, Form(s, a),
         NEW p \in Nat \ {0}, p + 1 <= a, Len(t) = Len(s) - 2, p + 1 <= Len(s),
         \A k \in 1..Len(t) : t[k] = IF k < p THEN s[k] ELSE s[k + 2]
  PROVE  a - 2 \in Nat /\ Form(t, a - 2)
<1>1. Len(s) \in Nat /\ Len(t) \in Nat /\ Size \in Nat /\ a - 2 \in Nat
  BY LenProperties, Kinds
<1> DEFINE b == a - 2
<1> HIDE DEF b
<1>2. b \in Nat /\ a = b + 2
  BY <1>1 DEF b
<1> SUFFICES ASSUME NEW k \in 1..Len(t)
             PROVE  /\ k <= b => t[k] \in Items \ {"dashes"}
                    /\ k \in (b + 1)..(b + Size) => t[k] = Payload[k - b]
                    /\ k = b + Size + 1 => t[k] = "nl"
                    /\ k > b + Size + 1 => t[k] \in {"m1", "m2", "dashes", "nl"}
                    /\ k > b + Size + 1 /\ t[k] = "m1" => k = b + Size + 2
                    /\ t[k] = "dashes" => k \in {b + Size + 2, b + Size + 4}
  BY <1>1 DEF Form, b
<1>3. CASE k < p
  <2>1. k \in 1..Len(s) /\ t[k] = s[k] /\ k <= a /\ k <= b
    BY <1>1, <1>2, <1>3
  <2>2. s[k] \in Items \ {"dashes"}
    BY <2>1 DEF Form
  <2> QED
    BY <1>1, <1>2, <2>1, <2>2
<1>4. CASE k >= p
  <2> DEFINE j == k + 2
  <2>1. j \in 1..Len(s) /\ t[k] = s[j]
    BY <1>1, <1>4
  <2>2. /\ k <= b <=> j <= a
        /\ k \in (b + 1)..(b + Size) <=> j \in (a + 1)..(a + Size)
        /\ k = b + Size + 1 <=> j = a + Size + 1
        /\ k > b + Size + 1 <=> j > a + Size + 1
        /\ k = b + Size + 2 <=> j = a + Size + 2
        /\ k = b + Size + 4 <=> j = a + Size + 4
        /\ k - b = j - a
    BY <1>1, <1>2
  <2> HIDE DEF j
  <2> QED
    BY <2>1, <2>2 DEF Form
<1> QED
  BY <1>1, <1>3, <1>4

LEMMA FormBehind ==
  ASSUME NEW s \in Seq(Tokens), NEW t \in Seq(Tokens), NEW a \in Nat, Form(s, a),
         Len(t) = Len(s) - 2,
         \A k \in 1..Len(t) : t[k] = IF k < a + Size + 2 THEN s[k] ELSE s[k + 2]
  PROVE  Form(t, a)
<1>1. Len(s) \in Nat /\ Len(t) \in Nat /\ Size \in Nat
  BY LenProperties, Kinds
<1> SUFFICES ASSUME NEW k \in 1..Len(t)
             PROVE  /\ k <= a => t[k] \in Items \ {"dashes"}
                    /\ k \in (a + 1)..(a + Size) => t[k] = Payload[k - a]
                    /\ k = a + Size + 1 => t[k] = "nl"
                    /\ k > a + Size + 1 => t[k] \in {"m1", "m2", "dashes", "nl"}
                    /\ k > a + Size + 1 /\ t[k] = "m1" => k = a + Size + 2
                    /\ t[k] = "dashes" => k \in {a + Size + 2, a + Size + 4}
  BY DEF Form
<1>2. CASE k < a + Size + 2
  <2>1. k \in 1..Len(s) /\ t[k] = s[k]
    BY <1>1, <1>2
  <2> QED
    BY <2>1 DEF Form
<1>3. CASE ~(k < a + Size + 2)
  <2>1. k + 2 \in 1..Len(s) /\ t[k] = s[k + 2]
    BY <1>1, <1>3
  <2>2. k + 2 > a + Size + 1 /\ k + 2 # a + Size + 2 /\ k > a + Size + 1
    BY <1>1, <1>3
  <2>3. /\ s[k + 2] \in {"m1", "m2", "dashes", "nl"} /\ s[k + 2] # "m1"
        /\ s[k + 2] = "dashes" => k + 2 = a + Size + 4
    BY <2>1, <2>2 DEF Form
  <2> QED
    BY <1>1, <2>1, <2>2, <2>3
<1> QED
  BY <1>1, <1>2, <1>3

\* A marker that is cut out, wherever it is, takes none of the file's bytes with it.
LEMMA BodyCut ==
  ASSUME NEW s \in Seq(Tokens), NEW t \in Seq(Tokens), Body(s), NEW p \in Nat \ {0},
         p + 1 <= Len(s), s[p] = "m1", s[p + 1] = "m2", Len(t) = Len(s) - 2,
         \A k \in 1..Len(t) : t[k] = IF k < p THEN s[k] ELSE s[k + 2]
  PROVE  Body(t)
<1>1. PICK a \in Nat : Form(s, a) /\ Long(s, a) /\ Front(s, 0, a)
  BY DEF Body
<1>5. PICK o \in Openings :
        Len(o) = a /\ \A k \in 1..Len(s) : k \in 1..a => s[k] = o[k]
  <2>1. PICK o \in Openings :
          Len(o) = a - 0 /\ \A k \in 1..Len(s) : k \in (0 + 1)..a => s[k] = o[k - 0]
    BY <1>1 DEF Front
  <2> QED
    BY <2>1
<1>2. Len(s) \in Nat /\ Size \in Nat
  BY LenProperties, Kinds
<1>3. CASE p + 1 <= a
  <2>1. a - 2 \in Nat /\ Form(t, a - 2)
    BY <1>1, <1>3, FormBefore
  <2>2. Long(t, a - 2)
    BY <1>1, <1>2 DEF Long
  <2>3. Front(t, 0, a - 2)
    <3>1. p \in 1..Len(s) /\ p \in 1..a /\ p \in 1..Len(o)
      BY <1>2, <1>3, <1>5
    <3>2. o[p] = "m1"
      BY <1>5, <3>1
    <3>3. p = 1
      BY <3>1, <3>2, OpeningsAre
    <3>4. PICK c \in Openings : Len(c) = Len(o) - 2 /\ \A k \in 1..Len(c) : c[k] = o[k + 2]
      BY <3>2, <3>3, OpeningsAre
    <3>5. ASSUME NEW k \in 1..Len(t), k \in (0 + 1)..(a - 2) PROVE t[k] = c[k - 0]
      <4>1. /\ k \in Int /\ ~(k < p) /\ k + 2 \in 1..Len(s) /\ k + 2 \in 1..a
            /\ k \in 1..Len(c) /\ k - 0 = k
        BY <1>2, <1>5, <3>3, <3>4, <3>5
      <4> QED
        BY <1>5, <3>4, <4>1
    <3>6. Len(c) = (a - 2) - 0
      BY <1>5, <3>4
    <3> QED
      BY <3>5, <3>6 DEF Front
  <2> QED
    BY <2>1, <2>2, <2>3 DEF Body
<1>4. CASE p = a + Size + 2
  <2>1. Form(t, a)
    BY <1>1, <1>4, FormBehind
  <2>2. Long(t, a)
    BY <1>2, <1>4 DEF Long
  <2>3. Front(t, 0, a)
    <3>1. ASSUME NEW k \in 1..Len(t), k \in (0 + 1)..a PROVE t[k] = o[k - 0]
      <4>1. k < p /\ k \in 1..Len(s) /\ k \in 1..a /\ k - 0 = k
        BY <1>2, <1>4, <3>1
      <4> QED
        BY <1>5, <4>1
    <3>2. Len(o) = a - 0
      BY <1>5
    <3> QED
      BY <3>1, <3>2 DEF Front
  <2> QED
    BY <2>1, <2>2, <2>3 DEF Body
<1> QED
  BY <1>1, <1>3, <1>4, MarkerPlace

\* What ends earlier has the same form.
LEMMA FormEnds ==
  ASSUME NEW s \in Seq(Tokens), NEW t \in Seq(Tokens), NEW a \in Nat, Form(s, a),
         Len(t) <= Len(s), \A k \in 1..Len(t) : t[k] = s[k]
  PROVE  Form(t, a)
<1>1. Len(s) \in Nat /\ Len(t) \in Nat
  BY LenProperties
<1>2. \A k \in 1..Len(t) : k \in 1..Len(s)
  BY <1>1
<1> QED
  BY <1>2 DEF Form

LEMMA FrontEnds ==
  ASSUME NEW s \in Seq(Tokens), NEW t \in Seq(Tokens), NEW h, NEW a, Front(s, h, a),
         Len(t) <= Len(s), \A k \in 1..Len(t) : t[k] = s[k]
  PROVE  Front(t, h, a)
<1>1. Len(s) \in Nat /\ Len(t) \in Nat
  BY LenProperties
<1>2. \A k \in 1..Len(t) : k \in 1..Len(s)
  BY <1>1
<1> QED
  BY <1>2 DEF Front

\* The bytes up to the closing marker end in the file and its line end.
LEMMA ClosingPlace ==
  ASSUME NEW s \in Seq(Tokens), NEW a \in Nat, Form(s, a), NEW p \in Nat \ {0},
         p + 2 <= Len(s), s[p] = "m1", s[p + 1] = "m2", s[p + 2] = "dashes"
  PROVE  p = a + Size + 2
<1>1. Len(s) \in Nat /\ Size \in Nat /\ p + 2 \in 1..Len(s)
  BY LenProperties, Kinds
<1>2. p + 2 \in {a + Size + 2, a + Size + 4}
  BY <1>1 DEF Form
<1> QED
  BY <1>1, <1>2, MarkerPlace

\* What is behind the first blank line.
LEMMA HeadCut ==
  ASSUME NEW s \in Seq(Tokens), NEW w \in Seq(Tokens), Fresh(s), NEW i \in Nat \ {0},
         Len(s) = Len(w) + i, \A k \in 1..Len(w) : w[k] = s[k + i],
         s[i] = "blank", \A k \in 1..(i - 1) : s[k] # "blank"
  PROVE  Body(w) /\ NoPost(w)
<1>1. PICK a \in Nat :
        \E h \in 1..a : Form(s, a) /\ Long(s, a) /\ Starts(s, h) /\ Front(s, h, a)
  BY DEF Fresh
<1>2. PICK h \in 1..a : Form(s, a) /\ Long(s, a) /\ Starts(s, h) /\ Front(s, h, a)
  BY <1>1
<1>3. Len(s) \in Nat /\ Len(w) \in Nat /\ Size \in Nat /\ i \in 1..Len(s)
  BY LenProperties, Kinds
<1>4. i = h
  <2>1. ~(i < h)
    BY <1>2, <1>3 DEF Starts
  <2>2. ~(h < i)
    <3>1. SUFFICES ASSUME h < i PROVE FALSE
      OBVIOUS
    <3>2. h \in 1..Len(s) /\ h \in 1..(i - 1)
      BY <1>3, <3>1
    <3> QED
      BY <1>2, <3>2 DEF Starts
  <2> QED
    BY <2>1, <2>2
<1>5. \A k \in 1..Len(w) : k + i \in 1..Len(s) /\ k + i # 1
  BY <1>3
<1>6. NoPost(w)
  BY <1>2, <1>5 DEF NoPost, Starts
<1> DEFINE b == a - i
<1>7. b \in Nat /\ a = b + i
  BY <1>2, <1>4
<1> HIDE DEF b
<1>8. Form(w, b)
  <2> SUFFICES ASSUME NEW k \in 1..Len(w)
               PROVE  /\ k <= b => w[k] \in Items \ {"dashes"}
                      /\ k \in (b + 1)..(b + Size) => w[k] = Payload[k - b]
                      /\ k = b + Size + 1 => w[k] = "nl"
                      /\ k > b + Size + 1 => w[k] \in {"m1", "m2", "dashes", "nl"}
                      /\ k > b + Size + 1 /\ w[k] = "m1" => k = b + Size + 2
                      /\ w[k] = "dashes" => k \in {b + Size + 2, b + Size + 4}
    BY DEF Form
  <2> DEFINE j == k + i
  <2>1. j \in 1..Len(s) /\ w[k] = s[j]
    BY <1>5
  <2>2. /\ k <= b <=> j <= a
        /\ k \in (b + 1)..(b + Size) <=> j \in (a + 1)..(a + Size)
        /\ k = b + Size + 1 <=> j = a + Size + 1
        /\ k > b + Size + 1 <=> j > a + Size + 1
        /\ k = b + Size + 2 <=> j = a + Size + 2
        /\ k = b + Size + 4 <=> j = a + Size + 4
        /\ k - b = j - a
    BY <1>3, <1>7
  <2> HIDE DEF j
  <2> QED
    BY <1>2, <2>1, <2>2 DEF Form
<1>9. Long(w, b)
  BY <1>2, <1>3, <1>7 DEF Long
<1>10. Front(w, 0, b)
  <2>1. PICK o \in Openings :
          Len(o) = a - h /\ \A k \in 1..Len(s) : k \in (h + 1)..a => s[k] = o[k - h]
    BY <1>2 DEF Front
  <2>2. ASSUME NEW k \in 1..Len(w), k \in (0 + 1)..b PROVE w[k] = o[k - 0]
    <3>1. k + i \in 1..Len(s) /\ k + i \in (h + 1)..a /\ k + i - h = k - 0
      BY <1>3, <1>4, <1>5, <1>7, <2>2
    <3>2. w[k] = s[k + i]
      OBVIOUS
    <3> QED
      BY <2>1, <3>1, <3>2
  <2>3. Len(o) = b - 0
    BY <1>3, <1>4, <1>7, <2>1
  <2> QED
    BY <2>2, <2>3 DEF Front
<1> QED
  BY <1>6, <1>7, <1>8, <1>9, <1>10 DEF Body

(***************************************************************************)
(* What is where, as sequences.                                            *)
(***************************************************************************)
LEMMA Joined ==
  /\ \A s, t \in Seq(Tokens) : s \o t \in Seq(Tokens) /\ Len(s \o t) = Len(s) + Len(t)
  /\ \A s, t, u \in Seq(Tokens) : (s \o t) \o u = s \o (t \o u)
  /\ \A s \in Seq(Tokens) : s \o <<>> = s /\ <<>> \o s = s
  /\ <<>> \in Seq(Tokens)
BY ConcatProperties, ConcatAssociative, ConcatEmptySeq, EmptySeq

LEMMA JoinedAt ==
  ASSUME NEW s \in Seq(Tokens), NEW t \in Seq(Tokens), NEW k \in 1..(Len(s) + Len(t))
  PROVE  (s \o t)[k] = IF k <= Len(s) THEN s[k] ELSE t[k - Len(s)]
BY ConcatProperties

LEMMA CutAt ==
  ASSUME NEW s \in Seq(Tokens), NEW k \in 0..Len(s)
  PROVE  /\ SubSeq(s, 1, k) \in Seq(Tokens) /\ From(s, k + 1) \in Seq(Tokens)
         /\ s = SubSeq(s, 1, k) \o From(s, k + 1)
         /\ Len(SubSeq(s, 1, k)) = k /\ Len(From(s, k + 1)) = Len(s) - k
         /\ \A j \in 1..k : SubSeq(s, 1, k)[j] = s[j]
         /\ \A j \in 1..(Len(s) - k) : From(s, k + 1)[j] = s[k + j]
<1>1. Len(s) \in Nat /\ 1 \in Nat \ {0} /\ k \in Int /\ k <= Len(s) /\ k + 1 \in Nat \ {0}
      /\ k + 1 \in Int /\ Len(s) \in Int /\ 1 \in Int
  BY LenProperties
<1>2. \A j \in 1..k : s[j] \in Tokens
  BY <1>1, ElementOfSeq
<1>3. \A j \in (k + 1)..Len(s) : s[j] \in Tokens
  BY <1>1, ElementOfSeq
<1>4. /\ SubSeq(s, 1, k) \in Seq(Tokens) /\ Len(SubSeq(s, 1, k)) = IF 1 <= k THEN k - 1 + 1 ELSE 0
      /\ \A j \in 1..(k - 1 + 1) : SubSeq(s, 1, k)[j] = s[1 + j - 1]
  BY <1>1, <1>2, SubSeqProperties
<1>5. /\ From(s, k + 1) \in Seq(Tokens)
      /\ Len(From(s, k + 1)) = IF k + 1 <= Len(s) THEN Len(s) - (k + 1) + 1 ELSE 0
      /\ \A j \in 1..(Len(s) - (k + 1) + 1) : From(s, k + 1)[j] = s[(k + 1) + j - 1]
  BY <1>1, <1>3, SubSeqProperties DEF From
<1>6. SubSeq(s, 1, k) \o SubSeq(s, k + 1, Len(s)) = SubSeq(s, 1, Len(s))
  <2>1. 1 \in 1..(Len(s) + 1) /\ k \in (1 - 1)..Len(s) /\ Len(s) \in k..Len(s)
    BY <1>1
  <2> QED
    BY <2>1, ConcatAdjacentSubSeq
<1>7. SubSeq(s, 1, Len(s)) = s
  BY SubSeqFull
<1>8. Len(SubSeq(s, 1, k)) = k /\ \A j \in 1..k : SubSeq(s, 1, k)[j] = s[j]
  BY <1>1, <1>4
<1>9. /\ Len(From(s, k + 1)) = Len(s) - k
      /\ \A j \in 1..(Len(s) - k) : From(s, k + 1)[j] = s[k + j]
  BY <1>1, <1>5
<1> QED
  BY <1>4, <1>5, <1>6, <1>7, <1>8, <1>9 DEF From

LEMMA NoPostJoined ==
  ASSUME NEW s \in Seq(Tokens), NEW t \in Seq(Tokens), NoPost(s \o t)
  PROVE  NoPost(s) /\ NoPost(t)
<1>1. Len(s) \in Nat /\ Len(t) \in Nat /\ Len(s \o t) = Len(s) + Len(t)
  BY LenProperties, Joined
<1>2. ASSUME NEW k \in 1..Len(s) PROVE s[k] # "post"
  <2>1. k \in 1..(Len(s) + Len(t)) /\ k <= Len(s)
    BY <1>1
  <2> QED
    BY <1>1, <2>1, JoinedAt DEF NoPost
<1>3. ASSUME NEW k \in 1..Len(t) PROVE t[k] # "post"
  <2>1. /\ k + Len(s) \in 1..(Len(s) + Len(t)) /\ ~(k + Len(s) <= Len(s))
        /\ k + Len(s) - Len(s) = k
    BY <1>1
  <2> QED
    BY <1>1, <2>1, JoinedAt DEF NoPost
<1> QED
  BY <1>2, <1>3 DEF NoPost

\* What read returns is the first of what is unread.
LEMMA Received ==
  ASSUME TypeOK, Receive
  PROVE  /\ Chunk \in Seq(Tokens) /\ Len(Chunk) \in 1..MaxRead
         /\ net' \in Seq(Tokens) /\ Unread' \in Seq(Tokens) /\ Unread = Chunk \o Unread'
<1> DEFINE b == IF Len(net) < MaxRead THEN Len(net) ELSE MaxRead
<1>1. /\ net \in Seq(Tokens) /\ rest \in Seq(Tokens) /\ Len(net) \in Nat \ {0}
      /\ MaxRead \in Nat \ {0} /\ rest' = rest
  BY EmptySeq, UploadAssumption DEF TypeOK, Receive
<1>2. b \in 0..Len(net) /\ b \in 1..MaxRead
  BY <1>1
<1>3. Chunk = SubSeq(net, 1, b)
  BY DEF Chunk
<1> HIDE DEF b
<1>4. Chunk \in Seq(Tokens) /\ Len(Chunk) = b
  BY <1>1, <1>2, <1>3, CutAt
<1>5. net' = From(net, b + 1)
  BY <1>4 DEF Receive
<1>6. net' \in Seq(Tokens) /\ net = Chunk \o net'
  BY <1>1, <1>2, <1>3, <1>5, CutAt
<1> QED
  BY <1>1, <1>2, <1>4, <1>6, Joined, SMTT(30) DEF Unread

\* The start of the request is never met again once something was read.
LEMMA ReadOnce ==
  ASSUME TypeOK, Once, Receive PROVE NoPost(Unread')
<1>1. /\ Chunk \in Seq(Tokens) /\ Len(Chunk) \in Nat \ {0} /\ Unread' \in Seq(Tokens)
      /\ Unread = Chunk \o Unread' /\ Len(Unread') \in Nat
      /\ Len(Unread) = Len(Chunk) + Len(Unread')
  BY Received, Joined, LenProperties
<1>2. CASE NoPost(Unread)
  BY <1>1, <1>2, NoPostJoined
<1>3. CASE Fresh(Unread)
  <2>1. \A k \in 1..Len(Unread) : Unread[k] = "post" <=> k = 1
    BY <1>3 DEF Fresh, Starts
  <2>2. ASSUME NEW k \in 1..Len(Unread') PROVE Unread'[k] # "post"
    <3>1. /\ k + Len(Chunk) \in 1..Len(Unread) /\ k + Len(Chunk) # 1
          /\ ~(k + Len(Chunk) <= Len(Chunk)) /\ k + Len(Chunk) - Len(Chunk) = k
      BY <1>1
    <3>2. Unread[k + Len(Chunk)] = Unread'[k]
      BY <1>1, <3>1, JoinedAt
    <3> QED
      BY <2>1, <3>1, <3>2
  <2> QED
    BY <2>2 DEF NoPost
<1> QED
  BY <1>2, <1>3 DEF Once, TypeOK

\* What stands before what is unread.
LEMMA Ordered ==
  ASSUME TypeOK
  PROVE  /\ Unread \in Seq(Tokens) /\ Ahead \in Seq(Tokens) /\ InOrder \in Seq(Tokens)
         /\ Ahead = (upload_buffer \o data) \o Unread
         /\ InOrder = ((file.text \o upload_buffer) \o data) \o Unread
<1>1. /\ net \in Seq(Tokens) /\ rest \in Seq(Tokens) /\ upload_buffer \in Seq(Tokens)
      /\ data \in Seq(Tokens) /\ file.text \in Seq(Tokens)
  BY DEF TypeOK
<1> DEFINE x == upload_buffer \o data
           y == (file.text \o upload_buffer) \o data
<1>2. x \in Seq(Tokens) /\ y \in Seq(Tokens)
  BY <1>1, Joined
<1>3. Ahead = (x \o net) \o rest /\ InOrder = (y \o net) \o rest
  BY DEF Ahead, InOrder
<1> HIDE DEF x, y
<1>4. (x \o net) \o rest = x \o Unread /\ (y \o net) \o rest = y \o Unread
  <2>1. Unread = net \o rest
    BY DEF Unread
  <2>2. \A z \in Seq(Tokens) : (z \o net) \o rest = z \o (net \o rest)
    <3> SUFFICES ASSUME NEW z \in Seq(Tokens) PROVE (z \o net) \o rest = z \o (net \o rest)
      OBVIOUS
    <3>1. net \in Seq(Tokens) /\ rest \in Seq(Tokens)
      BY <1>1
    <3> QED
      BY <3>1, ConcatAssociative, SMTT(30)
  <2> QED
    BY <1>2, <2>1, <2>2
<1>5. Unread \in Seq(Tokens)
  BY <1>1, Joined DEF Unread
<1>6. x \o Unread \in Seq(Tokens) /\ y \o Unread \in Seq(Tokens)
  BY <1>2, <1>5, Joined
<1> QED
  BY <1>3, <1>4, <1>5, <1>6 DEF x, y

LEMMA OrderedNext ==
  ASSUME TypeOK'
  PROVE  /\ Unread' \in Seq(Tokens) /\ Ahead' \in Seq(Tokens) /\ InOrder' \in Seq(Tokens)
         /\ Ahead' = (upload_buffer' \o data') \o Unread'
         /\ InOrder' = ((file'.text \o upload_buffer') \o data') \o Unread'
<1>1. /\ net' \in Seq(Tokens) /\ rest' \in Seq(Tokens) /\ upload_buffer' \in Seq(Tokens)
      /\ data' \in Seq(Tokens) /\ file'.text \in Seq(Tokens)
  BY DEF TypeOK
<1> DEFINE x == upload_buffer' \o data'
           y == (file'.text \o upload_buffer') \o data'
<1>2. x \in Seq(Tokens) /\ y \in Seq(Tokens)
  BY <1>1, Joined
<1>3. Ahead' = (x \o net') \o rest' /\ InOrder' = (y \o net') \o rest'
  BY DEF Ahead, InOrder
<1> HIDE DEF x, y
<1>4. (x \o net') \o rest' = x \o Unread' /\ (y \o net') \o rest' = y \o Unread'
  <2>1. Unread' = net' \o rest'
    BY DEF Unread
  <2>2. \A z \in Seq(Tokens) : (z \o net') \o rest' = z \o (net' \o rest')
    <3> SUFFICES ASSUME NEW z \in Seq(Tokens) PROVE (z \o net') \o rest' = z \o (net' \o rest')
      OBVIOUS
    <3>1. net' \in Seq(Tokens) /\ rest' \in Seq(Tokens)
      BY <1>1
    <3> QED
      BY <3>1, ConcatAssociative, SMTT(30)
  <2> QED
    BY <1>2, <2>1, <2>2
<1>5. Unread' \in Seq(Tokens)
  BY <1>1, Joined DEF Unread
<1>6. x \o Unread' \in Seq(Tokens) /\ y \o Unread' \in Seq(Tokens)
  BY <1>2, <1>5, Joined
<1> QED
  BY <1>3, <1>4, <1>5, <1>6 DEF x, y

\* The form of what is there is the same while the client stays, or stays away.
LEMMA FormKept ==
  ASSUME fin' = fin
  PROVE  /\ \A s : s = Unread' => (Fresh(s) => Fresh(Unread)')
         /\ \A s : s = Ahead' => (Fresh(s) => Fresh(Ahead)')
         /\ \A s : s = InOrder' => (Body(s) => Body(InOrder)')
BY DEF Fresh, Body, Long, Front

(***************************************************************************)
(* The steps keep the invariant.                                           *)
(***************************************************************************)
\* A step that leaves what is stored and what is unread as it is.
LEMMA SameUnread ==
  ASSUME UploadInv, TypeOK', fin' = fin, Unread' = Unread,
         UNCHANGED <<uploadVars, uploading, answer>>,
         place' = place \/ place' \notin {"headers", "content"}
  PROVE  UploadInv'
<1>1. /\ upload_state' = upload_state /\ upload_buffer' = upload_buffer /\ data' = data
      /\ file' = file /\ uploading' = uploading /\ answer' = answer
  BY DEF uploadVars
<1>2. Ahead' = Ahead /\ InOrder' = InOrder
  BY <1>1, Ordered, OrderedNext DEF UploadInv
<1>3. Scanned'
  BY <1>1 DEF UploadInv, Scanned
<1>4. NoPost(Unread) => NoPost(Unread)'
  BY DEF NoPost
<1>5. Once'
  BY <1>1, <1>4, FormKept DEF UploadInv, Once
<1>6. InHeaders'
  BY <1>1, <1>2, FormKept DEF UploadInv, InHeaders
<1>7. InContent'
  BY <1>1, <1>2, FormKept DEF UploadInv, InContent
<1>8. Stored'
  BY <1>1, <1>4 DEF UploadInv, Stored, StoredPart
<1> QED
  BY <1>3, <1>5, <1>6, <1>7, <1>8 DEF UploadInv

\* A step after which no upload is in progress in this event, and that writes nothing.
LEMMA Idle ==
  ASSUME UploadInv, TypeOK', upload_state' = "NOT" \/ ~uploading',
         file'.text = file.text, file'.bad = file.bad, place' \notin {"headers", "content"},
         upload_state' = "NOT" => upload_buffer' = <<>>, Once',
         answer' = "stored" => answer = "stored" /\ upload_state' = "NOT" /\ NoPost(Unread)'
  PROVE  UploadInv'
<1>1. Scanned'
  BY DEF Scanned
<1>2. InHeaders' /\ InContent'
  BY DEF InHeaders, InContent
<1>3. Stored'
  BY DEF UploadInv, Stored, StoredPart
<1> QED
  BY <1>1, <1>2, <1>3 DEF UploadInv

LEMMA DeliverKeeps == ASSUME UploadInv, Deliver PROVE UploadInv'
<1>1. TypeOK /\ TypeOK'
  BY NetTyped DEF UploadInv
<1>2. PICK k \in 1..Len(rest) :
        net' = net \o SubSeq(rest, 1, k) /\ rest' = From(rest, k + 1)
  BY DEF Deliver
<1>3. rest \in Seq(Tokens) /\ net \in Seq(Tokens) /\ k \in 0..Len(rest)
  BY <1>1, LenProperties DEF TypeOK
<1>4. /\ SubSeq(rest, 1, k) \in Seq(Tokens) /\ From(rest, k + 1) \in Seq(Tokens)
      /\ rest = SubSeq(rest, 1, k) \o From(rest, k + 1)
  BY <1>3, CutAt
<1>5. (net \o SubSeq(rest, 1, k)) \o From(rest, k + 1) = net \o rest
  <2> DEFINE f == SubSeq(rest, 1, k)
             g == From(rest, k + 1)
  <2>1. f \in Seq(Tokens) /\ g \in Seq(Tokens) /\ rest = f \o g
    BY <1>4
  <2> HIDE DEF f, g
  <2>2. (net \o f) \o g = net \o (f \o g)
    BY <1>3, <2>1, ConcatAssociative, SMTT(30)
  <2> QED
    BY <2>1, <2>2 DEF f, g
<1>6. Unread' = Unread
  BY <1>2, <1>5 DEF Unread
<1> QED
  BY <1>1, <1>6, SameUnread DEF Deliver

\* What is left when the client leaves is the first part of what there was.
LEMMA Shorter ==
  ASSUME fin' = TRUE, NEW s \in Seq(Tokens), NEW t \in Seq(Tokens)
  PROVE  /\ Fresh(s \o t) /\ Unread' = s => Fresh(Unread)'
         /\ Fresh(s \o t) /\ Ahead' = s => Fresh(Ahead)'
         /\ Body(s \o t) /\ InOrder' = s => Body(InOrder)'
<1>1. /\ Len(s) \in Nat /\ Len(t) \in Nat /\ Len(s \o t) = Len(s) + Len(t)
      /\ s \o t \in Seq(Tokens)
  BY LenProperties, Joined
<1>2. \A k \in 1..Len(s) : k \in 1..Len(s \o t) /\ s[k] = (s \o t)[k]
  BY <1>1, JoinedAt
<1>3. Len(s) <= Len(s \o t)
  BY <1>1
<1>4. \A a \in Nat : Form(s \o t, a) => Form(s, a)
  BY <1>1, <1>2, <1>3, FormEnds
<1>5. \A h : Starts(s \o t, h) => Starts(s, h)
  BY <1>2 DEF Starts
<1>6. \A u, a : Long(u, a)'
  BY DEF Long
<1>9. \A h, a : Front(s \o t, h, a) => Front(s, h, a)
  BY <1>1, <1>2, <1>3, FrontEnds
<1>7. \A u : u = s /\ Fresh(s \o t) =>
        \E a \in Nat : \E h \in 1..a : Form(u, a) /\ Starts(u, h) /\ Front(u, h, a)
  BY <1>4, <1>5, <1>9 DEF Fresh
<1>8. \A u : u = s /\ Body(s \o t) => \E a \in Nat : Form(u, a) /\ Front(u, 0, a)
  BY <1>4, <1>9 DEF Body
<1> QED
  BY <1>7, <1>8 DEF Fresh, Body, Long

LEMMA LeaveKeeps == ASSUME UploadInv, Leave PROVE UploadInv'
<1>1. TypeOK /\ TypeOK'
  BY NetTyped DEF UploadInv
<1>2. /\ upload_state' = upload_state /\ upload_buffer' = upload_buffer /\ data' = data
      /\ file' = file /\ uploading' = uploading /\ answer' = answer /\ place' = place
      /\ fin' = TRUE /\ rest' = <<>> /\ net' = net
  BY DEF Leave, uploadVars
<1> DEFINE x == upload_buffer \o data
           y == (file.text \o upload_buffer) \o data
<1>3. x \in Seq(Tokens) /\ y \in Seq(Tokens) /\ net \in Seq(Tokens) /\ rest \in Seq(Tokens)
  BY <1>1, Joined DEF TypeOK
<1>4. /\ Unread = net \o rest /\ Unread' = net
      /\ Ahead = (x \o net) \o rest /\ Ahead' = x \o net
      /\ InOrder = (y \o net) \o rest /\ InOrder' = y \o net
  <2>1. /\ Unread' = net \o <<>> /\ Ahead' = (x \o net) \o <<>>
        /\ InOrder' = (y \o net) \o <<>>
    BY <1>2 DEF Unread, Ahead, InOrder
  <2>2. x \o net \in Seq(Tokens) /\ y \o net \in Seq(Tokens)
    BY <1>3, Joined
  <2> HIDE DEF x, y
  <2>3. Unread' = net /\ Ahead' = x \o net /\ InOrder' = y \o net
    BY <1>3, <2>1, <2>2, Joined
  <2> QED
    BY <2>3 DEF Unread, Ahead, InOrder, x, y
<1> HIDE DEF x, y
<1>5. x \o net \in Seq(Tokens) /\ y \o net \in Seq(Tokens)
  BY <1>3, Joined
<1>6. /\ Fresh(Unread) => Fresh(Unread)'
      /\ Fresh(Ahead) => Fresh(Ahead)'
      /\ Body(InOrder) => Body(InOrder)'
  BY <1>2, <1>3, <1>4, <1>5, Shorter
<1>7. NoPost(Unread) => NoPost(Unread)'
  BY <1>3, <1>4, NoPostJoined
<1>8. Scanned' /\ Once' /\ InHeaders' /\ InContent'
  BY <1>2, <1>6, <1>7 DEF UploadInv, Scanned, Once, InHeaders, InContent
<1>9. Stored'
  BY <1>2, <1>7 DEF UploadInv, Stored, StoredPart
<1> QED
  BY <1>1, <1>8, <1>9 DEF UploadInv

LEMMA LoopKeeps ==
  ASSUME UploadInv, Event \/ NoName \/ Ordinary \/ Dropped \/ ReadEAGAIN \/ ReadEnd
  PROVE  UploadInv'
<1>1. TypeOK /\ TypeOK'
  BY LoopTyped DEF UploadInv
<1>2. ASSUME UNCHANGED clientVars
      PROVE  fin' = fin /\ Unread' = Unread /\ (NoPost(Unread) => NoPost(Unread)')
  BY <1>2 DEF clientVars, Unread, NoPost
<1>3. ASSUME Receive PROVE NoPost(Unread)' /\ Once'
  <2>1. NoPost(Unread)'
    BY <1>1, <1>3, ReadOnce DEF UploadInv
  <2> QED
    BY <2>1 DEF Once
<1>4. CASE Event
  <2>1. Once'
    BY <1>2, <1>4, FormKept DEF Event, UploadInv, Once, uploadVars
  <2>2. /\ ~uploading' /\ file' = file /\ place' = "read" /\ upload_state' = upload_state
        /\ upload_buffer' = upload_buffer /\ answer' = answer
    BY <1>4 DEF Event, uploadVars
  <2> QED
    BY <1>1, <1>2, <1>4, <2>1, <2>2, Idle DEF Event, UploadInv, Scanned, Stored
<1>5. CASE NoName
  <2>1. /\ upload_state' = "NOT" /\ upload_buffer' = <<>> /\ file' = [file EXCEPT !.open = FALSE]
        /\ place' = "idle" /\ answer' = answer /\ Receive
    BY <1>5 DEF NoName, Hangup, ResetUpload
  <2>2. file'.text = file.text /\ file'.bad = file.bad
    BY <1>1, <2>1 DEF TypeOK
  <2> QED
    BY <1>1, <1>3, <2>1, <2>2, Idle
<1>6. CASE Ordinary
  <2>1. /\ upload_state' = "NOT" /\ upload_buffer' = upload_buffer /\ file' = file
        /\ place' = "read" /\ (answer' = "stored" => answer = "stored") /\ Receive
        /\ upload_state = "NOT"
    BY <1>6 DEF Ordinary, uploadVars, Reading
  <2> QED
    BY <1>1, <1>3, <2>1, Idle DEF UploadInv, Scanned
<1>7. CASE Dropped
  <2>1. /\ ~uploading' /\ upload_state' = upload_state /\ upload_state # "NOT" /\ file' = file
        /\ place' = "read" /\ answer' = answer /\ Receive
    BY <1>7 DEF Dropped, uploadVars, Reading
  <2>2. answer # "stored"
    BY <2>1 DEF UploadInv, Stored
  <2> QED
    BY <1>1, <1>3, <2>1, <2>2, Idle
<1>8. CASE ReadEAGAIN
  BY <1>1, <1>2, <1>8, SameUnread DEF ReadEAGAIN
<1>9. CASE ReadEnd
  <2>1. /\ upload_state' = "NOT" /\ upload_buffer' = <<>> /\ file' = [file EXCEPT !.open = FALSE]
        /\ place' = "idle" /\ answer' = answer /\ UNCHANGED clientVars
    BY <1>9 DEF ReadEnd, Hangup, ResetUpload
  <2>2. file'.text = file.text /\ file'.bad = file.bad
    BY <1>1, <2>1 DEF TypeOK
  <2>3. Once'
    BY <1>2, <2>1, FormKept DEF UploadInv, Once
  <2> QED
    BY <1>1, <1>2, <2>1, <2>2, <2>3, Idle DEF UploadInv, Stored
<1> QED
  BY <1>4, <1>5, <1>6, <1>7, <1>8, <1>9

LEMMA ProcessKeeps == ASSUME UploadInv, Process PROVE UploadInv'
<1>1. TypeOK /\ TypeOK'
  BY ProcessTyped DEF UploadInv
<1>2. /\ Receive /\ upload_state # "NOT" /\ uploading /\ place = "read" /\ answer' = answer
      /\ uploading' = uploading /\ fin' = fin
  BY DEF Process, Reading, Receive
<1>3. answer # "stored" /\ data = <<>>
  BY <1>1, <1>2 DEF UploadInv, Stored, TypeOK
<1>4. NoPost(Unread)' /\ Once'
  <2>1. NoPost(Unread)'
    BY <1>1, <1>2, ReadOnce DEF UploadInv
  <2> QED
    BY <2>1 DEF Once
<1>5. CASE ResetUpload /\ UNCHANGED <<data, place>>
  <2>1. /\ upload_state' = "NOT" /\ upload_buffer' = <<>> /\ place' = "read"
        /\ file' = [file EXCEPT !.open = FALSE]
    BY <1>2, <1>5 DEF ResetUpload
  <2>2. file'.text = file.text /\ file'.bad = file.bad
    BY <1>1, <2>1 DEF TypeOK
  <2> QED
    BY <1>1, <1>2, <1>3, <1>4, <2>1, <2>2, Idle
<1>6. CASE /\ Len(upload_buffer) <= BufLimit
           /\ data' = FullData /\ upload_buffer' = <<>>
           /\ UNCHANGED <<upload_state, file, boundary>>
  <2>1. /\ Chunk \in Seq(Tokens) /\ Len(Chunk) \in Nat /\ Len(Chunk) <= MaxRead
        /\ Unread' \in Seq(Tokens) /\ Unread = Chunk \o Unread' /\ MaxRead \in Nat
        /\ BufLimit \in Nat /\ upload_buffer \in Seq(Tokens) /\ file.text \in Seq(Tokens)
        /\ Len(upload_buffer) \in Nat
    <3>1. MaxRead \in Nat /\ BufLimit \in Nat
      BY UploadAssumption
    <3>2. /\ upload_buffer \in Seq(Tokens) /\ file.text \in Seq(Tokens)
          /\ Len(upload_buffer) \in Nat
      BY <1>1, LenProperties DEF TypeOK
    <3>3. /\ Chunk \in Seq(Tokens) /\ Len(Chunk) \in 1..MaxRead
          /\ Unread' \in Seq(Tokens) /\ Unread = Chunk \o Unread'
      BY <1>1, <1>2, Received
    <3> QED
      BY <3>1, <3>2, <3>3
  <2>2. data' = upload_buffer \o Chunk /\ Len(data') = Len(upload_buffer) + Len(Chunk)
    BY <1>6, <2>1, Joined DEF FullData
  <2>3. Scanned'
    BY <1>2, <1>6, <2>1, <2>2 DEF Scanned
  <2> DEFINE c == Chunk
             v == Unread'
             b == upload_buffer
             f == file.text
  <2>4. /\ Ahead = (b \o <<>>) \o (c \o v) /\ Ahead' = (<<>> \o (b \o c)) \o v
        /\ InOrder = ((f \o b) \o <<>>) \o (c \o v)
        /\ InOrder' = ((f \o <<>>) \o (b \o c)) \o v
    BY <1>1, <1>3, <1>6, <2>1, <2>2, Ordered, OrderedNext
  <2>5. b \in Seq(Tokens) /\ c \in Seq(Tokens) /\ v \in Seq(Tokens) /\ f \in Seq(Tokens)
    BY <2>1
  <2> HIDE DEF c, v, b, f
  <2>6. /\ b \o <<>> = b /\ <<>> \o (b \o c) = b \o c /\ (f \o b) \o <<>> = f \o b
        /\ f \o <<>> = f /\ f \o b \in Seq(Tokens)
    BY <2>5, Joined
  <2>7. (b \o c) \o v = b \o (c \o v)
    BY <2>5, ConcatAssociative, SMTT(30)
  <2>8. (f \o b) \o c = f \o (b \o c)
    BY <2>5, ConcatAssociative, SMTT(30)
  <2>9. ((f \o b) \o c) \o v = (f \o b) \o (c \o v)
    <3>1. \A g \in Seq(Tokens) : (g \o c) \o v = g \o (c \o v)
      BY <2>5, ConcatAssociative, SMTT(30)
    <3> QED
      BY <2>6, <3>1
  <2>10. Ahead' = Ahead /\ InOrder' = InOrder
    BY <2>4, <2>6, <2>7, <2>8, <2>9
  <2>11. InHeaders' /\ InContent'
    BY <1>2, <1>6, <2>10, FormKept DEF UploadInv, InHeaders, InContent
  <2>12. Stored'
    BY <1>2, <1>3 DEF Stored
  <2> QED
    BY <1>1, <1>4, <2>3, <2>11, <2>12 DEF UploadInv
<1> QED
  BY <1>5, <1>6 DEF Process

\* FirstAt finds the first empty line.
LEMMA FirstBlank ==
  ASSUME NEW s \in Seq(Tokens), NEW i \in 1..Len(s), FirstAt(s, <<"blank">>, i)
  PROVE  s[i] = "blank" /\ \A k \in 1..(i - 1) : s[k] # "blank"
<1>1. Len(s) \in Nat /\ Len(<<"blank">>) = 1
  BY LenProperties
<1>2. ASSUME NEW j \in 1..Len(s) PROVE SubSeq(s, j, j) = <<s[j]>>
  <2>1. j \in Int /\ \A k \in j..j : s[k] \in Tokens
    BY <1>1, ElementOfSeq
  <2>2. /\ SubSeq(s, j, j) \in Seq(Tokens) /\ Len(SubSeq(s, j, j)) = 1
        /\ SubSeq(s, j, j)[1] = s[j]
    BY <2>1, SubSeqProperties
  <2>3. /\ <<s[j]>> \in Seq(Tokens) /\ Len(<<s[j]>>) = 1 /\ <<s[j]>>[1] = s[j]
    BY <2>1
  <2> DEFINE o == <<s[j]>>
             q == SubSeq(s, j, j)
  <2>4. o \in Seq(Tokens) /\ q \in Seq(Tokens) /\ Len(o) = Len(q) /\ o[1] = q[1] /\ Len(o) = 1
    BY <2>2, <2>3
  <2> HIDE DEF o, q
  <2>5. \A k \in 1..Len(o) : o[k] = q[k]
    BY <2>4
  <2>6. o = q
    BY <2>4, <2>5, SeqEqual
  <2> QED
    BY <2>6 DEF o, q
<1>3. /\ SubSeq(s, i, i + 1 - 1) = <<"blank">>
      /\ \A j \in 1..(i - 1) : ~(j + 1 <= Len(s) + 1 /\ SubSeq(s, j, j + 1 - 1) = <<"blank">>)
  BY <1>1 DEF FirstAt
<1>4. s[i] = "blank"
  <2>1. <<s[i]>> = <<"blank">>
    BY <1>1, <1>2, <1>3
  <2> QED
    BY <2>1
<1>5. ASSUME NEW k \in 1..(i - 1) PROVE s[k] # "blank"
  <2>1. k \in 1..Len(s) /\ k + 1 <= Len(s) + 1 /\ k + 1 - 1 = k
    BY <1>1
  <2>2. SubSeq(s, k, k) = <<s[k]>> /\ SubSeq(s, k, k) # <<"blank">>
    BY <1>2, <1>3, <2>1
  <2> QED
    BY <2>2
<1> QED
  BY <1>4, <1>5

\* w is what is behind the first i tokens of s.
Shifted(w, s, i) ==
  /\ w \in Seq(Tokens) /\ i \in Nat \ {0} /\ Len(s) = Len(w) + i
  /\ \A k \in 1..Len(w) : w[k] = s[k + i]

\* What is behind i, with what follows.
LEMMA Behind ==
  ASSUME NEW s \in Seq(Tokens), NEW t \in Seq(Tokens), NEW i \in 1..Len(s)
  PROVE  /\ Shifted(From(s, i + 1) \o t, s \o t, i)
         /\ \A k \in 1..i : (s \o t)[k] = s[k]
<1> DEFINE f == From(s, i + 1)
           w == f \o t
<1>1. Len(s) \in Nat /\ Len(t) \in Nat /\ i \in 0..Len(s) /\ i \in Nat \ {0}
  BY LenProperties
<1>2. /\ f \in Seq(Tokens) /\ Len(f) = Len(s) - i
      /\ \A j \in 1..(Len(s) - i) : f[j] = s[i + j]
  BY <1>1, CutAt
<1> HIDE DEF f
<1>3. w = f \o t
  OBVIOUS
<1> HIDE DEF w
<1>4. /\ w \in Seq(Tokens) /\ Len(w) = Len(f) + Len(t)
      /\ s \o t \in Seq(Tokens) /\ Len(s \o t) = Len(s) + Len(t)
  <2>1. w \in Seq(Tokens) /\ Len(w) = Len(f) + Len(t)
    BY <1>2, <1>3, Joined
  <2>2. s \o t \in Seq(Tokens) /\ Len(s \o t) = Len(s) + Len(t)
    BY Joined
  <2> QED
    BY <2>1, <2>2
<1>5. ASSUME NEW k \in 1..Len(w) PROVE w[k] = (s \o t)[k + i]
  <2>1. k \in 1..(Len(f) + Len(t)) /\ k + i \in 1..(Len(s) + Len(t))
    BY <1>1, <1>2, <1>4
  <2>2. w[k] = IF k <= Len(f) THEN f[k] ELSE t[k - Len(f)]
    BY <1>2, <1>3, <2>1, JoinedAt
  <2>3. (s \o t)[k + i] = IF k + i <= Len(s) THEN s[k + i] ELSE t[k + i - Len(s)]
    BY <2>1, JoinedAt
  <2>4. CASE k <= Len(f)
    BY <1>1, <1>2, <2>1, <2>2, <2>3, <2>4
  <2>5. CASE ~(k <= Len(f))
    <3>1. ~(k + i <= Len(s)) /\ k - Len(f) = k + i - Len(s)
      BY <1>1, <1>2, <2>1, <2>5
    <3> QED
      BY <2>2, <2>3, <2>5, <3>1
  <2> QED
    BY <2>4, <2>5
<1>6. ASSUME NEW k \in 1..i PROVE (s \o t)[k] = s[k]
  <2>1. k \in 1..(Len(s) + Len(t)) /\ k <= Len(s)
    BY <1>1
  <2> QED
    BY <2>1, JoinedAt
<1>7. w \in Seq(Tokens) /\ i \in Nat \ {0} /\ Len(s \o t) = Len(w) + i
  BY <1>1, <1>2, <1>4
<1>8. Shifted(w, s \o t, i)
  BY <1>5, <1>7 DEF Shifted
<1> QED
  BY <1>6, <1>8 DEF f, w

\* The same of a request from its start: what is behind its first empty line.
LEMMA HeadOff ==
  ASSUME NEW s \in Seq(Tokens), NEW t \in Seq(Tokens), NEW i \in 1..Len(s),
         FirstAt(s, <<"blank">>, i), Fresh(s \o t)
  PROVE  Body(From(s, i + 1) \o t)
<1> DEFINE w == From(s, i + 1) \o t
<1>1. s[i] = "blank" /\ \A k \in 1..(i - 1) : s[k] # "blank"
  BY FirstBlank
<1>2. Shifted(w, s \o t, i) /\ \A k \in 1..i : (s \o t)[k] = s[k]
  BY Behind
<1> HIDE DEF w
<1>3. (s \o t)[i] = "blank" /\ \A k \in 1..(i - 1) : (s \o t)[k] # "blank"
  BY <1>1, <1>2 DEF Shifted
<1>4. s \o t \in Seq(Tokens)
  BY Joined
<1>5. Body(w)
  BY <1>2, <1>3, <1>4, HeadCut DEF Shifted
<1> QED
  BY <1>5 DEF w

LEMMA BeginKeeps == ASSUME UploadInv, BeginUpload PROVE UploadInv'
<1>1. TypeOK /\ TypeOK'
  BY BeginTyped DEF UploadInv
<1>2. /\ Receive /\ upload_state = "NOT" /\ place = "read" /\ place' = "read" /\ fin' = fin
      /\ data' = data /\ data = <<>> /\ upload_buffer = <<>> /\ answer' = answer
      /\ Has(Chunk, "post")
  BY <1>1 DEF BeginUpload, Reading, Receive, Recognised, UploadInv, Scanned, TypeOK
<1>3. /\ Chunk \in Seq(Tokens) /\ Unread' \in Seq(Tokens) /\ Unread = Chunk \o Unread'
      /\ Unread \in Seq(Tokens)
  BY <1>1, <1>2, Received, Ordered
<1>4. ~NoPost(Unread)
  <2>1. ~NoPost(Chunk)
    BY <1>2 DEF Has, NoPost
  <2> QED
    BY <1>3, <2>1, NoPostJoined
<1>5. Fresh(Unread) /\ answer # "stored"
  BY <1>2, <1>4 DEF UploadInv, Once, Stored
<1>6. Once'
  <2>1. NoPost(Unread)'
    BY <1>1, <1>2, ReadOnce DEF UploadInv
  <2> QED
    BY <2>1 DEF Once
<1>7. Stored' /\ (upload_state' # "NOT" => Scanned')
  BY <1>2, <1>5 DEF Stored, Scanned
<1>8. CASE \E i \in 1..Len(Chunk) :
             /\ FirstAt(Chunk, <<"blank">>, i)
             /\ file' = [open |-> TRUE, own |-> HasName(Chunk), bad |-> FALSE,
                         text |-> From(Chunk, i + 1)]
             /\ upload_state' = "CONTENT" /\ UNCHANGED upload_buffer
  <2>1. PICK i \in 1..Len(Chunk) :
          /\ FirstAt(Chunk, <<"blank">>, i) /\ file'.text = From(Chunk, i + 1)
          /\ upload_state' = "CONTENT" /\ upload_buffer' = <<>>
    BY <1>2, <1>8
  <2> DEFINE w == From(Chunk, i + 1) \o Unread'
  <2>2. Body(w)
    BY <1>3, <1>5, <2>1, HeadOff
  <2>3. From(Chunk, i + 1) \in Seq(Tokens)
    BY <1>3, FromTyped
  <2>4. InOrder' = ((From(Chunk, i + 1) \o <<>>) \o <<>>) \o Unread'
    BY <1>1, <1>2, <2>1, OrderedNext
  <2>5. InOrder' = w
    BY <2>3, <2>4, Joined
  <2>6. InContent' /\ InHeaders'
    <3> HIDE DEF w
    <3> QED
      BY <1>2, <2>1, <2>2, <2>5, FormKept DEF InContent, InHeaders
  <2> QED
    BY <1>1, <1>6, <1>7, <2>1, <2>6 DEF UploadInv
<1>9. CASE /\ file' = [open |-> TRUE, own |-> HasName(Chunk), bad |-> FALSE, text |-> <<>>]
           /\ upload_state' = "HEADERS" /\ upload_buffer' = Chunk
  <2>1. Ahead' = (Chunk \o <<>>) \o Unread'
    BY <1>1, <1>2, <1>9, OrderedNext
  <2>2. Ahead' = Unread
    BY <1>3, <2>1, Joined
  <2>3. InHeaders' /\ InContent'
    BY <1>2, <1>5, <1>9, <2>2, FormKept DEF InHeaders, InContent
  <2> QED
    BY <1>1, <1>6, <1>7, <1>9, <2>3 DEF UploadInv
<1> QED
  BY <1>8, <1>9 DEF BeginUpload

LEMMA HeadersKeep == ASSUME UploadInv, HeadersEnd \/ HeadersGoOn PROVE UploadInv'
<1>1. TypeOK /\ TypeOK' /\ data \in Seq(Tokens)
  BY HeadersTyped DEF UploadInv, TypeOK
<1>2. /\ upload_state = "HEADERS" /\ upload_state' # "NOT" /\ uploading /\ upload_buffer = <<>>
      /\ Len(data) <= BufLimit + MaxRead /\ file' = file /\ Unread' = Unread /\ fin' = fin
      /\ uploading' = uploading
  BY <1>1 DEF HeadersEnd, HeadersGoOn, scanKeeps, clientVars, UploadInv, Scanned, TypeOK, Unread
<1>3. /\ Unread \in Seq(Tokens) /\ Fresh(Ahead) /\ file.text = <<>> /\ ~file.bad
      /\ answer' = answer /\ answer # "stored"
  BY <1>1, <1>2, Ordered DEF UploadInv, InHeaders, Stored, HeadersEnd, HeadersGoOn
<1>4. Ahead = data \o Unread
  <2>1. Ahead = (<<>> \o data) \o Unread
    BY <1>1, <1>2, Ordered
  <2> QED
    BY <1>1, <2>1, Joined
<1>5. Once' /\ Stored'
  BY <1>2, <1>3 DEF UploadInv, Once, Stored, NoPost
<1>6. CASE HeadersEnd
  <2>1. PICK i \in 1..Len(data) : FirstAt(data, <<"blank">>, i) /\ data' = From(data, i + 1)
    BY <1>6 DEF HeadersEnd
  <2>2. upload_state' = "CONTENT" /\ upload_buffer' = <<>>
    BY <1>2, <1>6 DEF HeadersEnd
  <2> DEFINE w == From(data, i + 1) \o Unread
  <2>3. Body(w)
    BY <1>1, <1>3, <1>4, <2>1, HeadOff
  <2>4. InOrder' = ((<<>> \o <<>>) \o From(data, i + 1)) \o Unread
    BY <1>1, <1>2, <1>3, <2>1, <2>2, OrderedNext
  <2>5. From(data, i + 1) \in Seq(Tokens)
    BY <1>1, FromTyped
  <2>6. InOrder' = w
    BY <2>4, <2>5, Joined
  <2>7. InContent' /\ InHeaders'
    <3> HIDE DEF w
    <3> QED
      BY <1>2, <2>2, <2>3, <2>6, FormKept DEF InContent, InHeaders
  <2>8. Len(data') <= BufLimit + MaxRead
    <3>1. Len(data) \in Nat /\ i \in 0..Len(data) /\ BufLimit \in Nat /\ MaxRead \in Nat
      BY <1>1, LenProperties, UploadAssumption
    <3>2. Len(data') = Len(data) - i
      BY <1>1, <2>1, <3>1, CutAt
    <3> QED
      BY <1>2, <3>1, <3>2
  <2>9. Scanned'
    BY <1>2, <2>2, <2>8 DEF Scanned
  <2> QED
    BY <1>1, <1>5, <2>7, <2>9 DEF UploadInv
<1>7. CASE HeadersGoOn
  <2>1. /\ upload_buffer' = data /\ data' = <<>> /\ place' = "read"
        /\ upload_state' = "HEADERS"
    BY <1>2, <1>7 DEF HeadersGoOn
  <2>2. Ahead' = (data \o <<>>) \o Unread
    BY <1>1, <1>2, <2>1, OrderedNext
  <2>3. Ahead' = Ahead
    BY <1>1, <1>4, <2>2, Joined
  <2>4. InHeaders' /\ InContent' /\ Scanned'
    BY <1>2, <1>3, <2>1, <2>3, FormKept DEF InHeaders, InContent, Scanned
  <2> QED
    BY <1>1, <1>5, <2>4 DEF UploadInv
<1> QED
  BY <1>6, <1>7

\* While the file is scanned.
LEMMA AtScan ==
  ASSUME UploadInv, Scanning
  PROVE  /\ TypeOK /\ upload_state = "CONTENT" /\ uploading /\ upload_buffer = <<>>
         /\ data \in Seq(Tokens) /\ file.text \in Seq(Tokens) /\ Unread \in Seq(Tokens)
         /\ NoPost(Unread) /\ answer # "stored" /\ Len(data) <= BufLimit + MaxRead
         /\ InOrder = (file.text \o data) \o Unread
         /\ ~file.bad => Body(InOrder)
<1>1. TypeOK /\ upload_state = "CONTENT" /\ uploading /\ upload_buffer = <<>>
  BY DEF Scanning, UploadInv, Scanned, TypeOK
<1>2. /\ data \in Seq(Tokens) /\ file.text \in Seq(Tokens) /\ Unread \in Seq(Tokens)
      /\ InOrder = ((file.text \o <<>>) \o data) \o Unread
  BY <1>1, Ordered DEF TypeOK
<1>3. InOrder = (file.text \o data) \o Unread
  BY <1>2, Joined
<1> QED
  BY <1>1, <1>2, <1>3 DEF Scanning, UploadInv, Scanned, Once, Stored, InContent

\* A step of the scan that stays in the upload.
LEMMA ScanKeeps ==
  ASSUME UploadInv, Scanning, TypeOK', UNCHANGED scanKeeps,
         UNCHANGED <<upload_state, answer>>,
         upload_buffer' = <<>> \/ place' \notin {"headers", "content"},
         data' = <<>> \/ Len(data') <= Len(data), ~file'.bad => Body(InOrder)'
  PROVE  UploadInv'
<1>1. /\ upload_state = "CONTENT" /\ uploading /\ answer # "stored" /\ NoPost(Unread)
      /\ Len(data) <= BufLimit + MaxRead
  BY AtScan
<1>2. /\ upload_state' = "CONTENT" /\ uploading' = uploading /\ answer' = answer
      /\ Unread' = Unread
  BY <1>1 DEF scanKeeps, clientVars, Unread
<1>3. Len(data') <= BufLimit + MaxRead
  <2>1. /\ Len(data) \in Nat /\ Len(data') \in Nat /\ Len(<<>>) = 0
        /\ BufLimit \in Nat /\ MaxRead \in Nat
    <3>1. data \in Seq(Tokens) /\ data' \in Seq(Tokens)
      BY AtScan DEF TypeOK
    <3> QED
      BY <3>1, LenProperties, UploadAssumption
  <2> QED
    BY <1>1, <2>1
<1>4. Scanned' /\ Once' /\ InHeaders' /\ InContent' /\ Stored'
  BY <1>1, <1>2, <1>3 DEF Scanned, Once, InHeaders, InContent, Stored, NoPost
<1> QED
  BY <1>4 DEF UploadInv

LEMMA NoMarkerKeeps == ASSUME UploadInv, NoMarker PROVE UploadInv'
<1> DEFINE safe_write == (SizeMod + Len(data) - MarkerLen) % SizeMod
           missing == IF MarkerLen <= Len(data) THEN 0 ELSE MarkerLen - Len(data)
           held == [i \in 1..missing |-> Garbage]
           kept == From(data, Len(data) - (MarkerLen - missing) + 1)
<1>1. /\ file' = (IF safe_write <= Len(data) THEN Written(SubSeq(data, 1, safe_write))
                  ELSE [file EXCEPT !.bad = TRUE])
      /\ upload_buffer' = held \o kept /\ data' = <<>> /\ place' = "read"
      /\ UNCHANGED scanKeeps /\ UNCHANGED <<upload_state, answer>> /\ Scanning
  BY DEF NoMarker
<1>2. TypeOK /\ TypeOK'
  BY NoMarkerTyped DEF UploadInv
<1>3. /\ data \in Seq(Tokens) /\ file.text \in Seq(Tokens) /\ Unread \in Seq(Tokens)
      /\ Len(data) <= BufLimit + MaxRead /\ InOrder = (file.text \o data) \o Unread
      /\ ~file.bad => Body(InOrder)
  BY <1>1, AtScan
<1>4. /\ Len(data) \in Nat /\ MarkerLen = 2 /\ SizeMod \in Nat /\ BufLimit \in Nat
      /\ MaxRead \in Nat /\ SizeMod > MaxRead + BufLimit + 2
  BY <1>3, LenProperties, MarkerTyped, UploadAssumption
<1>5. Unread' = Unread /\ fin' = fin
  BY <1>1 DEF scanKeeps, clientVars, Unread
<1>6. CASE 2 <= Len(data)
  <2> DEFINE n == Len(data) - 2
  <2>1. n \in 0..Len(data) /\ n < SizeMod
    BY <1>3, <1>4, <1>6
  <2>2. safe_write = n
    <3>1. SizeMod + Len(data) - MarkerLen = n + SizeMod
      BY <1>4
    <3>2. (n + SizeMod) % SizeMod = n
      <4> HIDE DEF n
      <4>1. n \in 0..(SizeMod - 1) /\ SizeMod > 0
        BY <1>4, <2>1
      <4> QED
        BY <1>4, <4>1
    <3> QED
      BY <3>1, <3>2
  <2>3. missing = 0 /\ Len(data) - (MarkerLen - missing) + 1 = n + 1
    BY <1>4, <1>6
  <2>4. held = <<>>
    <3>1. held = [i \in 1..0 |-> Garbage]
      BY <2>3
    <3> QED
      BY <3>1
  <2> DEFINE b == SubSeq(data, 1, n)
             f == From(data, n + 1)
             x == file.text
             u == Unread
  <2>5. b \in Seq(Tokens) /\ f \in Seq(Tokens) /\ data = b \o f
    BY <1>3, <2>1, CutAt
  <2>6. kept = f
    BY <2>3
  <2>7. file' = Written(b)
    BY <1>1, <2>1, <2>2
  <2>8. upload_buffer' = f
    <3> HIDE DEF held, kept, f
    <3> QED
      BY <1>1, <2>4, <2>5, <2>6, Joined
  <2> HIDE DEF b, f, safe_write, missing, held, kept, n
  <2>9. ASSUME ~file'.bad PROVE Body(InOrder)'
    <3>1. ~file.bad /\ file'.text = x \o b
      BY <1>2, <2>7, <2>9 DEF Written, TypeOK
    <3>2. InOrder' = (((x \o b) \o f) \o <<>>) \o u
      BY <1>1, <1>2, <1>5, <2>8, <3>1, OrderedNext
    <3>3. (x \o b) \o f = x \o (b \o f) /\ x \o (b \o f) \in Seq(Tokens)
      <4>1. x \in Seq(Tokens) /\ b \o f \in Seq(Tokens)
        BY <1>3, <2>5, Joined
      <4>2. (x \o b) \o f = x \o (b \o f)
        <5> HIDE DEF x
        <5>1. x \in Seq(Tokens) /\ b \in Seq(Tokens) /\ f \in Seq(Tokens)
          BY <2>5, <4>1
        <5> QED
          BY <5>1, ConcatAssociative, SMTT(30)
      <4> QED
        BY <4>1, <4>2, Joined
    <3>4. InOrder' = (x \o data) \o u
      <4> HIDE DEF x, u
      <4>1. (x \o b) \o f = x \o data /\ x \o data \in Seq(Tokens)
        BY <2>5, <3>3
      <4>2. (x \o data) \o <<>> = x \o data
        BY <4>1, Joined
      <4> QED
        BY <3>2, <4>1, <4>2
    <3>5. InOrder' = InOrder
      BY <1>3, <3>4
    <3> QED
      BY <1>3, <1>5, <3>1, <3>5, FormKept
  <2> QED
    BY <1>1, <1>2, <2>9, ScanKeeps
<1>7. CASE ~(2 <= Len(data))
  <2>1. ~(safe_write <= Len(data))
    <3> DEFINE n == Len(data) + SizeMod - 2
    <3>1. n \in 0..(SizeMod - 1) /\ n > Len(data) /\ SizeMod + Len(data) - MarkerLen = n
      BY <1>4, <1>7
    <3> HIDE DEF n
    <3>2. n % SizeMod = n
      BY <1>4, <3>1
    <3> QED
      BY <1>4, <3>1, <3>2
  <2>2. file'.bad
    BY <1>1, <1>2, <2>1 DEF TypeOK
  <2> QED
    BY <1>1, <1>2, <2>2, ScanKeeps
<1> QED
  BY <1>6, <1>7

\* The marker found at i, cut out of data.
LEMMA MarkerCut ==
  ASSUME NEW s \in Seq(Tokens), NEW i \in 1..Len(s), FirstAt(s, Marker, i)
  PROVE  /\ i + 2 <= Len(s) + 1 /\ s = Before(s, i) \o (Marker \o From(s, i + 2))
         /\ Before(s, i) \in Seq(Tokens) /\ From(s, i + 2) \in Seq(Tokens)
         /\ Len(Before(s, i)) = i - 1 /\ Len(From(s, i + 2)) = Len(s) - (i + 1)
         /\ i + 2 <= Len(s) => From(s, i + 2)[1] = s[i + 2]
<1>1. /\ Len(Marker) = 2 /\ Marker \in Seq(Tokens) /\ Len(s) \in Nat
      /\ SubSeq(s, 1, Len(s)) = s
  BY MarkerTyped, LenProperties, SubSeqFull DEF MarkerLen
<1>2. i + 2 <= Len(s) + 1 /\ SubSeq(s, i, i + 2 - 1) = Marker
  BY <1>1 DEF FirstAt
<1>3. SubSeq(s, i, i + 1) = Marker
  <2>1. i + 2 - 1 = i + 1
    BY <1>1
  <2> QED
    BY <1>2, <2>1
<1>4. SubSeq(s, i, i + 1) \o SubSeq(s, i + 2, Len(s)) = SubSeq(s, i, Len(s))
  <2>1. /\ i \in 1..(Len(s) + 1) /\ i + 1 \in (i - 1)..Len(s) /\ Len(s) \in (i + 1)..Len(s)
        /\ (i + 1) + 1 = i + 2
    BY <1>1, <1>2
  <2>2. SubSeq(s, i, i + 1) \o SubSeq(s, (i + 1) + 1, Len(s)) = SubSeq(s, i, Len(s))
    BY <2>1, ConcatAdjacentSubSeq
  <2> QED
    BY <2>1, <2>2
<1>5. SubSeq(s, 1, i - 1) \o SubSeq(s, i, Len(s)) = SubSeq(s, 1, Len(s))
  <2>1. /\ 1 \in 1..(Len(s) + 1) /\ i - 1 \in (1 - 1)..Len(s) /\ Len(s) \in (i - 1)..Len(s)
        /\ (i - 1) + 1 = i
    BY <1>1, <1>2
  <2>2. SubSeq(s, 1, i - 1) \o SubSeq(s, (i - 1) + 1, Len(s)) = SubSeq(s, 1, Len(s))
    BY <2>1, ConcatAdjacentSubSeq
  <2> QED
    BY <2>1, <2>2
<1>6. s = Before(s, i) \o (Marker \o From(s, i + 2))
  BY <1>1, <1>3, <1>4, <1>5 DEF Before, From
<1>7. /\ i - 1 \in 0..Len(s) /\ i + 1 \in 0..Len(s) /\ (i + 1) + 1 = i + 2
      /\ i + 2 <= Len(s) => 1 \in 1..(Len(s) - (i + 1))
  BY <1>1, <1>2
<1>8. Before(s, i) \in Seq(Tokens) /\ Len(Before(s, i)) = i - 1
  BY <1>7, CutAt DEF Before
<1>9. /\ From(s, (i + 1) + 1) \in Seq(Tokens) /\ Len(From(s, (i + 1) + 1)) = Len(s) - (i + 1)
      /\ \A j \in 1..(Len(s) - (i + 1)) : From(s, (i + 1) + 1)[j] = s[(i + 1) + j]
  BY <1>7, CutAt
<1>10. i + 2 <= Len(s) => From(s, i + 2)[1] = s[i + 2]
  <2> SUFFICES ASSUME i + 2 <= Len(s) PROVE From(s, i + 2)[1] = s[i + 2]
    OBVIOUS
  <2>1. From(s, (i + 1) + 1)[1] = s[(i + 1) + 1]
    BY <1>7, <1>9
  <2> QED
    BY <1>7, <2>1
<1> QED
  BY <1>2, <1>6, <1>7, <1>8, <1>9, <1>10

\* What is around a marker.
LEMMA Around ==
  ASSUME NEW l \in Seq(Tokens), NEW r \in Seq(Tokens)
  PROVE  LET s == l \o (Marker \o r)
         IN /\ s \in Seq(Tokens) /\ Len(l) \in Nat /\ Len(r) \in Nat
            /\ Len(s) = Len(l) + 2 + Len(r)
            /\ \A k \in 1..Len(l) : s[k] = l[k]
            /\ s[Len(l) + 1] = "m1" /\ s[Len(l) + 2] = "m2"
            /\ \A k \in 1..Len(r) : s[Len(l) + 2 + k] = r[k]
<1> DEFINE m == Marker \o r
           s == l \o m
<1>1. Len(l) \in Nat /\ Len(r) \in Nat /\ Marker \in Seq(Tokens) /\ Len(Marker) = 2
  BY LenProperties, MarkerTyped DEF MarkerLen
<1>2. m \in Seq(Tokens) /\ Len(m) = 2 + Len(r)
  <2>1. m \in Seq(Tokens) /\ Len(m) = Len(Marker) + Len(r)
    BY <1>1, Joined
  <2> QED
    BY <1>1, <2>1
<1>3. m[1] = "m1" /\ m[2] = "m2" /\ \A k \in 1..Len(r) : m[2 + k] = r[k]
  <2>1. \A k \in 1..(Len(Marker) + Len(r)) :
          m[k] = IF k <= Len(Marker) THEN Marker[k] ELSE r[k - Len(Marker)]
    BY <1>1, JoinedAt
  <2>2. /\ 1 \in 1..(Len(Marker) + Len(r)) /\ 2 \in 1..(Len(Marker) + Len(r))
        /\ 1 <= Len(Marker) /\ 2 <= Len(Marker)
    BY <1>1
  <2>3. m[1] = Marker[1] /\ m[2] = Marker[2]
    BY <2>1, <2>2
  <2>4. Marker[1] = "m1" /\ Marker[2] = "m2"
    BY DEF Marker
  <2>5. ASSUME NEW k \in 1..Len(r) PROVE m[2 + k] = r[k]
    <3>1. /\ 2 + k \in 1..(Len(Marker) + Len(r)) /\ ~(2 + k <= Len(Marker))
          /\ 2 + k - Len(Marker) = k
      BY <1>1
    <3>2. m[2 + k] = r[2 + k - Len(Marker)]
      BY <2>1, <3>1
    <3> QED
      BY <3>1, <3>2
  <2> QED
    BY <2>3, <2>4, <2>5
<1>4. s = l \o m
  OBVIOUS
<1> HIDE DEF m, s
<1>5. s \in Seq(Tokens) /\ Len(s) = Len(l) + Len(m)
  <2>1. l \o m \in Seq(Tokens) /\ Len(l \o m) = Len(l) + Len(m)
    BY <1>2, Joined
  <2> QED
    BY <1>4, <2>1
<1>6. \A k \in 1..(Len(l) + Len(m)) : s[k] = IF k <= Len(l) THEN l[k] ELSE m[k - Len(l)]
  <2>1. \A k \in 1..(Len(l) + Len(m)) : (l \o m)[k] = IF k <= Len(l) THEN l[k] ELSE m[k - Len(l)]
    BY <1>2, JoinedAt
  <2> QED
    BY <1>4, <2>1
<1>7. ASSUME NEW j \in 1..Len(m) PROVE s[Len(l) + j] = m[j]
  <2> DEFINE q == Len(l) + j
  <2>1. q \in 1..(Len(l) + Len(m)) /\ ~(q <= Len(l)) /\ q - Len(l) = j
    BY <1>1, <1>2
  <2> HIDE DEF q
  <2>2. s[q] = m[q - Len(l)]
    BY <1>6, <2>1
  <2> QED
    BY <2>1, <2>2 DEF q
<1>8. ASSUME NEW k \in 1..Len(l) PROVE s[k] = l[k]
  <2>1. k \in 1..(Len(l) + Len(m)) /\ k <= Len(l)
    BY <1>1, <1>2
  <2> QED
    BY <1>6, <2>1
<1>9. s[Len(l) + 1] = "m1" /\ s[Len(l) + 2] = "m2"
  <2>1. 1 \in 1..Len(m) /\ 2 \in 1..Len(m)
    BY <1>1, <1>2
  <2> QED
    BY <1>3, <1>7, <2>1
<1>10. ASSUME NEW k \in 1..Len(r) PROVE s[Len(l) + 2 + k] = r[k]
  <2>1. 2 + k \in 1..Len(m) /\ Len(l) + (2 + k) = Len(l) + 2 + k
    BY <1>1, <1>2
  <2>2. s[Len(l) + (2 + k)] = m[2 + k]
    BY <1>7, <2>1
  <2> QED
    BY <1>3, <2>1, <2>2
<1>11. Len(s) = Len(l) + 2 + Len(r)
  BY <1>1, <1>2, <1>5
<1> QED
  BY <1>1, <1>5, <1>8, <1>9, <1>10, <1>11 DEF s, m

\* At a marker: what is stored and what comes before it, the marker, and what is behind it.
LEMMA AtMarker ==
  ASSUME UploadInv, Scanning, NEW i \in 1..Len(data), MarkerAt(i)
  PROVE  LET l == file.text \o Before(data, i)
             f == From(data, i + 2)
             r == f \o Unread
         IN /\ l \in Seq(Tokens) /\ r \in Seq(Tokens) /\ f \in Seq(Tokens)
            /\ Before(data, i) \in Seq(Tokens) /\ Len(f) <= Len(data)
            /\ InOrder = l \o (Marker \o r) /\ (l \o f) \o Unread = l \o r
            /\ i + 2 <= Len(data) => 1 \in 1..Len(r) /\ r[1] = data[i + 2]
<1> DEFINE b == Before(data, i)
           f == From(data, i + 2)
           x == file.text
           u == Unread
           l == x \o b
           r == f \o u
<1>1. /\ data \in Seq(Tokens) /\ x \in Seq(Tokens) /\ u \in Seq(Tokens)
      /\ InOrder = (x \o data) \o u
  BY AtScan
<1>2. FirstAt(data, Marker, i) /\ Len(data) \in Nat /\ Len(u) \in Nat
  BY <1>1, LenProperties DEF MarkerAt
<1>3. /\ i + 2 <= Len(data) + 1 /\ data = b \o (Marker \o f)
      /\ b \in Seq(Tokens) /\ f \in Seq(Tokens)
      /\ Len(b) = i - 1 /\ Len(f) = Len(data) - (i + 1)
      /\ i + 2 <= Len(data) => f[1] = data[i + 2]
  BY <1>1, <1>2, MarkerCut
<1> HIDE DEF b, f, x, u
<1>4. l \in Seq(Tokens) /\ r \in Seq(Tokens)
  BY <1>1, <1>3, Joined
<1> DEFINE g == Marker \o f
<1>5. g \o u = Marker \o r
  <2>1. Marker \in Seq(Tokens) /\ f \in Seq(Tokens) /\ u \in Seq(Tokens)
    BY <1>1, <1>3, MarkerTyped
  <2> QED
    BY <2>1, ConcatAssociative, SMTT(30)
<1>6. InOrder = l \o (Marker \o r) /\ (l \o f) \o u = l \o r
  <2>1. g \in Seq(Tokens) /\ l \in Seq(Tokens)
    BY <1>3, <1>4, MarkerTyped, Joined, SMTT(30)
  <2>2. x \o (b \o g) = l \o g
    <3>1. x \in Seq(Tokens) /\ b \in Seq(Tokens) /\ g \in Seq(Tokens)
      BY <1>1, <1>3, <2>1
    <3> HIDE DEF g
    <3> QED
      BY <3>1, ConcatAssociative, SMTT(30)
  <2>3. (l \o g) \o u = l \o (g \o u)
    <3>1. l \in Seq(Tokens) /\ g \in Seq(Tokens) /\ u \in Seq(Tokens)
      BY <1>1, <2>1
    <3> HIDE DEF g, l
    <3> QED
      BY <3>1, ConcatAssociative, SMTT(30)
  <2>4. (l \o f) \o u = l \o r
    <3>1. l \in Seq(Tokens) /\ f \in Seq(Tokens) /\ u \in Seq(Tokens)
      BY <1>1, <1>3, <2>1
    <3> HIDE DEF l
    <3> QED
      BY <3>1, ConcatAssociative, SMTT(30)
  <2>5. InOrder = (x \o (b \o g)) \o u
    BY <1>1, <1>3
  <2> HIDE DEF l, r, g
  <2> QED
    BY <1>5, <2>2, <2>3, <2>4, <2>5
<1>7. Len(f) <= Len(data)
  BY <1>2, <1>3
<1>8. ASSUME i + 2 <= Len(data) PROVE 1 \in 1..Len(r) /\ r[1] = data[i + 2]
  <2>1. 1 \in 1..(Len(f) + Len(u)) /\ 1 <= Len(f)
    BY <1>2, <1>3, <1>8
  <2>2. Len(f \o u) = Len(f) + Len(u)
    BY <1>1, <1>3, Joined
  <2>3. (f \o u)[1] = f[1]
    BY <1>1, <1>3, <2>1, JoinedAt
  <2> QED
    BY <1>3, <1>8, <2>1, <2>2, <2>3
<1> QED
  BY <1>3, <1>4, <1>6, <1>7, <1>8 DEF b, f, u, x

LEMMA InnerKeeps == ASSUME UploadInv, InnerMarker PROVE UploadInv'
<1>1. TypeOK /\ TypeOK' /\ Scanning
  BY MarkersTyped DEF UploadInv, InnerMarker
<1>2. PICK i \in 1..Len(data) :
        /\ MarkerAt(i) /\ file' = Written(Before(data, i)) /\ data' = From(data, i + MarkerLen)
  BY DEF InnerMarker
<1>3. data' = From(data, i + 2) /\ MarkerLen = 2
  BY <1>2, MarkerTyped
<1>4. /\ upload_buffer' = <<>> /\ UNCHANGED scanKeeps /\ UNCHANGED <<upload_state, answer>>
      /\ Unread' = Unread /\ fin' = fin /\ (~file.bad => Body(InOrder))
  BY <1>1, AtScan DEF InnerMarker, scanKeeps, clientVars, Unread
<1> DEFINE l == file.text \o Before(data, i)
           r == From(data, i + 2) \o Unread
           f == From(data, i + 2)
<1>5. /\ l \in Seq(Tokens) /\ r \in Seq(Tokens) /\ f \in Seq(Tokens)
      /\ Len(f) <= Len(data)
      /\ InOrder = l \o (Marker \o r) /\ (l \o f) \o Unread = l \o r
  BY <1>1, <1>2, AtMarker
<1>6. ASSUME ~file'.bad PROVE Body(InOrder)'
  <2>1. ~file.bad /\ file'.text = l
    BY <1>1, <1>2, <1>6 DEF Written, TypeOK
  <2>2. InOrder' = ((l \o <<>>) \o f) \o Unread
    BY <1>1, <1>3, <1>4, <2>1, OrderedNext
  <2> HIDE DEF l, r, f
  <2>3. InOrder' = l \o r
    <3>1. l \o <<>> = l
      BY <1>5, Joined
    <3> QED
      BY <1>5, <2>2, <3>1
  <2> DEFINE s == l \o (Marker \o r)
             t == l \o r
  <2>4. /\ s \in Seq(Tokens) /\ Len(s) = Len(l) + 2 + Len(r) /\ Len(l) \in Nat
        /\ Len(r) \in Nat /\ \A k \in 1..Len(l) : s[k] = l[k]
        /\ s[Len(l) + 1] = "m1" /\ s[Len(l) + 2] = "m2"
        /\ \A k \in 1..Len(r) : s[Len(l) + 2 + k] = r[k]
    BY <1>5, Around
  <2>5. /\ t \in Seq(Tokens) /\ Len(t) = Len(l) + Len(r)
        /\ \A k \in 1..(Len(l) + Len(r)) : t[k] = IF k <= Len(l) THEN l[k] ELSE r[k - Len(l)]
    BY <1>5, Joined, JoinedAt
  <2> DEFINE p == Len(l) + 1
  <2> HIDE DEF s, t
  <2>6. ASSUME NEW k \in 1..Len(t) PROVE t[k] = IF k < p THEN s[k] ELSE s[k + 2]
    <3>1. k \in 1..(Len(l) + Len(r))
      BY <2>5
    <3>2. CASE k <= Len(l)
      BY <2>4, <2>5, <3>1, <3>2, SMTT(30)
    <3>3. CASE ~(k <= Len(l))
      <4>1. k - Len(l) \in 1..Len(r) /\ Len(l) + 2 + (k - Len(l)) = k + 2
        BY <2>4, <3>1, <3>3
      <4>2. s[Len(l) + 2 + (k - Len(l))] = r[k - Len(l)]
        BY <2>4, <4>1
      <4> QED
        BY <2>4, <2>5, <3>1, <3>3, <4>1, <4>2
    <3> QED
      BY <3>2, <3>3
  <2>7. /\ p \in Nat \ {0} /\ p + 1 <= Len(s) /\ s[p] = "m1" /\ s[p + 1] = "m2"
        /\ Len(t) = Len(s) - 2
    <3>1. p + 1 = Len(l) + 2
      BY <2>4
    <3> QED
      BY <2>4, <2>5, <3>1
  <2>8. Body(s)
    BY <1>4, <1>5, <2>1 DEF s
  <2> HIDE DEF p
  <2>9. Body(t)
    BY <2>4, <2>5, <2>6, <2>7, <2>8, BodyCut
  <2> QED
    BY <1>4, <2>3, <2>9, FormKept DEF t
<1>7. Len(data') <= Len(data)
  BY <1>3, <1>5
<1> QED
  BY <1>1, <1>4, <1>6, <1>7, ScanKeeps

\* The closing marker behind l: l is the part as it came.
LEMMA WholeFile ==
  ASSUME NEW l \in Seq(Tokens), NEW r \in Seq(Tokens), Body(l \o (Marker \o r)),
         1 \in 1..Len(r), r[1] = "dashes"
  PROVE  \E o \in Openings : l = o \o Payload \o <<"nl">>
<1> DEFINE s == l \o (Marker \o r)
           p == Len(l) + 1
<1>1. /\ s \in Seq(Tokens) /\ Len(l) \in Nat /\ Len(r) \in Nat
      /\ Len(s) = Len(l) + 2 + Len(r)
      /\ \A k \in 1..Len(l) : s[k] = l[k]
      /\ s[Len(l) + 1] = "m1" /\ s[Len(l) + 2] = "m2"
      /\ \A k \in 1..Len(r) : s[Len(l) + 2 + k] = r[k]
  BY Around
<1>2. PICK a \in Nat : Form(s, a) /\ Front(s, 0, a)
  BY DEF Body
<1>10. PICK o \in Openings :
         Len(o) = a - 0 /\ \A k \in 1..Len(s) : k \in (0 + 1)..a => s[k] = o[k - 0]
  BY <1>2 DEF Front
<1> HIDE DEF s
<1>3. p = a + Size + 2
  <2>1. s[Len(l) + 2 + 1] = "dashes"
    BY <1>1
  <2>2. /\ p \in Nat \ {0} /\ p + 2 <= Len(s) /\ p + 1 = Len(l) + 2
        /\ p + 2 = Len(l) + 2 + 1
    BY <1>1
  <2>3. s[p] = "m1" /\ s[p + 1] = "m2" /\ s[p + 2] = "dashes"
    BY <1>1, <2>1, <2>2
  <2> HIDE DEF p
  <2> QED
    BY <1>1, <1>2, <2>2, <2>3, ClosingPlace
<1>4. Size \in Nat /\ Len(l) = a + Size + 1
  BY <1>1, <1>3, Kinds
<1> DEFINE f == From(l, a + 1)
           q == Payload \o <<"nl">>
<1>5. /\ f \in Seq(Tokens) /\ Len(f) = Size + 1
      /\ \A j \in 1..(Size + 1) : f[j] = l[a + j]
  <2>1. a \in 0..Len(l) /\ Len(l) - a = Size + 1
    BY <1>4
  <2>2. /\ f \in Seq(Tokens) /\ Len(f) = Len(l) - a
        /\ \A j \in 1..(Len(l) - a) : f[j] = l[a + j]
    BY <2>1, CutAt, Zenon
  <2> QED
    BY <2>1, <2>2
<1>6. /\ q \in Seq(Tokens) /\ Len(q) = Size + 1
      /\ \A j \in 1..(Size + 1) : q[j] = IF j <= Size THEN Payload[j] ELSE "nl"
  <2> DEFINE n == <<"nl">>
  <2>1. Payload \in Seq(Tokens) /\ n \in Seq(Tokens) /\ Len(n) = 1 /\ n[1] = "nl"
    <3>1. "nl" \in Tokens
      BY DEF Tokens, Items
    <3> QED
      BY <3>1, Kinds
  <2> HIDE DEF n
  <2>2. q = Payload \o n
    BY DEF n
  <2>3. q \in Seq(Tokens) /\ Len(q) = Size + 1
    BY <2>1, <2>2, Joined DEF Size
  <2>4. ASSUME NEW j \in 1..(Size + 1) PROVE q[j] = IF j <= Size THEN Payload[j] ELSE "nl"
    <3>1. j \in 1..(Len(Payload) + Len(n))
      BY <2>1 DEF Size
    <3>2. (Payload \o n)[j] = IF j <= Size THEN Payload[j] ELSE n[j - Size]
      BY <2>1, <3>1, JoinedAt DEF Size
    <3>3. ~(j <= Size) => j - Size = 1
      BY <1>4
    <3> QED
      BY <2>1, <2>2, <3>2, <3>3
  <2> QED
    BY <2>3, <2>4
<1> HIDE DEF f, q
<1>7. ASSUME NEW j \in 1..(Size + 1) PROVE f[j] = q[j]
  <2>1. a + j \in 1..Len(l) /\ a + j \in 1..Len(s) /\ f[j] = s[a + j]
    BY <1>1, <1>4, <1>5
  <2>2. CASE j <= Size
    <3>1. a + j \in (a + 1)..(a + Size) /\ a + j - a = j
      BY <1>4, <2>2
    <3>2. s[a + j] = Payload[a + j - a]
      BY <1>2, <2>1, <3>1 DEF Form
    <3> QED
      BY <1>6, <2>1, <2>2, <3>1, <3>2
  <2>3. CASE ~(j <= Size)
    <3>1. a + j = a + Size + 1
      BY <1>4, <2>3
    <3>2. s[a + j] = "nl"
      BY <1>2, <2>1, <3>1 DEF Form
    <3> QED
      BY <1>6, <2>1, <2>3, <3>2
  <2> QED
    BY <2>2, <2>3
<1>8. f = q
  BY <1>5, <1>6, <1>7, SeqEqual
<1> DEFINE e == Before(l, a + 1)
<1>9. /\ e \in Seq(Tokens) /\ Len(e) = a /\ l = e \o f
      /\ \A j \in 1..a : e[j] = l[j]
  <2>1. a \in 0..Len(l) /\ (a + 1) - 1 = a
    BY <1>4
  <2>2. e = SubSeq(l, 1, a)
    BY <2>1 DEF Before
  <2>3. /\ SubSeq(l, 1, a) \in Seq(Tokens) /\ Len(SubSeq(l, 1, a)) = a
        /\ l = SubSeq(l, 1, a) \o From(l, a + 1)
        /\ \A j \in 1..a : SubSeq(l, 1, a)[j] = l[j]
    BY <2>1, CutAt, Zenon
  <2> HIDE DEF e
  <2> QED
    BY <2>2, <2>3 DEF f
<1>11. o \in Seq(Tokens) /\ Len(o) = a /\ a \in Nat
  BY <1>10, OpeningsAre
<1> HIDE DEF e
<1>12. ASSUME NEW j \in 1..a PROVE e[j] = o[j]
  <2>1. /\ j \in 1..Len(l) /\ j \in 1..Len(s) /\ j \in (0 + 1)..a /\ j - 0 = j
    BY <1>1, <1>4, <1>11
  <2> QED
    BY <1>1, <1>9, <1>10, <2>1
<1>13. e = o
  BY <1>9, <1>11, <1>12, SeqEqual
<1>14. l = o \o (Payload \o <<"nl">>)
  BY <1>8, <1>9, <1>13 DEF q
<1>15. (o \o Payload) \o <<"nl">> = o \o (Payload \o <<"nl">>)
  <2>1. <<"nl">> \in Seq(Tokens)
    BY DEF Tokens, Items
  <2> QED
    BY <1>11, <2>1, Kinds, ConcatAssociative
<1> QED
  BY <1>14, <1>15

LEMMA ClosingKeeps == ASSUME UploadInv, ClosingMarker PROVE UploadInv'
<1>1. TypeOK /\ TypeOK' /\ Scanning
  BY MarkersTyped DEF UploadInv, ClosingMarker
<1>2. PICK i \in 1..Len(data) :
        /\ MarkerAt(i) /\ Closing(i)
        /\ file' = [Written(Before(data, i)) EXCEPT !.open = FALSE]
  BY DEF ClosingMarker
<1>3. /\ upload_state' = "NOT" /\ place' = "read" /\ upload_buffer' = <<>>
      /\ Unread' = Unread /\ NoPost(Unread) /\ (~file.bad => Body(InOrder))
  BY <1>1, AtScan DEF ClosingMarker, scanKeeps, clientVars, Unread
<1>4. NoPost(Unread)'
  BY <1>3 DEF NoPost
<1> DEFINE l == file.text \o Before(data, i)
           r == From(data, i + 2) \o Unread
<1>5. /\ l \in Seq(Tokens) /\ r \in Seq(Tokens) /\ Before(data, i) \in Seq(Tokens)
      /\ InOrder = l \o (Marker \o r)
      /\ i + 2 <= Len(data) => 1 \in 1..Len(r) /\ r[1] = data[i + 2]
  BY <1>1, <1>2, AtMarker
<1>6. 1 \in 1..Len(r) /\ r[1] = "dashes"
  BY <1>2, <1>5, MarkerTyped DEF Closing
<1>7. ASSUME ~file'.bad PROVE ~file.bad /\ file'.text = l
  <2> DEFINE w == Written(Before(data, i))
  <2>1. w \in Files
    BY <1>1, <1>5, WrittenTyped DEF TypeOK, Files
  <2>2. file'.bad = w.bad /\ file'.text = w.text
    <3> HIDE DEF w
    <3>1. file' = [w EXCEPT !.open = FALSE]
      BY <1>2 DEF w
    <3> QED
      BY <2>1, <3>1 DEF Files
  <2> QED
    BY <1>1, <1>7, <2>2 DEF Written, TypeOK
<1>8. StoredPart'
  <2>1. SUFFICES ASSUME ~file'.bad
                 PROVE  \E o \in Openings : file'.text = o \o Payload \o <<"nl">>
    BY DEF StoredPart
  <2>2. Body(l \o (Marker \o r)) /\ file'.text = l
    BY <1>3, <1>5, <1>7, <2>1
  <2> HIDE DEF l, r
  <2>3. \E o \in Openings : l = o \o Payload \o <<"nl">>
    BY <1>5, <1>6, <2>2, WholeFile
  <2> QED
    BY <2>2, <2>3
<1>9. Scanned' /\ Once' /\ InHeaders' /\ InContent' /\ Stored'
  BY <1>3, <1>4, <1>8 DEF Scanned, Once, InHeaders, InContent, Stored
<1> QED
  BY <1>1, <1>9 DEF UploadInv

LEMMA StepKeeps == UploadInv /\ [Next]_vars => UploadInv'
<1> SUFFICES ASSUME UploadInv, [Next]_vars PROVE UploadInv'
  OBVIOUS
<1>1. CASE UNCHANGED vars
  <2>1. TypeOK'
    BY <1>1, StepTyped DEF UploadInv
  <2>2. /\ fin' = fin /\ Unread' = Unread /\ place' = place
        /\ UNCHANGED <<uploadVars, uploading, answer>>
    BY <1>1 DEF vars, clientVars, Unread
  <2> QED
    BY <2>1, <2>2, SameUnread
<1> QED
  BY <1>1, DeliverKeeps, LeaveKeeps, BeginKeeps, LoopKeeps, ProcessKeeps, HeadersKeep,
     NoMarkerKeeps, InnerKeeps, ClosingKeeps DEF Next, Loop, Scan

(***************************************************************************)
(* The request as it is sent.                                              *)
(***************************************************************************)
LEMMA Pieces ==
  ASSUME NEW s \in Seq(Tokens), NEW t \in Seq(Tokens)
  PROVE  /\ s \o t \in Seq(Tokens) /\ Len(s \o t) = Len(s) + Len(t)
         /\ Len(s) \in Nat /\ Len(t) \in Nat
         /\ \A k \in 1..Len(s) : (s \o t)[k] = s[k]
         /\ \A k \in 1..Len(t) : (s \o t)[Len(s) + k] = t[k]
<1>1. Len(s) \in Nat /\ Len(t) \in Nat
  BY LenProperties
<1>2. ASSUME NEW k \in 1..Len(s) PROVE (s \o t)[k] = s[k]
  <2>1. k \in 1..(Len(s) + Len(t)) /\ k <= Len(s)
    BY <1>1
  <2> QED
    BY <2>1, JoinedAt
<1>3. ASSUME NEW k \in 1..Len(t) PROVE (s \o t)[Len(s) + k] = t[k]
  <2> DEFINE q == Len(s) + k
  <2>1. q \in 1..(Len(s) + Len(t)) /\ ~(q <= Len(s)) /\ q - Len(s) = k
    BY <1>1
  <2> HIDE DEF q
  <2>2. (s \o t)[q] = t[q - Len(s)]
    BY <2>1, JoinedAt
  <2> QED
    BY <2>1, <2>2 DEF q
<1> QED
  BY <1>1, <1>2, <1>3, Joined

\* Behind m there are only tokens of S.
Only(s, m, S) == \A k \in 1..Len(s) : k > m => s[k] \in S

LEMMA OnlyJoined ==
  ASSUME NEW s \in Seq(Tokens), NEW t \in Seq(Tokens), NEW S, NEW m \in Nat,
         Only(s, m, S), Only(t, 0, S)
  PROVE  Only(s \o t, m, S)
<1>1. /\ Len(s \o t) = Len(s) + Len(t) /\ Len(s) \in Nat /\ Len(t) \in Nat
      /\ \A k \in 1..Len(s) : (s \o t)[k] = s[k]
      /\ \A k \in 1..Len(t) : (s \o t)[Len(s) + k] = t[k]
  BY Pieces
<1> SUFFICES ASSUME NEW k \in 1..Len(s \o t), k > m PROVE (s \o t)[k] \in S
  BY DEF Only
<1>2. CASE k <= Len(s)
  <2>1. k \in 1..Len(s)
    BY <1>1, <1>2
  <2> QED
    BY <1>1, <2>1 DEF Only
<1>3. CASE ~(k <= Len(s))
  <2> DEFINE j == k - Len(s)
  <2>1. j \in 1..Len(t) /\ Len(s) + j = k /\ j > 0
    BY <1>1, <1>3
  <2> HIDE DEF j
  <2>2. (s \o t)[Len(s) + j] = t[j]
    BY <1>1, <2>1
  <2> QED
    BY <2>1, <2>2 DEF Only
<1> QED
  BY <1>2, <1>3

LEMMA Tokens1 ==
  /\ {"post", "type", "hdr", "blank", "m1", "m2", "name", "nl", "dashes"} \subseteq Tokens
  /\ \A x \in Tokens : <<x>> \in Seq(Tokens) /\ Len(<<x>>) = 1 /\ <<x>>[1] = x
BY DEF Tokens, Items

\* The headers before the first empty line.
LEMMA HeadForm ==
  ASSUME NEW naming
  PROVE  LET n1 == IF naming = "head" THEN <<"name">> ELSE <<>>
             h == <<"post">> \o n1 \o <<"type">> \o [i \in 1..NHeaders |-> "hdr"]
         IN /\ h \in Seq(Tokens) /\ Len(h) \in Nat \ {0} /\ h[1] = "post"
            /\ Only(h, 1, {"name", "type", "hdr"})
<1> DEFINE n1 == IF naming = "head" THEN <<"name">> ELSE <<>>
           hs == [i \in 1..NHeaders |-> "hdr"]
           S == {"name", "type", "hdr"}
<1>1. n1 \in Seq(Tokens) /\ Only(n1, 0, S)
  <2>1. <<"name">> \in Seq(Tokens) /\ Only(<<"name">>, 0, S)
    BY Tokens1 DEF Only
  <2>2. <<>> \in Seq(Tokens) /\ Only(<<>>, 0, S)
    BY EmptySeq DEF Only
  <2> QED
    BY <2>1, <2>2
<1>2. hs \in Seq(Tokens) /\ Only(hs, 0, S)
  <2>1. NHeaders \in Nat /\ "hdr" \in Tokens
    BY UploadAssumption, Tokens1
  <2>2. hs \in Seq(Tokens) /\ Len(hs) = NHeaders
    BY <2>1
  <2>3. \A k \in 1..NHeaders : hs[k] = "hdr"
    OBVIOUS
  <2> HIDE DEF hs
  <2> QED
    BY <2>2, <2>3 DEF Only
<1>3. /\ <<"post">> \in Seq(Tokens) /\ Len(<<"post">>) = 1 /\ <<"post">>[1] = "post"
      /\ Only(<<"post">>, 1, S)
  BY Tokens1 DEF Only
<1>4. <<"type">> \in Seq(Tokens) /\ Only(<<"type">>, 0, S)
  BY Tokens1 DEF Only
<1> DEFINE p == <<"post">>
           ty == <<"type">>
           r1 == p \o n1
           r2 == r1 \o ty
           r3 == r2 \o hs
<1> HIDE DEF n1, hs, S, p, ty
<1>5. p \in Seq(Tokens) /\ Len(p) = 1 /\ p[1] = "post" /\ Only(p, 1, S)
  BY <1>3 DEF p
<1>6. ty \in Seq(Tokens) /\ Only(ty, 0, S)
  BY <1>4 DEF ty
<1>7. /\ r1 \in Seq(Tokens) /\ Len(r1) \in Nat \ {0} /\ r1[1] = "post" /\ Only(r1, 1, S)
  <2>1. /\ r1 \in Seq(Tokens) /\ Len(r1) = Len(p) + Len(n1) /\ Len(n1) \in Nat
        /\ \A k \in 1..Len(p) : r1[k] = p[k]
    BY <1>1, <1>5, Pieces
  <2>2. Only(r1, 1, S)
    BY <1>1, <1>5, OnlyJoined
  <2> HIDE DEF r1
  <2> QED
    BY <1>5, <2>1, <2>2
<1> HIDE DEF r1
<1>8. /\ r2 \in Seq(Tokens) /\ Len(r2) \in Nat \ {0} /\ r2[1] = "post" /\ Only(r2, 1, S)
  <2>1. /\ r2 \in Seq(Tokens) /\ Len(r2) = Len(r1) + Len(ty) /\ Len(ty) \in Nat
        /\ \A k \in 1..Len(r1) : r2[k] = r1[k]
    BY <1>6, <1>7, Pieces
  <2>2. Only(r2, 1, S)
    BY <1>6, <1>7, OnlyJoined
  <2> HIDE DEF r2
  <2> QED
    BY <1>7, <2>1, <2>2
<1> HIDE DEF r2
<1>9. /\ r3 \in Seq(Tokens) /\ Len(r3) \in Nat \ {0} /\ r3[1] = "post" /\ Only(r3, 1, S)
  <2>1. /\ r3 \in Seq(Tokens) /\ Len(r3) = Len(r2) + Len(hs) /\ Len(hs) \in Nat
        /\ \A k \in 1..Len(r2) : r3[k] = r2[k]
    BY <1>2, <1>8, Pieces
  <2>2. Only(r3, 1, S)
    BY <1>2, <1>8, OnlyJoined
  <2> HIDE DEF r3
  <2> QED
    BY <1>8, <2>1, <2>2
<1> QED
  BY <1>9 DEF r3, r2, r1, p, ty, n1, hs, S

\* The empty line, the first marker and the part's headers behind them.
LEMMA PartForm ==
  ASSUME NEW naming, NEW h \in Seq(Tokens)
  PROVE  LET n2 == IF naming = "part" THEN <<"name">> ELSE <<>>
             a == h \o <<"blank">> \o Marker \o n2 \o <<"blank">>
         IN /\ a \in Seq(Tokens) /\ Len(a) > Len(h) /\ a[Len(h) + 1] = "blank"
            /\ \A k \in 1..Len(h) : a[k] = h[k]
            /\ Only(a, Len(h), {"blank", "m1", "m2", "name"})
            /\ Opens(a, Len(h) + 1)
<1> DEFINE n2 == IF naming = "part" THEN <<"name">> ELSE <<>>
           S == {"blank", "m1", "m2", "name"}
           b == <<"blank">>
           m == Marker
<1>1. n2 \in Seq(Tokens) /\ Only(n2, 0, S)
  <2>1. <<"name">> \in Seq(Tokens) /\ Only(<<"name">>, 0, S)
    BY Tokens1 DEF Only
  <2>2. <<>> \in Seq(Tokens) /\ Only(<<>>, 0, S)
    BY EmptySeq DEF Only
  <2> QED
    BY <2>1, <2>2
<1>2. b \in Seq(Tokens) /\ Only(b, 0, S) /\ Len(b) = 1 /\ b[1] = "blank"
  BY Tokens1 DEF Only
<1>3. m \in Seq(Tokens) /\ Only(m, 0, S)
  <2>1. Marker \in Seq(Tokens) /\ Len(Marker) = 2 /\ Marker[1] = "m1" /\ Marker[2] = "m2"
    BY MarkerTyped DEF Marker
  <2>2. \A k \in 1..2 : k = 1 \/ k = 2
    OBVIOUS
  <2> QED
    BY <2>1, <2>2 DEF Only
<1>4. Len(h) \in Nat /\ Only(h, Len(h), S)
  BY LenProperties DEF Only
<1> HIDE DEF n2, S, b, m
<1> DEFINE r1 == h \o b
           r2 == r1 \o m
           r3 == r2 \o n2
           r4 == r3 \o b
           Good(r) == /\ r \in Seq(Tokens) /\ Len(r) \in Nat /\ Len(r) > Len(h)
                      /\ r[Len(h) + 1] = "blank" /\ \A k \in 1..Len(h) : r[k] = h[k]
                      /\ Only(r, Len(h), S)
<1>5. Good(r1)
  <2>1. /\ r1 \in Seq(Tokens) /\ Len(r1) = Len(h) + Len(b)
        /\ \A k \in 1..Len(h) : r1[k] = h[k]
        /\ \A k \in 1..Len(b) : r1[Len(h) + k] = b[k]
    BY <1>2, Pieces
  <2>2. Only(r1, Len(h), S)
    BY <1>2, <1>4, OnlyJoined
  <2> HIDE DEF r1
  <2> QED
    BY <1>2, <1>4, <2>1, <2>2
<1>6. ASSUME NEW r, Good(r), NEW t \in Seq(Tokens), Only(t, 0, S) PROVE Good(r \o t)
  <2> DEFINE q == r \o t
  <2>1. /\ q \in Seq(Tokens) /\ Len(q) = Len(r) + Len(t) /\ Len(t) \in Nat
        /\ \A k \in 1..Len(r) : q[k] = r[k]
    BY <1>6, Pieces
  <2>2. Only(q, Len(h), S)
    BY <1>4, <1>6, OnlyJoined
  <2> HIDE DEF q
  <2>3. \A k \in 1..Len(h) : k \in 1..Len(r)
    BY <1>4, <1>6
  <2>4. Len(h) + 1 \in 1..Len(r) /\ Len(q) \in Nat /\ Len(q) > Len(h)
    BY <1>4, <1>6, <2>1
  <2>5. Good(q)
    BY <1>6, <2>1, <2>2, <2>3, <2>4
  <2> QED
    BY <2>5 DEF q
<1>10. Opens(r4, Len(h) + 1)
  <2> SUFFICES \E o \in Openings :
                 Len(r4) = Len(h) + 1 + Len(o) /\ \A k \in 1..Len(o) : r4[Len(h) + 1 + k] = o[k]
    BY DEF Opens
  <2> DEFINE c == IF naming = "part" THEN <<"m1", "m2", "name", "blank">> ELSE <<"m1", "m2", "blank">>
             g == Len(h) + 1
  <2>1. /\ r1 \in Seq(Tokens) /\ Len(r1) = g /\ g \in Nat
    <3>1. r1 \in Seq(Tokens) /\ Len(r1) = Len(h) + Len(b)
      BY <1>2, Pieces
    <3> HIDE DEF r1
    <3> QED
      BY <1>2, <1>4, <3>1
  <2>2. /\ m \in Seq(Tokens) /\ Len(m) = 2 /\ m[1] = "m1" /\ m[2] = "m2"
    BY MarkerTyped DEF Marker, m
  <2> HIDE DEF r1, g
  <2>3. /\ r2 \in Seq(Tokens) /\ Len(r2) = g + 2 /\ r2[g + 1] = "m1" /\ r2[g + 2] = "m2"
    <3>1. /\ r2 \in Seq(Tokens) /\ Len(r2) = Len(r1) + Len(m)
          /\ \A k \in 1..Len(m) : r2[Len(r1) + k] = m[k]
      BY <2>1, <2>2, Pieces
    <3>2. 1 \in 1..Len(m) /\ 2 \in 1..Len(m)
      BY <2>2
    <3> HIDE DEF r2
    <3> QED
      BY <2>1, <2>2, <3>1, <3>2
  <2> HIDE DEF r2
  <2>4. CASE naming = "part"
    <3>1. n2 \in Seq(Tokens) /\ Len(n2) = 1 /\ n2[1] = "name"
      BY <2>4, Tokens1 DEF n2
    <3>2. /\ r3 \in Seq(Tokens) /\ Len(r3) = Len(r2) + Len(n2)
          /\ \A k \in 1..Len(r2) : r3[k] = r2[k]
          /\ \A k \in 1..Len(n2) : r3[Len(r2) + k] = n2[k]
      BY <2>3, <3>1, Pieces
    <3> HIDE DEF r3
    <3>3. /\ Len(r3) = g + 3 /\ r3[g + 1] = "m1" /\ r3[g + 2] = "m2" /\ r3[g + 3] = "name"
      <4>1. g + 1 \in 1..Len(r2) /\ g + 2 \in 1..Len(r2) /\ 1 \in 1..Len(n2)
        BY <2>1, <2>3, <3>1
      <4>2. r3[Len(r2) + 1] = "name" /\ Len(r2) + 1 = g + 3
        BY <2>1, <2>3, <3>1, <3>2, <4>1
      <4> QED
        BY <2>1, <2>3, <3>1, <3>2, <4>1, <4>2
    <3>4. /\ Len(r4) = Len(r3) + Len(b)
          /\ \A k \in 1..Len(r3) : r4[k] = r3[k]
          /\ \A k \in 1..Len(b) : r4[Len(r3) + k] = b[k]
      BY <1>2, <3>2, Pieces
    <3> HIDE DEF r4
    <3>5. /\ Len(r4) = g + 4 /\ r4[g + 1] = "m1" /\ r4[g + 2] = "m2" /\ r4[g + 3] = "name"
          /\ r4[g + 4] = "blank"
      <4>1. g + 1 \in 1..Len(r3) /\ g + 2 \in 1..Len(r3) /\ g + 3 \in 1..Len(r3) /\ 1 \in 1..Len(b)
        BY <1>2, <2>1, <3>3
      <4>2. r4[Len(r3) + 1] = "blank" /\ Len(r3) + 1 = g + 4
        BY <1>2, <2>1, <3>3, <3>4, <4>1
      <4> QED
        BY <1>2, <2>1, <3>3, <3>4, <4>1, <4>2
    <3>6. c = <<"m1", "m2", "name", "blank">> /\ c \in Openings
      BY <2>4 DEF Openings
    <3>7. Len(c) = 4 /\ c[1] = "m1" /\ c[2] = "m2" /\ c[3] = "name" /\ c[4] = "blank"
      BY <3>6
    <3> HIDE DEF c
    <3>8. Len(r4) = g + Len(c) /\ \A k \in 1..Len(c) : r4[g + k] = c[k]
      BY <2>1, <3>5, <3>7
    <3> QED
      BY <3>6, <3>8 DEF g
  <2>5. CASE naming # "part"
    <3>1. n2 = <<>>
      BY <2>5 DEF n2
    <3>2. r3 = r2
      BY <2>3, <3>1, Joined
    <3> HIDE DEF r3
    <3>4. /\ Len(r4) = Len(r3) + Len(b)
          /\ \A k \in 1..Len(r3) : r4[k] = r3[k]
          /\ \A k \in 1..Len(b) : r4[Len(r3) + k] = b[k]
      BY <1>2, <2>3, <3>2, Pieces
    <3> HIDE DEF r4
    <3>5. /\ Len(r4) = g + 3 /\ r4[g + 1] = "m1" /\ r4[g + 2] = "m2" /\ r4[g + 3] = "blank"
      <4>1. g + 1 \in 1..Len(r3) /\ g + 2 \in 1..Len(r3) /\ 1 \in 1..Len(b)
        BY <1>2, <2>1, <2>3, <3>2
      <4>2. r4[Len(r3) + 1] = "blank" /\ Len(r3) + 1 = g + 3
        BY <1>2, <2>1, <2>3, <3>2, <3>4, <4>1
      <4> QED
        BY <1>2, <2>1, <2>3, <3>2, <3>4, <4>1, <4>2
    <3>6. c = <<"m1", "m2", "blank">> /\ c \in Openings
      BY <2>5 DEF Openings
    <3>7. Len(c) = 3 /\ c[1] = "m1" /\ c[2] = "m2" /\ c[3] = "blank"
      BY <3>6
    <3> HIDE DEF c
    <3>8. Len(r4) = g + Len(c) /\ \A k \in 1..Len(c) : r4[g + k] = c[k]
      BY <2>1, <3>5, <3>7
    <3> QED
      BY <3>6, <3>8 DEF g
  <2> QED
    BY <2>4, <2>5
<1> HIDE DEF Good
<1>7. Good(r2)
  BY <1>3, <1>5, <1>6
<1>8. Good(r3)
  BY <1>1, <1>6, <1>7
<1>9. Good(r4)
  BY <1>2, <1>6, <1>8
<1> QED
  BY <1>9, <1>10 DEF Good, r4, r3, r2, r1, b, m, n2, S

\* The file and what follows it, behind a.
LEMMA FileForm ==
  ASSUME NEW a \in Seq(Tokens)
  PROVE  LET q == a \o Payload \o <<"nl">> \o Marker \o <<"dashes", "nl">>
             n == Len(a)
         IN /\ q \in Seq(Tokens) /\ Len(q) = n + Size + 5
            /\ \A k \in 1..n : q[k] = a[k]
            /\ \A k \in 1..Size : q[n + k] = Payload[k]
            /\ q[n + Size + 1] = "nl" /\ q[n + Size + 2] = "m1" /\ q[n + Size + 3] = "m2"
            /\ q[n + Size + 4] = "dashes" /\ q[n + Size + 5] = "nl"
<1> DEFINE n == Len(a)
           l == <<"nl">>
           m == Marker
           d == <<"dashes", "nl">>
           q1 == a \o Payload
           q2 == q1 \o l
           q3 == q2 \o m
           q4 == q3 \o d
<1>1. n \in Nat /\ Size \in Nat /\ Payload \in Seq(Tokens)
  BY LenProperties, Kinds
<1>2. l \in Seq(Tokens) /\ Len(l) = 1 /\ l[1] = "nl"
  BY Tokens1
<1>3. m \in Seq(Tokens) /\ Len(m) = 2 /\ m[1] = "m1" /\ m[2] = "m2"
  BY MarkerTyped DEF Marker
<1>4. d \in Seq(Tokens) /\ Len(d) = 2 /\ d[1] = "dashes" /\ d[2] = "nl"
  BY Tokens1
<1> HIDE DEF l, m, d
<1>5. /\ q1 \in Seq(Tokens) /\ Len(q1) = n + Size
      /\ \A k \in 1..n : q1[k] = a[k]
      /\ \A k \in 1..Size : q1[n + k] = Payload[k]
  BY <1>1, Pieces DEF Size
<1> HIDE DEF q1
<1>6. /\ q2 \in Seq(Tokens) /\ Len(q2) = n + Size + 1
      /\ \A k \in 1..(n + Size) : q2[k] = q1[k]
      /\ q2[n + Size + 1] = "nl"
  <2>1. /\ q2 \in Seq(Tokens) /\ Len(q2) = Len(q1) + Len(l)
        /\ \A k \in 1..Len(q1) : q2[k] = q1[k]
        /\ \A k \in 1..Len(l) : q2[Len(q1) + k] = l[k]
    BY <1>2, <1>5, Pieces
  <2> HIDE DEF q2, n
  <2> QED
    BY <1>1, <1>2, <1>5, <2>1
<1> HIDE DEF q2
<1>7. /\ q3 \in Seq(Tokens) /\ Len(q3) = n + Size + 3
      /\ \A k \in 1..(n + Size + 1) : q3[k] = q2[k]
      /\ q3[n + Size + 2] = "m1" /\ q3[n + Size + 3] = "m2"
  <2>1. /\ q3 \in Seq(Tokens) /\ Len(q3) = Len(q2) + Len(m)
        /\ \A k \in 1..Len(q2) : q3[k] = q2[k]
        /\ \A k \in 1..Len(m) : q3[Len(q2) + k] = m[k]
    BY <1>3, <1>6, Pieces
  <2>2. 1 \in 1..Len(m) /\ 2 \in 1..Len(m)
    BY <1>3
  <2> HIDE DEF q3, n
  <2>3. n + Size + 1 + 1 = n + Size + 2 /\ n + Size + 1 + 2 = n + Size + 3
    BY <1>1
  <2>4. q3[Len(q2) + 1] = m[1] /\ q3[Len(q2) + 2] = m[2]
    BY <2>1, <2>2
  <2> QED
    BY <1>1, <1>3, <1>6, <2>1, <2>3, <2>4
<1> HIDE DEF q3
<1>8. /\ q4 \in Seq(Tokens) /\ Len(q4) = n + Size + 5
      /\ \A k \in 1..(n + Size + 3) : q4[k] = q3[k]
      /\ q4[n + Size + 4] = "dashes" /\ q4[n + Size + 5] = "nl"
  <2>1. /\ q4 \in Seq(Tokens) /\ Len(q4) = Len(q3) + Len(d)
        /\ \A k \in 1..Len(q3) : q4[k] = q3[k]
        /\ \A k \in 1..Len(d) : q4[Len(q3) + k] = d[k]
    BY <1>4, <1>7, Pieces
  <2>2. 1 \in 1..Len(d) /\ 2 \in 1..Len(d)
    BY <1>4
  <2> HIDE DEF q4, n
  <2>3. n + Size + 3 + 1 = n + Size + 4 /\ n + Size + 3 + 2 = n + Size + 5
    BY <1>1
  <2>4. q4[Len(q3) + 1] = d[1] /\ q4[Len(q3) + 2] = d[2]
    BY <2>1, <2>2
  <2> QED
    BY <1>1, <1>4, <1>7, <2>1, <2>3, <2>4
<1> HIDE DEF q4, n
<1>9. ASSUME NEW k \in 1..(n + Size) PROVE q4[k] = q1[k]
  <2>1. k \in 1..(n + Size + 1) /\ k \in 1..(n + Size + 3)
    BY <1>1
  <2> QED
    BY <1>6, <1>7, <1>8, <2>1
<1>10. \A k \in 1..n : q4[k] = a[k]
  <2>1. \A k \in 1..n : k \in 1..(n + Size)
    BY <1>1
  <2> QED
    BY <1>5, <1>9, <2>1
<1>11. \A k \in 1..Size : q4[n + k] = Payload[k]
  <2>1. \A k \in 1..Size : n + k \in 1..(n + Size)
    BY <1>1
  <2> QED
    BY <1>5, <1>9, <2>1
<1>12. q4[n + Size + 1] = "nl" /\ q4[n + Size + 2] = "m1" /\ q4[n + Size + 3] = "m2"
  <2>1. /\ n + Size + 1 \in 1..(n + Size + 1) /\ n + Size + 1 \in 1..(n + Size + 3)
        /\ n + Size + 2 \in 1..(n + Size + 3) /\ n + Size + 3 \in 1..(n + Size + 3)
    BY <1>1
  <2> QED
    BY <1>6, <1>7, <1>8, <2>1
<1> QED
  BY <1>8, <1>10, <1>11, <1>12 DEF q4, q3, q2, q1, d, m, l, n

LEMMA RequestFresh == \A naming : Fresh(Request(naming))
<1> SUFFICES ASSUME NEW naming PROVE Fresh(Request(naming))
  OBVIOUS
<1> DEFINE n1 == IF naming = "head" THEN <<"name">> ELSE <<>>
           h == <<"post">> \o n1 \o <<"type">> \o [i \in 1..NHeaders |-> "hdr"]
           n2 == IF naming = "part" THEN <<"name">> ELSE <<>>
           a == h \o <<"blank">> \o Marker \o n2 \o <<"blank">>
           q == a \o Payload \o <<"nl">> \o Marker \o <<"dashes", "nl">>
           b == Len(h) + 1
           n == Len(a)
<1>1. Request(naming) = q
  BY DEF Request
<1>2. /\ h \in Seq(Tokens) /\ Len(h) \in Nat \ {0} /\ h[1] = "post"
      /\ Only(h, 1, {"name", "type", "hdr"})
  BY HeadForm
<1> HIDE DEF h
<1>3. /\ a \in Seq(Tokens) /\ Len(a) > Len(h) /\ a[Len(h) + 1] = "blank"
      /\ \A k \in 1..Len(h) : a[k] = h[k]
      /\ Only(a, Len(h), {"blank", "m1", "m2", "name"})
      /\ Opens(a, Len(h) + 1)
  BY <1>2, PartForm
<1> HIDE DEF a
<1>4. /\ q \in Seq(Tokens) /\ Len(q) = n + Size + 5
      /\ \A k \in 1..n : q[k] = a[k]
      /\ \A k \in 1..Size : q[n + k] = Payload[k]
      /\ q[n + Size + 1] = "nl" /\ q[n + Size + 2] = "m1" /\ q[n + Size + 3] = "m2"
      /\ q[n + Size + 4] = "dashes" /\ q[n + Size + 5] = "nl"
  BY <1>3, FileForm
<1> HIDE DEF q
<1>5. n \in Nat /\ Len(h) \in Nat \ {0} /\ n >= b /\ b \in 1..n /\ Size \in Nat
  <2>1. Len(a) \in Nat
    BY <1>3, LenProperties
  <2> QED
    BY <1>2, <1>3, <2>1, Kinds
<1>6. ASSUME NEW k \in 1..n
      PROVE  /\ q[k] \in Items \ {"dashes"} /\ (q[k] = "post" <=> k = 1)
             /\ k < b => q[k] # "blank"
             /\ k = b => q[k] = "blank"
  <2>1. q[k] = a[k] /\ k \in 1..Len(a)
    BY <1>4
  <2>2. CASE k <= Len(h)
    <3>1. k \in 1..Len(h) /\ q[k] = h[k] /\ k # b
      BY <1>3, <1>5, <2>1, <2>2
    <3>2. k # 1 => q[k] \in {"name", "type", "hdr"}
      BY <1>2, <1>5, <3>1 DEF Only
    <3>3. k = 1 => q[k] = "post"
      BY <1>2, <3>1
    <3> QED
      BY <3>1, <3>2, <3>3 DEF Items
  <2>3. CASE ~(k <= Len(h))
    <3>1. k > Len(h) /\ k # 1 /\ ~(k < b)
      BY <1>5, <2>3
    <3>2. q[k] \in {"blank", "m1", "m2", "name"}
      BY <1>3, <2>1, <3>1 DEF Only
    <3>3. k = b => q[k] = "blank"
      BY <1>3, <2>1
    <3> QED
      BY <3>1, <3>2, <3>3 DEF Items
  <2> QED
    BY <2>2, <2>3
<1>13. Front(q, b, n)
  <2>1. PICK o \in Openings :
          Len(a) = Len(h) + 1 + Len(o) /\ \A k \in 1..Len(o) : a[Len(h) + 1 + k] = o[k]
    BY <1>3 DEF Opens
  <2>2. Len(o) \in Nat
    BY <2>1, OpeningsAre
  <2>3. ASSUME NEW k \in 1..Len(q), k \in (b + 1)..n PROVE q[k] = o[k - b]
    <3>1. k \in 1..n /\ k - b \in 1..Len(o) /\ Len(h) + 1 + (k - b) = k
      BY <1>4, <1>5, <2>1, <2>2, <2>3
    <3>2. q[k] = a[k] /\ a[Len(h) + 1 + (k - b)] = o[k - b]
      BY <1>4, <2>1, <3>1
    <3> QED
      BY <3>1, <3>2
  <2>4. Len(o) = n - b
    BY <1>5, <2>1, <2>2
  <2> QED
    BY <2>3, <2>4 DEF Front
<1> HIDE DEF n, b
<1>7. ASSUME NEW k \in 1..Len(q), k > n, k <= n + Size
      PROVE  q[k] = Payload[k - n] /\ q[k] \notin Items
  <2>1. k - n \in 1..Size /\ n + (k - n) = k
    BY <1>4, <1>5, <1>7
  <2>2. q[n + (k - n)] = Payload[k - n]
    BY <1>4, <2>1
  <2> QED
    BY <2>1, <2>2, Kinds
<1>8. ASSUME NEW k \in 1..Len(q), k > n + Size
      PROVE  k \in {n + Size + 1, n + Size + 2, n + Size + 3, n + Size + 4, n + Size + 5}
  BY <1>4, <1>5, <1>8
<1>9. Form(q, n)
  <2> SUFFICES ASSUME NEW k \in 1..Len(q)
               PROVE  /\ k <= n => q[k] \in Items \ {"dashes"}
                      /\ k \in (n + 1)..(n + Size) => q[k] = Payload[k - n]
                      /\ k = n + Size + 1 => q[k] = "nl"
                      /\ k > n + Size + 1 => q[k] \in {"m1", "m2", "dashes", "nl"}
                      /\ k > n + Size + 1 /\ q[k] = "m1" => k = n + Size + 2
                      /\ q[k] = "dashes" => k \in {n + Size + 2, n + Size + 4}
    BY DEF Form
  <2>1. CASE k <= n
    <3>1. k \in 1..n
      BY <1>5, <2>1
    <3>2. ~(k > n + Size + 1) /\ k # n + Size + 1 /\ k \notin (n + 1)..(n + Size)
      BY <1>5, <2>1
    <3> QED
      BY <1>6, <3>1, <3>2
  <2>2. CASE k > n /\ k <= n + Size
    <3>1. ~(k <= n) /\ ~(k > n + Size + 1) /\ k # n + Size + 1
      BY <1>5, <2>2
    <3>2. q[k] = Payload[k - n] /\ q[k] # "dashes"
      BY <1>7, <2>2 DEF Items
    <3> QED
      BY <3>1, <3>2
  <2>3. CASE k > n + Size
    <3>1. ~(k <= n) /\ k \notin (n + 1)..(n + Size)
      BY <1>5, <2>3
    <3>2. k \in {n + Size + 1, n + Size + 2, n + Size + 3, n + Size + 4, n + Size + 5}
      BY <1>8, <2>3
    <3> QED
      BY <1>4, <1>5, <3>1, <3>2
  <2> QED
    BY <1>4, <1>5, <2>1, <2>2, <2>3
<1>10. Starts(q, b)
  <2> SUFFICES ASSUME NEW k \in 1..Len(q)
               PROVE  /\ q[k] = "post" <=> k = 1
                      /\ k < b => q[k] # "blank"
                      /\ k = b => q[k] = "blank"
    BY DEF Starts
  <2>1. CASE k <= n
    <3>1. k \in 1..n
      BY <1>5, <2>1
    <3> QED
      BY <1>6, <3>1
  <2>2. CASE k > n
    <3>1. k # 1 /\ k # b /\ ~(k < b)
      BY <1>5, <2>2
    <3>2. CASE k <= n + Size
      <4>1. q[k] # "post"
        BY <1>7, <2>2, <3>2 DEF Items
      <4> QED
        BY <3>1, <4>1
    <3>3. CASE k > n + Size
      <4>1. q[k] # "post"
        BY <1>4, <1>8, <3>3
      <4> QED
        BY <3>1, <4>1
    <3> QED
      BY <1>4, <1>5, <3>2, <3>3
  <2> QED
    BY <1>4, <1>5, <2>1, <2>2
<1>11. Long(q, n)
  BY <1>4, <1>5 DEF Long
<1>12. Fresh(q)
  BY <1>5, <1>9, <1>10, <1>11, <1>13 DEF Fresh
<1> QED
  BY <1>1, <1>12

LEMMA InitHolds == Init => UploadInv
<1> SUFFICES ASSUME Init PROVE UploadInv
  OBVIOUS
<1>1. TypeOK
  BY InitTyped
<1>2. PICK naming \in Naming : rest = Request(naming)
  BY DEF Init
<1>3. /\ net = <<>> /\ upload_state = "NOT" /\ upload_buffer = <<>> /\ place = "idle"
      /\ answer = "none"
  BY DEF Init
<1>4. Unread = Request(naming)
  <2>1. Unread = <<>> \o rest
    BY <1>3 DEF Unread
  <2>2. rest \in Seq(Tokens)
    BY <1>1 DEF TypeOK
  <2> QED
    BY <1>2, <2>1, <2>2, Joined
<1>5. Fresh(Unread)
  BY <1>4, RequestFresh
<1> QED
  BY <1>1, <1>3, <1>5 DEF UploadInv, Scanned, Once, InHeaders, InContent, Stored

(***************************************************************************)
(* The theorems.                                                           *)
(***************************************************************************)
LEMMA Invariant == Spec => []UploadInv
BY InitHolds, StepKeeps, PTL DEF Spec

LEMMA BodyIntact == ASSUME TypeOK, ~fin, Body(InOrder) PROVE Intact
<1>1. PICK a \in Nat : Form(InOrder, a) /\ Long(InOrder, a)
  BY DEF Body
<1>2. InOrder \in Seq(Tokens) /\ Len(InOrder) \in Nat /\ Size \in Nat /\ Size = Len(Payload)
  BY Ordered, LenProperties, Kinds DEF Size
<1>3. Len(InOrder) > a + Size
  BY <1>1 DEF Long
<1>4. a \in 0..Len(InOrder) /\ a + Size <= Len(InOrder)
  BY <1>2, <1>3
<1>5. ASSUME NEW k \in 1..Len(InOrder)
      PROVE  IF k \in (a + 1)..(a + Size) THEN InOrder[k] = Payload[k - a]
             ELSE InOrder[k] \notin Data
  <2>1. CASE k \in (a + 1)..(a + Size)
    BY <1>1, <2>1 DEF Form
  <2>2. CASE k \notin (a + 1)..(a + Size)
    <3>1. k <= a \/ k = a + Size + 1 \/ k > a + Size + 1
      BY <1>2, <2>2
    <3>2. InOrder[k] \in Items
      BY <1>1, <3>1 DEF Form, Items
    <3> QED
      BY <2>2, <3>2, Kinds
  <2> QED
    BY <2>1, <2>2
<1> QED
  BY <1>2, <1>4, <1>5 DEF Intact

\* In every reachable state, for every file, number of headers, size of the buffers and width
\* of size_t, and however the network cuts the request: while one event handles the upload no
\* byte of the file is lost, doubled or moved (main's upload branch, process_upload_data).
THEOREM ConservedCorrect == Spec => []Conserved
<1>1. UploadInv => Conserved
  <2> SUFFICES ASSUME UploadInv, up, ~fin, uploading, upload_state = "CONTENT", ~file.bad
               PROVE  Intact
    BY DEF Conserved
  <2>1. Body(InOrder)
    BY DEF UploadInv, InContent
  <2> QED
    BY <2>1, BodyIntact DEF UploadInv
<1> QED
  BY <1>1, Invariant, PTL

\* In every reachable state, for the same constants: of an upload that is acknowledged the part
\* is stored as it came, the marker that opens it (or not), its headers, the file's bytes and
\* the line end before the closing marker, and nothing else (process_upload_data,
\* prepareUploadResponse), unless the stream failed.
THEOREM StoredCorrect == Spec => []StoredPart
<1>1. UploadInv => StoredPart
  <2>1. CASE answer = "stored"
    BY <2>1 DEF UploadInv, Stored
  <2>2. CASE answer # "stored"
    BY <2>2 DEF StoredPart
  <2> QED
    BY <2>1, <2>2
<1> QED
  BY <1>1, Invariant, PTL

=============================================================================
