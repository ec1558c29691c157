--------------------------- MODULE CompressProofs ---------------------------
(***************************************************************************)
(* Theorems about Compress, for pages of every size, whatever zlib's bound *)
(* adds and the format needs, any number of changes and crashes.           *)
(***************************************************************************)
EXTENDS Compress, TLAPS, SequenceTheorems

(***************************************************************************)
(* The inductive invariant.                                                *)
(***************************************************************************)
Streams == [total : Nat, next : Nat, avail : Nat, len : Nat]

FilesTyped ==
  /\ page \in [v : 0..MaxEdits, len : 0..MaxPage]
  /\ copy \in Copies \cup {NONE} /\ answer \in Copies \cup {NONE}
  /\ copy # NONE => Len(copy.bytes) <= MaxPage + Extra

LoopTyped ==
  /\ up \in BOOLEAN /\ place \in Places /\ input \in Inputs
  /\ failed \in BOOLEAN /\ spoilt \in BOOLEAN /\ crashes \in 0..MaxCrashes

\* What deflate has put out is in the vector, in order, and its room is the vector's end.
Filled ==
  /\ strm \in Streams /\ output \in Seq(Nat)
  /\ strm.next + strm.avail = Len(output) + 1
  /\ strm.total < strm.next /\ strm.total <= strm.len /\ strm.len <= MaxPage + Extra
  /\ \A i \in 1..strm.total : output[i] = i

\* Pages of one version are of one size: what was read is cut short only if the page changed.
InputOf ==
  /\ place = "read" => /\ input.sized <= page.v
                       /\ input.sized = page.v => input.len = page.len
  /\ place \in {"deflate", "create", "write"} => (input.sized = input.v => input.len = input.of)

\* deflate is called once: its room is never used up when the loop's condition is looked at.
Once ==
  /\ place = "deflate" => /\ strm.total = 0 /\ strm.next = 1
                          /\ strm.avail = compressBound(input.len)
  /\ place \in {"create", "write"} => strm.total = strm.len

\* No copy is made while there is one, and none has been answered while one is made.
OneCopy ==
  /\ place \in {"open", "read", "deflate", "create"} => copy = NONE
  /\ place = "write" => copy # NONE /\ copy.of = input /\ copy.len = strm.len
  /\ answer # NONE => copy = answer /\ place = "idle"

Made == copy # NONE => place = "write" \/ Whole(copy) \/ spoilt \/ copy.of.sized # copy.of.v

CopyInv == FilesTyped /\ LoopTyped /\ Filled /\ InputOf /\ Once /\ OneCopy /\ Made /\ Fits
LEMMA ConstantsTyped ==
  /\ MaxPage \in Nat /\ Margin \in Nat \ {0} /\ Extra \in Nat \ {0}
  /\ MaxEdits \in Nat /\ MaxCrashes \in Nat /\ NONE \notin Copies
BY CompressAssumption

LEMMA InitInv == Init => CopyInv
<1> SUFFICES ASSUME Init PROVE CopyInv
  OBVIOUS
<1>1. FilesTyped /\ LoopTyped
  <2>1. PICK n \in 0..MaxPage : page = [v |-> 0, len |-> n]
    BY DEF Init
  <2>2. page \in [v : 0..MaxEdits, len : 0..MaxPage] /\ NoInput \in Inputs
    BY <2>1, ConstantsTyped DEF NoInput, Inputs
  <2>3. FilesTyped
    BY <2>2 DEF Init, FilesTyped
  <2>4. LoopTyped
    <3>1. up \in BOOLEAN /\ failed \in BOOLEAN /\ spoilt \in BOOLEAN
      BY DEF Init
    <3>2. place \in Places /\ input \in Inputs /\ crashes \in 0..MaxCrashes
      BY <2>2, ConstantsTyped DEF Init, Places
    <3> QED
      BY <3>1, <3>2 DEF LoopTyped
  <2> QED
    BY <2>3, <2>4
<1>2. Filled
  BY ConstantsTyped, EmptySeq DEF Init, Filled, Streams, NoStream
<1> QED
  BY <1>1, <1>2 DEF Init, CopyInv, InputOf, Once, OneCopy, Made, Fits

(***************************************************************************)
(* The steps.                                                              *)
(***************************************************************************)
\* Whatever a step does to place, page and the histories, it leaves the vector alone.
LEMMA FilledKept == ASSUME Filled, UNCHANGED <<strm, output>> PROVE Filled'
BY DEF Filled, Streams

LEMMA AskStep == ASSUME CopyInv, Ask PROVE CopyInv'
<1>1. Filled'
  BY FilledKept DEF CopyInv, Ask, workVars
<1>2. FilesTyped' /\ LoopTyped'
  BY DEF Ask, At, Go, workVars, CopyInv, FilesTyped, LoopTyped, Places
<1>3. InputOf' /\ Once' /\ OneCopy' /\ Fits'
  BY DEF Ask, At, Go, Exists, workVars, CopyInv, InputOf, Once, OneCopy, Fits
<1>4. Made'
  <2>1. copy' = copy /\ (Exists => spoilt' = spoilt) /\ place = "idle"
    BY DEF Ask, At
  <2>2. CASE Exists
    BY <2>1, <2>2 DEF CopyInv, Made
  <2>3. CASE ~Exists
    BY <2>1, <2>3 DEF Exists, Made
  <2> QED
    BY <2>2, <2>3
<1> QED
  BY <1>1, <1>2, <1>3, <1>4 DEF CopyInv

LEMMA FailStep == ASSUME CopyInv, OpenFails \/ ReadFails \/ CreateFails PROVE CopyInv'
<1>1. /\ UNCHANGED <<page, up, crashes, copy, workVars, answer, spoilt>>
      /\ place' = "stat" /\ failed' = TRUE /\ place \in {"open", "read", "create"}
  BY DEF OpenFails, ReadFails, CreateFails, Fails, Go, At
<1>2. Filled'
  BY <1>1, FilledKept DEF CopyInv, workVars
<1>3. FilesTyped' /\ LoopTyped'
  BY <1>1 DEF workVars, CopyInv, FilesTyped, LoopTyped, Places
<1>4. InputOf' /\ Once' /\ OneCopy' /\ Fits' /\ Made'
  BY <1>1 DEF workVars, CopyInv, InputOf, Once, OneCopy, Fits, Made
<1> QED
  BY <1>2, <1>3, <1>4 DEF CopyInv

LEMMA OpenStep == ASSUME CopyInv, Open PROVE CopyInv'
<1>1. Filled'
  BY FilledKept DEF CopyInv, Open
<1>2. input' = [sized |-> page.v, v |-> 0, len |-> page.len, of |-> 0]
  BY DEF Open, NoInput
<1>3. page.v \in 0..MaxEdits /\ page.len \in 0..MaxPage
  BY DEF CopyInv, FilesTyped
<1>4. input' \in Inputs
  BY <1>2, <1>3, ConstantsTyped DEF Inputs
<1>5. FilesTyped' /\ LoopTyped'
  BY <1>4 DEF Open, At, Go, CopyInv, FilesTyped, LoopTyped, Places
<1>6. InputOf' /\ Once' /\ OneCopy' /\ Fits' /\ Made'
  BY <1>2, <1>3 DEF Open, At, Go, CopyInv, InputOf, Once, OneCopy, Fits, Made
<1> QED
  BY <1>1, <1>5, <1>6 DEF CopyInv

LEMMA ReadStep == ASSUME CopyInv, Read PROVE CopyInv'
<1> DEFINE room == compressBound(input.len)
<1>1. /\ page.v \in 0..MaxEdits /\ page.len \in 0..MaxPage /\ input \in Inputs
      /\ room \in Nat /\ input.len \in 0..MaxPage
  BY ConstantsTyped DEF CopyInv, FilesTyped, LoopTyped, Inputs, compressBound
<1>2. /\ input' = [input EXCEPT !.v = page.v, !.of = page.len]
      /\ output' = [i \in 1..room |-> 0]
      /\ At("read") /\ Go("deflate")
      /\ UNCHANGED <<copy, answer, failed, spoilt>>
  BY DEF Read
<1>3. PICK n \in 1..(input.len + Extra) : strm' = [total |-> 0, next |-> 1, avail |-> room, len |-> n]
  BY DEF Read
<1> HIDE DEF room
<1>4. /\ input' \in Inputs /\ input'.v = page.v /\ input'.of = page.len
      /\ input'.sized = input.sized /\ input'.len = input.len
  BY <1>1, <1>2 DEF Inputs
<1>5. Filled'
  <2>1. output' \in Seq(Nat) /\ Len(output') = room
    BY <1>1, <1>2
  <2> QED
    BY <1>1, <1>3, <2>1, ConstantsTyped DEF Filled, Streams
<1>6. FilesTyped' /\ LoopTyped'
  BY <1>2, <1>4 DEF At, Go, CopyInv, FilesTyped, LoopTyped, Places
<1>7. InputOf' /\ OneCopy' /\ Fits' /\ Made'
  BY <1>2, <1>4 DEF At, Go, CopyInv, InputOf, OneCopy, Fits, Made
<1>8. Once'
  <2>1. room = compressBound(input'.len)
    BY <1>4 DEF room
  <2> QED
    BY <1>2, <1>3, <2>1 DEF At, Go, Once
<1> QED
  BY <1>5, <1>6, <1>7, <1>8 DEF CopyInv

\* Before the loop the vector is empty, and all of it is room.
LEMMA AtDeflate ==
  ASSUME CopyInv, place = "deflate"
  PROVE  /\ strm.total = 0 /\ strm.next = 1 /\ strm.avail = compressBound(input.len)
         /\ strm.avail \in Nat \ {0} /\ strm.len \in Nat /\ strm \in Streams
         /\ output \in Seq(Nat) /\ Len(output) = strm.avail /\ strm.len <= MaxPage + Extra
<1>1. /\ strm.total = 0 /\ strm.next = 1 /\ strm.avail = compressBound(input.len)
      /\ strm \in Streams /\ output \in Seq(Nat) /\ strm.len <= MaxPage + Extra
      /\ strm.next + strm.avail = Len(output) + 1
  BY DEF CopyInv, Once, Filled
<1>2. input.len \in Nat
  BY ConstantsTyped DEF CopyInv, LoopTyped, Inputs
<1>3. strm.avail \in Nat \ {0}
  BY <1>1, <1>2, ConstantsTyped DEF compressBound
<1>4. Len(output) \in Nat /\ strm.len \in Nat
  BY <1>1, LenProperties DEF Streams
<1>5. Len(output) = strm.avail
  BY <1>1, <1>3, <1>4
<1> QED
  BY <1>1, <1>3, <1>4, <1>5

\* The only round of the loop: the stream fits the vector, or fills it and is given up.
LEMMA DeflateStep == ASSUME CopyInv, Deflate PROVE CopyInv'
<1> DEFINE left == strm.len - strm.total
           k == IF left < strm.avail THEN left ELSE strm.avail
           y == [strm EXCEPT !.total = @ + k, !.next = @ + k, !.avail = @ - k]
           ret == Returned(strm, y)
           grows == ret = "buf_error" \/ y.avail = 0
           z == IF grows THEN Grown(y, Len(output)) ELSE y
           filled == [i \in DOMAIN output |-> IF i \in strm.next..(y.next - 1)
                                              THEN strm.total + i - strm.next + 1 ELSE output[i]]
           more == [i \in 1..(IF grows THEN Len(output) ELSE 0) |-> 0]
<1>1. /\ At("deflate") /\ strm' = z /\ output' = filled \o more
      /\ Go(IF Again(ret, z.avail) THEN "deflate" ELSE Verdict(ret))
      /\ UNCHANGED <<copy, input, answer, failed, spoilt>>
  BY DEF Deflate
<1>2. /\ strm.total = 0 /\ strm.next = 1 /\ strm.avail = compressBound(input.len)
      /\ strm.avail \in Nat \ {0} /\ strm.len \in Nat /\ strm \in Streams
      /\ output \in Seq(Nat) /\ Len(output) = strm.avail /\ strm.len <= MaxPage + Extra
  <2>1. place = "deflate"
    BY <1>1 DEF At
  <2> QED
    BY <2>1, AtDeflate
<1>3. /\ k \in Nat /\ k <= strm.len /\ k <= strm.avail
      /\ y = [total |-> k, next |-> k + 1, avail |-> strm.avail - k, len |-> strm.len]
      /\ k # strm.len => k = strm.avail
      /\ k = strm.len <=> strm.len <= strm.avail
  <2>1. left = strm.len
    BY <1>2
  <2>2. /\ k \in Nat /\ k <= strm.len /\ k <= strm.avail
        /\ k # strm.len => k = strm.avail
        /\ k = strm.len <=> strm.len <= strm.avail
    BY <1>2, <2>1
  <2> HIDE DEF k
  <2>3. y = [total |-> k, next |-> k + 1, avail |-> strm.avail - k, len |-> strm.len]
    <3>1. y = [strm EXCEPT !.total = 0 + k, !.next = 1 + k, !.avail = strm.avail - k]
      BY <1>2 DEF y
    <3>2. 0 + k = k /\ 1 + k = k + 1
      BY <2>2
    <3> HIDE DEF y
    <3> QED
      BY <1>2, <3>1, <3>2 DEF Streams
  <2> QED
    BY <2>2, <2>3
<1> HIDE DEF k, y
<1>4. ret = IF k = strm.len THEN "stream_end" ELSE "ok"
  BY <1>2, <1>3 DEF Returned
<1>5. grows <=> k = strm.avail
  BY <1>2, <1>3, <1>4
<1>6. z = [total |-> k, next |-> k + 1, len |-> strm.len,
           avail |-> IF k = strm.avail THEN strm.avail ELSE strm.avail - k]
  BY <1>2, <1>3, <1>5 DEF Grown
<1>7. place' = IF k = strm.len THEN "create" ELSE "stat"
  BY <1>1, <1>2, <1>3, <1>4, <1>6 DEF Go, Again, Verdict
<1>8. Filled'
  <2>1. /\ filled \in Seq(Nat) /\ Len(filled) = strm.avail
        /\ \A i \in 1..k : filled[i] = i
    <3>1. filled = [i \in 1..strm.avail |-> IF i \in 1..k THEN i ELSE output[i]]
      BY <1>2, <1>3
    <3>2. \A i \in 1..strm.avail : output[i] \in Nat
      BY <1>2
    <3>3. \A i \in 1..strm.avail : filled[i] = (IF i \in 1..k THEN i ELSE output[i])
      BY <3>1
    <3>4. \A i \in 1..strm.avail : filled[i] \in Nat
      BY <3>2, <3>3
    <3>5. filled \in [1..strm.avail -> Nat] /\ strm.avail \in Nat
      BY <1>2, <3>1, <3>4
    <3> HIDE DEF filled
    <3>6. filled \in Seq(Nat) /\ Len(filled) = strm.avail
      BY <3>5
    <3>7. 1..k \subseteq 1..strm.avail
      BY <1>2, <1>3
    <3> QED
      BY <3>3, <3>6, <3>7
  <2>2. /\ more \in Seq(Nat) /\ Len(more) = IF k = strm.avail THEN strm.avail ELSE 0
    BY <1>2, <1>5
  <2> HIDE DEF filled, more
  <2>3. /\ output' \in Seq(Nat) /\ Len(output') = Len(filled) + Len(more)
        /\ \A i \in 1..k : output'[i] = i
    <3>1. /\ filled \o more \in Seq(Nat) /\ Len(filled \o more) = Len(filled) + Len(more)
          /\ \A i \in 1..(Len(filled) + Len(more)) :
               (filled \o more)[i] = IF i <= Len(filled) THEN filled[i] ELSE more[i - Len(filled)]
      BY <2>1, <2>2, ConcatProperties
    <3>2. \A i \in 1..k : i \in 1..(Len(filled) + Len(more)) /\ i <= Len(filled)
      BY <1>2, <1>3, <2>1, <2>2
    <3> QED
      BY <1>1, <2>1, <3>1, <3>2
  <2> HIDE DEF z
  <2>4. /\ strm' \in Streams /\ strm'.total = k /\ strm'.next = k + 1 /\ strm'.len = strm.len
        /\ strm'.avail = IF k = strm.avail THEN strm.avail ELSE strm.avail - k
    BY <1>1, <1>2, <1>3, <1>6 DEF Streams
  <2>5. Len(output') = IF k = strm.avail THEN strm.avail + strm.avail ELSE strm.avail
    BY <1>2, <2>1, <2>2, <2>3
  <2>6. strm'.next + strm'.avail = Len(output') + 1
    <3>1. CASE k = strm.avail
      BY <1>2, <2>4, <2>5, <3>1
    <3>2. CASE k # strm.avail
      BY <1>2, <1>3, <2>4, <2>5, <3>2
    <3> QED
      BY <3>1, <3>2
  <2> QED
    BY <1>2, <1>3, <2>3, <2>4, <2>6 DEF Filled
<1>9. FilesTyped' /\ LoopTyped'
  BY <1>1, <1>7 DEF At, Go, CopyInv, FilesTyped, LoopTyped, Places
<1>10. InputOf' /\ OneCopy' /\ Made'
  BY <1>1, <1>7 DEF At, Go, CopyInv, InputOf, OneCopy, Made
<1>11. Once' /\ Fits'
  <2>1. strm'.len = strm.len /\ strm'.total = k /\ input' = input
    BY <1>1, <1>6
  <2> QED
    BY <1>2, <1>3, <1>7, <2>1 DEF Once, Fits
<1> QED
  BY <1>8, <1>9, <1>10, <1>11 DEF CopyInv
LEMMA CreateStep == ASSUME CopyInv, Create PROVE CopyInv'
<1>1. /\ copy' = [of |-> input, len |-> strm.len, bytes |-> <<>>]
      /\ At("create") /\ Go("write") /\ UNCHANGED <<workVars, answer, failed, spoilt>>
  BY DEF Create
<1>2. copy' \in Copies /\ Len(copy'.bytes) = 0
  <2>1. input \in Inputs /\ strm.len \in Nat /\ <<>> \in Seq(Nat) /\ Len(<<>>) = 0
    BY EmptySeq DEF CopyInv, LoopTyped, Filled, Streams
  <2> QED
    BY <1>1, <2>1 DEF Copies
<1>3. Filled'
  BY <1>1, FilledKept DEF CopyInv, workVars
<1>4. FilesTyped' /\ LoopTyped'
  BY <1>1, <1>2, ConstantsTyped DEF At, Go, workVars, CopyInv, FilesTyped, LoopTyped, Places
<1>5. InputOf' /\ Once' /\ OneCopy' /\ Fits' /\ Made'
  BY <1>1, <1>2, ConstantsTyped
     DEF At, Go, workVars, CopyInv, InputOf, Once, OneCopy, Fits, Made
<1> QED
  BY <1>3, <1>4, <1>5 DEF CopyInv

LEMMA WriteStep == ASSUME CopyInv, Write PROVE CopyInv'
<1>1. At("write") /\ UNCHANGED <<workVars, answer, failed, spoilt>>
  BY DEF Write
<1>2. PICK n \in Len(copy.bytes)..strm.total :
        /\ copy' = [copy EXCEPT !.bytes = SubSeq(output, 1, n)]
        /\ Go(IF n = strm.total THEN "stat" ELSE "write")
  BY DEF Write
<1>3. /\ copy \in Copies /\ Len(copy.bytes) \in Nat /\ copy.of = input /\ copy.len = strm.len
      /\ strm.total = strm.len /\ strm.total \in Nat /\ strm.len <= MaxPage + Extra
      /\ input \in Inputs
      /\ input.sized = input.v => input.len = input.of
  BY <1>1, LenProperties
     DEF At, CopyInv, LoopTyped, FilesTyped, OneCopy, Once, InputOf, Filled, Streams, Copies
<1>4. n \in Nat /\ n <= strm.total
  BY <1>2, <1>3
<1>5. /\ SubSeq(output, 1, n) \in Seq(Nat) /\ Len(SubSeq(output, 1, n)) = n
      /\ SubSeq(output, 1, n) = [i \in 1..n |-> i]
  <2>1. \A i \in 1..n : output[i] = i /\ output[i] \in Nat
    BY <1>3, <1>4 DEF CopyInv, Filled
  <2>2. /\ SubSeq(output, 1, n) \in Seq(Nat)
        /\ Len(SubSeq(output, 1, n)) = IF 1 <= n THEN n - 1 + 1 ELSE 0
        /\ \A i \in 1..(n - 1 + 1) : SubSeq(output, 1, n)[i] = output[1 + i - 1]
    BY <1>4, <2>1, SubSeqProperties
  <2>3. /\ Len(SubSeq(output, 1, n)) = n
        /\ \A i \in 1..n : SubSeq(output, 1, n)[i] = i
    BY <1>4, <2>1, <2>2
  <2> QED
    BY <1>4, <2>2, <2>3
<1>6. /\ copy' \in Copies /\ copy'.bytes = SubSeq(output, 1, n)
      /\ copy'.of = input /\ copy'.len = strm.len
  BY <1>2, <1>3, <1>5 DEF Copies
<1>7. Len(copy'.bytes) <= MaxPage + Extra
  BY <1>3, <1>4, <1>5, <1>6, ConstantsTyped
<1>8. Filled'
  BY <1>1, FilledKept DEF CopyInv, workVars
<1>9. FilesTyped' /\ LoopTyped'
  BY <1>1, <1>2, <1>6, <1>7 DEF At, Go, workVars, CopyInv, FilesTyped, LoopTyped, Places
<1>10. InputOf' /\ Once' /\ OneCopy' /\ Fits'
  BY <1>1, <1>2, <1>6, ConstantsTyped
     DEF At, Go, workVars, CopyInv, InputOf, Once, OneCopy, Fits
<1>11. Made'
  <2>1. CASE n = strm.total
    <3>1. copy'.bytes = [i \in 1..copy'.len |-> i]
      BY <1>3, <1>5, <1>6, <2>1
    <3>2. input.sized = input.v => Whole(copy')
      <4>1. input.sized = input.v => copy'.of.len = copy'.of.of
        BY <1>3, <1>6
      <4> QED
        BY <3>1, <4>1 DEF Whole
    <3> QED
      BY <1>6, <3>2 DEF Made
  <2>2. CASE n # strm.total
    BY <1>2, <2>2 DEF Go, Made
  <2> QED
    BY <2>1, <2>2
<1> QED
  BY <1>8, <1>9, <1>10, <1>11 DEF CopyInv

LEMMA WriteFailsStep == ASSUME CopyInv, WriteFails PROVE CopyInv'
<1>1. Filled'
  BY FilledKept DEF WriteFails, CopyInv, workVars
<1>2. FilesTyped' /\ LoopTyped'
  BY DEF WriteFails, At, Go, workVars, CopyInv, FilesTyped, LoopTyped, Places
<1>3. InputOf' /\ Once' /\ OneCopy' /\ Fits' /\ Made'
  BY DEF WriteFails, At, Go, workVars, CopyInv, InputOf, Once, OneCopy, Fits, Made
<1> QED
  BY <1>1, <1>2, <1>3 DEF CopyInv

\* The locals of gzipCompressFile are gone: there is no vector, and nothing in it.
LEMMA FilledEmpty == ASSUME strm' = NoStream, output' = <<>> PROVE Filled'
BY ConstantsTyped, EmptySeq DEF Filled, NoStream, Streams

LEMMA NoInputTyped == NoInput \in Inputs
BY ConstantsTyped DEF NoInput, Inputs

LEMMA StatStep == ASSUME CopyInv, Stat PROVE CopyInv'
<1>1. Filled'
  BY FilledEmpty DEF Stat
<1>2. FilesTyped' /\ LoopTyped'
  BY NoInputTyped DEF Stat, At, Go, CopyInv, FilesTyped, LoopTyped, Places
<1>3. InputOf' /\ Once' /\ OneCopy' /\ Fits' /\ Made'
  BY DEF Stat, At, Go, CopyInv, InputOf, Once, OneCopy, Fits, Made
<1> QED
  BY <1>1, <1>2, <1>3 DEF CopyInv

LEMMA EditStep == ASSUME CopyInv, Edit PROVE CopyInv'
<1>1. PICK n \in 0..MaxPage : page' = [v |-> page.v + 1, len |-> n]
  BY DEF Edit
<1>2. page.v \in 0..MaxEdits /\ page.v < MaxEdits
  BY DEF Edit, CopyInv, FilesTyped
<1>3. page' \in [v : 0..MaxEdits, len : 0..MaxPage] /\ page'.v = page.v + 1
  BY <1>1, <1>2, ConstantsTyped
<1>4. Filled'
  BY FilledKept DEF Edit, CopyInv, workVars
<1>5. FilesTyped' /\ LoopTyped'
  BY <1>3 DEF Edit, workVars, CopyInv, FilesTyped, LoopTyped
<1>6. InputOf'
  <2>1. input.sized \in Int
    BY ConstantsTyped DEF CopyInv, LoopTyped, Inputs
  <2> QED
    BY <1>2, <1>3, <2>1 DEF Edit, workVars, CopyInv, InputOf
<1>7. Once' /\ OneCopy' /\ Fits' /\ Made'
  BY DEF Edit, workVars, CopyInv, Once, OneCopy, Fits, Made
<1> QED
  BY <1>4, <1>5, <1>6, <1>7 DEF CopyInv

LEMMA EndStep == ASSUME CopyInv, Crash \/ Restart PROVE CopyInv'
<1>1. CASE Crash
  <2>1. Filled'
    BY <1>1, FilledEmpty DEF Crash
  <2>2. FilesTyped' /\ LoopTyped'
    <3>1. FilesTyped'
      BY <1>1 DEF Crash, CopyInv, FilesTyped
    <3>2. spoilt' \in BOOLEAN
      BY <1>1 DEF Crash
    <3>3. up' \in BOOLEAN /\ failed' \in BOOLEAN
      BY <1>1 DEF Crash, CopyInv, LoopTyped
    <3>4. place' \in Places /\ input' \in Inputs /\ crashes' \in 0..MaxCrashes
      BY <1>1, NoInputTyped, ConstantsTyped DEF Crash, CopyInv, LoopTyped, Places
    <3>5. LoopTyped'
      BY <3>2, <3>3, <3>4 DEF LoopTyped
    <3> QED
      BY <3>1, <3>5
  <2>3. InputOf' /\ Once' /\ OneCopy' /\ Fits' /\ Made'
    BY <1>1 DEF Crash, CopyInv, InputOf, Once, OneCopy, Fits, Made
  <2> QED
    BY <2>1, <2>2, <2>3 DEF CopyInv
<1>2. CASE Restart
  <2>1. Filled'
    BY <1>2, FilledKept DEF Restart, CopyInv, workVars
  <2>2. FilesTyped' /\ LoopTyped'
    BY <1>2 DEF Restart, workVars, CopyInv, FilesTyped, LoopTyped
  <2>3. InputOf' /\ Once' /\ OneCopy' /\ Fits' /\ Made'
    BY <1>2 DEF Restart, workVars, CopyInv, InputOf, Once, OneCopy, Fits, Made
  <2> QED
    BY <2>1, <2>2, <2>3 DEF CopyInv
<1> QED
  BY <1>1, <1>2

LEMMA StepInv == CopyInv /\ [Next]_vars => CopyInv'
<1> SUFFICES ASSUME CopyInv, [Next]_vars PROVE CopyInv'
  OBVIOUS
<1>1. CASE UNCHANGED vars
  <2>1. Filled'
    BY <1>1, FilledKept DEF vars, workVars, CopyInv
  <2>2. FilesTyped' /\ LoopTyped'
    BY <1>1 DEF vars, workVars, CopyInv, FilesTyped, LoopTyped
  <2>3. InputOf' /\ Once' /\ OneCopy' /\ Fits' /\ Made'
    BY <1>1 DEF vars, workVars, CopyInv, InputOf, Once, OneCopy, Fits, Made
  <2> QED
    BY <2>1, <2>2, <2>3 DEF CopyInv
<1> QED
  BY <1>1, AskStep, FailStep, OpenStep, ReadStep, DeflateStep, CreateStep, WriteStep,
     WriteFailsStep, StatStep, EditStep, EndStep DEF Next, Working

LEMMA InvHolds == Spec => []CopyInv
BY InitInv, StepInv, PTL DEF Spec

(***************************************************************************)
(* The theorems.                                                           *)
(***************************************************************************)
\* Growing the vector loses or overruns no byte of the output, whatever the size of the page
\* and of its stream, and what is on disk is never longer than a stream can be
\* (gzipCompressFile's loop, http.cpp:218-229).
THEOREM TypeCorrect == Spec => []TypeOK
<1>1. CopyInv => TypeOK
  BY DEF CopyInv, FilesTyped, LoopTyped, Filled, Streams, TypeOK
<1> QED
  BY <1>1, InvHolds, PTL

\* A compressed page is the whole of one version of it, through any number of changes and
\* crashes, unless the copy could not be written, the process ended while it was, or the page
\* became longer between tellg and read (return_res, which looks at stat alone).
THEOREM AnswerCorrect == Spec => []AnswerWhole
<1>1. CopyInv => AnswerWhole
  BY DEF CopyInv, OneCopy, Made, AnswerWhole
<1> QED
  BY <1>1, InvHolds, PTL

\* A page whose stream is not longer than compressBound is compressed if nothing outside fails,
\* one that fills the buffer to its last byte too (http.cpp:218-236).
THEOREM FitsCorrect == Spec => []Fits
<1>1. CopyInv => Fits
  BY DEF CopyInv
<1> QED
  BY <1>1, InvHolds, PTL

\* A copy that was sent is never written again, so that a sendfile still at it sends what was
\* announced (http.cpp:561).
THEOREM SettledCorrect == Spec => Settled
<1>1. CopyInv /\ [Next]_vars => [answer # NONE => copy' = copy]_vars
  <2> SUFFICES ASSUME CopyInv, Next, answer # NONE PROVE copy' = copy
    BY DEF vars
  <2>1. At("idle") \/ ~up
    BY DEF CopyInv, OneCopy, LoopTyped, At
  <2>2. CASE Ask \/ Working
    BY <2>1, <2>2 DEF Ask, At, Working, Open, OpenFails, Read, ReadFails, Deflate, Create, CreateFails, Write,
                      WriteFails, Stat
  <2>3. CASE Edit \/ Crash \/ Restart
    BY <2>3 DEF Edit, Crash, Restart
  <2> QED
    BY <2>2, <2>3 DEF Next
<1> QED
  BY <1>1, InvHolds, PTL DEF Spec, Settled

=============================================================================
