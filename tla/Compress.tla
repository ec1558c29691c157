------------------------------ MODULE Compress ------------------------------
(***************************************************************************)
(* The compressed copy of a page: return_res looks for it, has             *)
(* gzipCompressFile make it if there is none, and looks again.  What       *)
(* zlib and the disk do is external.  A copy that is there is used,        *)
(* whatever became of the page since and however the making ended; Site    *)
(* takes this module's outcomes (whole, partial, none) as given.           *)
(***************************************************************************)
EXTENDS Naturals, Sequences, FiniteSets

CONSTANTS MaxPage,     \* bytes of the page at most
          Margin,      \* what compressBound adds to the size of the page
          Extra,       \* what the gzip format adds at most
          MaxEdits,    \* bound: how often the page is written anew
          MaxCrashes,  \* bound: how often the process ends
          Faults,      \* of "open", "init", "disk": what may fail
          NONE         \* no copy

Inputs == [sized : 0..MaxEdits, v : 0..MaxEdits, len : 0..MaxPage, of : 0..MaxPage]

\* The file of a copy: what it was made of, how long its stream is, what of it is there.
Copies == [of : Inputs, len : Nat, bytes : Seq(Nat)]

ASSUME CompressAssumption ==
  /\ {MaxPage, Margin, Extra, MaxEdits, MaxCrashes} \subseteq Nat
  /\ Margin # 0 /\ Extra # 0 /\ Faults \subseteq {"open", "init", "disk"}
  /\ NONE \notin Copies

VARIABLES
  page,     \* the page: its version and its size
  copy,     \* the file of its compressed copy
  up,       \* whether the process runs
  place,    \* where it is: idle, or before the call of that name
  input,    \* the bytes compressed: versions met by tellg and by read, and sizes
  strm,     \* total_out, the place of next_out, avail_out, the length of the whole stream
  output,   \* the vector: the place in the stream of each byte, or 0
  answer,   \* the copy the last answer was of, NONE if it was 404
  failed,   \* history: something outside failed since the page was asked for
  spoilt,   \* history: the copy could not be written, or the process ended meanwhile
  crashes   \* how often it has ended

workVars == <<input, strm, output>>
vars == <<page, copy, up, place, workVars, answer, failed, spoilt, crashes>>

Places == {"idle", "open", "read", "deflate", "create", "write", "stat"}

NoInput == [sized |-> 0, v |-> 0, len |-> 0, of |-> 0]
NoStream == [total |-> 0, next |-> 1, avail |-> 0, len |-> 0]

compressBound(n) == n + Margin

At(p) == up /\ place = p
Go(p) == place' = p /\ UNCHANGED <<page, up, crashes>>

\* Mutant of Exists: the copy is made anew whenever the page has changed.
ExistsNow == copy # NONE /\ copy.of.v = page.v

\* stat finds the copy.
Exists == copy # NONE

Ask ==
  /\ At("idle")
  /\ failed' = FALSE
  /\ \/ Exists /\ answer' = copy /\ Go("idle") /\ UNCHANGED spoilt
     \/ ~Exists /\ Go("open") /\ spoilt' = FALSE /\ UNCHANGED answer
  /\ UNCHANGED <<copy, workVars>>

\* A step of gzipCompressFile fails and it returns; what it returns is not looked at.
Fails == Go("stat") /\ UNCHANGED <<copy, workVars, answer, spoilt>>

Open ==
  /\ At("open")
  /\ input' = [NoInput EXCEPT !.sized = page.v, !.len = page.len]
  /\ Go("read")
  /\ UNCHANGED <<copy, strm, output, answer, failed, spoilt>>

OpenFails == At("open") /\ "open" \in Faults /\ failed' = TRUE /\ Fails

\* read takes as many bytes as the page had, and deflateInit2 succeeds.
Read ==
  /\ At("read") /\ page.len >= input.len
  /\ input' = [input EXCEPT !.v = page.v, !.of = page.len]
  /\ output' = [i \in 1..compressBound(input.len) |-> 0]
  /\ \E n \in 1..(input.len + Extra) :
       strm' = [total |-> 0, next |-> 1, avail |-> compressBound(input.len), len |-> n]
  /\ Go("deflate")
  /\ UNCHANGED <<copy, answer, failed, spoilt>>

\* The page has become shorter, or there is no memory.
ReadFails ==
  /\ At("read") /\ (page.len < input.len \/ "init" \in Faults)
  /\ failed' = TRUE
  /\ Fails

\* What deflate with Z_FINISH returns: Z_BUF_ERROR without room, Z_STREAM_END when all of
\* the stream is out, Z_OK otherwise.
Returned(x, y) ==
  IF x.avail = 0 THEN "buf_error" ELSE IF y.total = y.len THEN "stream_end" ELSE "ok"

\* Mutant of Grown: the room is the whole vector.
GrownWhole(y, size) == [y EXCEPT !.next = size + 1, !.avail = 2 * size]

\* resize: the output goes on behind the old end.
Grown(y, size) == [y EXCEPT !.next = size + 1, !.avail = size]

\* Mutant of Again: the loop goes on while there is room.
AgainRoom(ret, avail) == ret = "buf_error" \/ avail # 0

\* The condition of the loop.
Again(ret, avail) == ret = "buf_error" \/ (ret = "ok" /\ avail = 0)

\* Mutants of Verdict: what there is is taken for the stream; success is thought to be Z_OK.
VerdictAny(ret) == "create"
VerdictOk(ret) == IF ret = "ok" THEN "create" ELSE "stat"

Verdict(ret) == IF ret = "stream_end" THEN "create" ELSE "stat"

\* A round of the loop.  avail_out has grown again when the condition looks at it.
Deflate ==
  /\ At("deflate")
  /\ LET left == strm.len - strm.total
         k == IF left < strm.avail THEN left ELSE strm.avail
         y == [strm EXCEPT !.total = @ + k, !.next = @ + k, !.avail = @ - k]
         ret == Returned(strm, y)
         grows == ret = "buf_error" \/ y.avail = 0
         z == IF grows THEN Grown(y, Len(output)) ELSE y
         filled == [i \in DOMAIN output |-> IF i \in strm.next..(y.next - 1)
                                            THEN strm.total + i - strm.next + 1 ELSE output[i]]
     IN /\ strm' = z
        /\ output' = filled \o [i \in 1..(IF grows THEN Len(output) ELSE 0) |-> 0]
        /\ Go(IF Again(ret, z.avail) THEN "deflate" ELSE Verdict(ret))
  /\ UNCHANGED <<copy, input, answer, failed, spoilt>>

\* out_file is created, and is empty.
Create ==
  /\ At("create")
  /\ copy' = [of |-> input, len |-> strm.len, bytes |-> <<>>]
  /\ Go("write")
  /\ UNCHANGED <<workVars, answer, failed, spoilt>>

CreateFails == At("create") /\ "disk" \in Faults /\ failed' = TRUE /\ Fails

\* write and the close after it: the file grows to total_out bytes.
Write ==
  /\ At("write")
  /\ \E n \in Len(copy.bytes)..strm.total :
       /\ n = strm.total \/ n > Len(copy.bytes)
       /\ copy' = [copy EXCEPT !.bytes = SubSeq(output, 1, n)]
       /\ Go(IF n = strm.total THEN "stat" ELSE "write")
  /\ UNCHANGED <<workVars, answer, failed, spoilt>>

WriteFails ==
  /\ At("write") /\ "disk" \in Faults
  /\ failed' = TRUE /\ spoilt' = TRUE
  /\ Go("stat")
  /\ UNCHANGED <<copy, workVars, answer>>

\* return_res looks again.
Stat ==
  /\ At("stat")
  /\ answer' = copy
  /\ input' = NoInput /\ strm' = NoStream /\ output' = <<>>
  /\ Go("idle")
  /\ UNCHANGED <<copy, failed, spoilt>>

\* The page is written anew, in one go, while the server runs.
Edit ==
  /\ page.v < MaxEdits
  /\ \E n \in 0..MaxPage : page' = [v |-> page.v + 1, len |-> n]
  /\ UNCHANGED <<copy, up, place, workVars, answer, failed, spoilt, crashes>>

\* The process ends, with some of the copy written.
Crash ==
  /\ up /\ crashes < MaxCrashes
  /\ up' = FALSE /\ place' = "idle" /\ crashes' = crashes + 1
  /\ spoilt' = (spoilt \/ place = "write")
  /\ input' = NoInput /\ strm' = NoStream /\ output' = <<>>
  /\ UNCHANGED <<page, copy, answer, failed>>

Restart ==
  /\ ~up /\ up' = TRUE
  /\ UNCHANGED <<page, copy, place, workVars, answer, failed, spoilt, crashes>>

Init ==
  /\ \E n \in 0..MaxPage : page = [v |-> 0, len |-> n]
  /\ copy = NONE /\ up = TRUE /\ place = "idle"
  /\ input = NoInput /\ strm = NoStream /\ output = <<>>
  /\ answer = NONE /\ failed = FALSE /\ spoilt = FALSE /\ crashes = 0

Working ==
  \/ Open \/ OpenFails \/ Read \/ ReadFails \/ Deflate \/ Create \/ CreateFails
  \/ Write \/ WriteFails \/ Stat

Next == Ask \/ Working \/ Edit \/ Crash \/ Restart

Spec == Init /\ [][Next]_vars

\* The one thread of the server goes on with what it has begun.
FairSpec == Spec /\ WF_vars(Working)

(***************************************************************************)
(* Properties.                                                             *)
(***************************************************************************)
\* Every variable has its type, and what deflate has still room for is what is left of the
\* vector behind what it has written: no byte of the output is left out or overrun.
TypeOK ==
  /\ page \in [v : 0..MaxEdits, len : 0..MaxPage]
  /\ {copy, answer} \subseteq Copies \cup {NONE}
  /\ copy # NONE => Len(copy.bytes) <= MaxPage + Extra
  /\ up \in BOOLEAN /\ place \in Places /\ input \in Inputs
  /\ failed \in BOOLEAN /\ spoilt \in BOOLEAN /\ crashes \in 0..MaxCrashes
  /\ strm \in [total : Nat, next : Nat, avail : Nat, len : Nat] /\ output \in Seq(Nat)
  /\ strm.next + strm.avail = Len(output) + 1 /\ strm.total <= strm.len
  /\ \A i \in 1..strm.total : output[i] = i

\* c is all of the compressed stream, and that of a whole page.
Whole(c) == c.bytes = [i \in 1..c.len |-> i] /\ c.of.len = c.of.of

\* What a browser is sent as a compressed page is the whole of one version of it, unless the
\* copy could not be written, the process ended while it was, or the page became longer
\* between tellg and read.  The caller does not look at what gzipCompressFile returns: a
\* file of the name is all it takes.
AnswerWhole ==
  answer # NONE => Whole(answer) \/ spoilt \/ answer.of.sized # answer.of.v

\* A copy that has been sent is not written again, whatever becomes of the page or of the
\* process: sendfile may still be sending it, with the size stat gave, over many events.
Settled == [][answer # NONE => copy' = copy]_vars

\* Whatever deflate returns, the loop around it ends and the page is answered.
Ends == At("deflate") ~> ~At("deflate")

\* A page is compressed if nothing outside fails, unless its stream is longer than
\* compressBound: one that fills the buffer to its last byte is not taken for cut short,
\* though avail_out is 0 and the buffer grows once more.
Fits == place = "stat" /\ ~failed /\ strm.len <= compressBound(input.len) => copy # NONE

=============================================================================
