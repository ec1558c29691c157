------------------------------ MODULE Uploads ------------------------------
(***************************************************************************)
(* The directory of uploads, shared by all connections: the names under    *)
(* which main stores uploads (server.cpp, http.h, utils.h), the streams    *)
(* they are written through, and the downloads that read the files         *)
(* meanwhile.  How one upload's bytes are found in the requests is in      *)
(* Upload; here a step gives some of them to the stream.                   *)
(***************************************************************************)
EXTENDS Integers, Sequences

CONSTANTS Conns,         \* connections, each with one upload
          Bytes,         \* Bytes[c]: what c uploads
          Names,         \* file names that browsers send, sequences of character codes
          MaxName,       \* the length sanitize_filename cuts a name to, 64
          Zero,          \* the byte of a hole
          Readers,       \* downloads
          MaxRestarts,
          NULL

ASSUME UploadsAssumption ==
  /\ DOMAIN Bytes = Conns
  /\ \A c \in Conns : Bytes[c] \in Seq({Bytes[c][j] : j \in 1..Len(Bytes[c])})
  /\ \A n \in Names : n \in Seq(0..255)
  /\ MaxName \in Nat /\ MaxRestarts \in Nat

Slashes == {47, 92}
Dot == 46
Underscore == 95
Alnum == (48..57) \cup (65..90) \cup (97..122)
Safe == Alnum \cup {Dot, Underscore, 45}

\* get_upload_file_name: what follows the last slash.
Base(name) ==
  LET last == CHOOSE j \in 0..Len(name) :
                /\ j > 0 => name[j] \in Slashes
                /\ \A k \in (j + 1)..Len(name) : name[k] \notin Slashes
  IN SubSeq(name, last + 1, Len(name))

\* Mutant of Sanitize: the name is not cut.
SanitizeUncut(name) == [j \in 1..Len(name) |-> IF name[j] \in Safe THEN name[j] ELSE Underscore]

\* sanitize_filename.
Sanitize(name) ==
  [j \in 1..(IF Len(name) < MaxName THEN Len(name) ELSE MaxName) |->
     IF name[j] \in Safe THEN name[j] ELSE Underscore]

\* What open refuses: uploads/ itself, uploads/. and uploads/..
Directories == {<<>>, <<Dot>>, <<Dot, Dot>>}

Keys == {Sanitize(Base(n)) : n \in Names} \ Directories

VARIABLES
  files,      \* files[k]: the content of uploads/k
  owners,     \* history: the uploads open under k at its last truncation or begun then; {}: no file
  phase,      \* idle; open: the file is; acked: the success response is prepared; gone
  key,        \* upload_filename
  given,      \* how many bytes upload_file was given
  flushed,    \* how many of them it has written
  bad,        \* it has failed
  dl,         \* the downloads
  up, restarts

streamVars == <<phase, key, given, flushed, bad>>
vars == <<files, owners, streamVars, dl, up, restarts>>

\* A download.  size: file_size; got: what was sent; seen: history, the file when it
\* was opened; calm: history, no upload has truncated the file since.
Idle == [phase |-> "idle", key |-> NULL, size |-> 0, got |-> <<>>, seen |-> <<>>, calm |-> TRUE]

Open(k) == {c \in Conns : phase[c] = "open" /\ key[c] = k}

\* t with s written over it at offset p; what lies between t's end and p is a hole.
Overlay(t, p, s) ==
  [j \in 1..(IF p + Len(s) > Len(t) THEN p + Len(s) ELSE Len(t)) |->
     IF j \in (p + 1)..(p + Len(s)) THEN s[j - p]
     ELSE IF j <= Len(t) THEN t[j] ELSE Zero]

\* Mutant of Opened: open does not truncate.
OpenedAsIs(t, s) == Overlay(t, 0, s)

\* A file t opened with std::ios::trunc, with s written to it.
Opened(t, s) == s

\* upload_file writes its bytes up to the m-th, where its own offset is.
Flush(c, m) ==
  /\ flushed' = [flushed EXCEPT ![c] = m]
  /\ files' = [files EXCEPT ![key[c]] =
                 Overlay(@, flushed[c], SubSeq(Bytes[c], flushed[c] + 1, m))]

\* upload_file.close after n bytes; its failure is not looked at.
Close(c, n) ==
  /\ given' = [given EXCEPT ![c] = n]
  /\ \/ ~bad[c] /\ Flush(c, n) /\ UNCHANGED bad
     \/ \E m \in flushed[c]..n : Flush(c, m) /\ bad' = [bad EXCEPT ![c] = TRUE]

Becomes(c, p) == phase' = [phase EXCEPT ![c] = p]

(***************************************************************************)
(* Uploads.                                                                *)
(***************************************************************************)
\* The file is opened and truncated, whoever else has it open, and given the bytes that
\* came with the headers.
Begin(c, name) ==
  LET k == Sanitize(Base(name)) IN
  /\ up /\ phase[c] = "idle" /\ k \in Keys
  /\ \E n \in 0..Len(Bytes[c]) : \E m \in 0..n :
       /\ given' = [given EXCEPT ![c] = n]
       /\ flushed' = [flushed EXCEPT ![c] = m]
       /\ files' = [files EXCEPT ![k] = Opened(@, SubSeq(Bytes[c], 1, m))]
  /\ owners' = [owners EXCEPT ![k] = Open(k) \cup {c}]
  /\ key' = [key EXCEPT ![c] = k]
  /\ dl' = [r \in Readers |-> [dl[r] EXCEPT !.calm = @ /\ dl[r].key # k]]
  /\ Becomes(c, "open")
  /\ UNCHANGED <<bad, up, restarts>>

\* It cannot be opened: the connection is closed.
NotOpened(c) ==
  /\ up /\ phase[c] = "idle"
  /\ Becomes(c, "gone")
  /\ UNCHANGED <<files, owners, key, given, flushed, bad, dl, up, restarts>>

streamKeeps == <<owners, key, dl, up, restarts>>

Write(c) ==
  /\ up /\ phase[c] = "open" /\ ~bad[c]
  /\ \E n \in (given[c] + 1)..Len(Bytes[c]) : \E m \in flushed[c]..n :
       given' = [given EXCEPT ![c] = n] /\ Flush(c, m)
  /\ UNCHANGED <<streamKeeps, phase, bad>>

\* The disk is full: the stream fails, and takes no more bytes.
WriteFails(c) ==
  /\ up /\ phase[c] = "open" /\ ~bad[c]
  /\ \E m \in flushed[c]..given[c] : Flush(c, m)
  /\ bad' = [bad EXCEPT ![c] = TRUE]
  /\ UNCHANGED <<streamKeeps, phase, given>>

\* Mutant of Finish: the upload is acknowledged and the file left to be closed later.
FinishUnclosed(c) ==
  /\ up /\ phase[c] = "open"
  /\ given' = [given EXCEPT ![c] = Len(Bytes[c])]
  /\ Becomes(c, "acked")
  /\ UNCHANGED <<streamKeeps, files, flushed, bad>>

\* The closing boundary: the last bytes, close, and the success response.
Finish(c) ==
  /\ up /\ phase[c] = "open"
  /\ Close(c, IF bad[c] THEN given[c] ELSE Len(Bytes[c]))
  /\ Becomes(c, "acked")
  /\ UNCHANGED streamKeeps

\* The client leaves, or the read fails: reset closes the file.
Drop(c) ==
  /\ up /\ phase[c] = "open"
  /\ Close(c, given[c])
  /\ Becomes(c, "gone")
  /\ UNCHANGED streamKeeps

(***************************************************************************)
(* Downloads.                                                              *)
(***************************************************************************)
\* handle_request: open and fstat.
Ask(r, k) ==
  /\ up /\ dl[r].phase = "idle"
  /\ dl' = [dl EXCEPT ![r] =
              IF owners[k] = {} THEN [Idle EXCEPT !.phase = "missing"]
              ELSE [Idle EXCEPT !.phase = "sending", !.key = k, !.size = Len(files[k]),
                                !.seen = files[k]]]
  /\ UNCHANGED <<files, owners, streamVars, up, restarts>>

\* Mutant of Send: sendfile is taken to have sent all it was asked for.
SendAll(r) ==
  /\ up /\ dl[r].phase = "sending"
  /\ LET x == dl[r]
         p == Len(x.got)
     IN \E n \in 1..(x.size - p) :
          /\ p + n <= Len(files[x.key])
          /\ dl' = [dl EXCEPT ![r] =
               [x EXCEPT !.got = @ \o SubSeq(files[x.key], p + 1, p + n), !.phase = "done"]]
  /\ UNCHANGED <<files, owners, streamVars, up, restarts>>

\* sendfile sends what the file has now, and nothing where it has become shorter.
Send(r) ==
  /\ up /\ dl[r].phase = "sending"
  /\ LET x == dl[r]
         p == Len(x.got)
     IN \E n \in 1..(x.size - p) :
          /\ p + n <= Len(files[x.key])
          /\ dl' = [dl EXCEPT ![r] =
               [x EXCEPT !.got = @ \o SubSeq(files[x.key], p + 1, p + n),
                         !.phase = IF p + n = x.size THEN "done" ELSE @]]
  /\ UNCHANGED <<files, owners, streamVars, up, restarts>>

(***************************************************************************)
(* The process ends and is started again.  What streams had not written is *)
(* lost, unless main returned, which is Drop for every connection first.   *)
(***************************************************************************)
Crash ==
  /\ up /\ up' = FALSE
  /\ phase' = [c \in Conns |-> IF phase[c] = "open" THEN "gone" ELSE phase[c]]
  /\ dl' = [r \in Readers |-> IF dl[r].phase = "sending" THEN [dl[r] EXCEPT !.phase = "cut"]
                              ELSE dl[r]]
  /\ UNCHANGED <<files, owners, key, given, flushed, bad, restarts>>

Restart ==
  /\ ~up /\ restarts < MaxRestarts
  /\ up' = TRUE /\ restarts' = restarts + 1
  /\ UNCHANGED <<files, owners, streamVars, dl>>

Init ==
  /\ files = [k \in Keys |-> <<>>] /\ owners = [k \in Keys |-> {}]
  /\ phase = [c \in Conns |-> "idle"] /\ key = [c \in Conns |-> NULL]
  /\ given = [c \in Conns |-> 0] /\ flushed = [c \in Conns |-> 0]
  /\ bad = [c \in Conns |-> FALSE]
  /\ dl = [r \in Readers |-> Idle]
  /\ up = TRUE /\ restarts = 0

UploadStep(c) ==
  (\E name \in Names : Begin(c, name)) \/ NotOpened(c) \/ Write(c) \/ WriteFails(c)
    \/ Finish(c) \/ Drop(c)

DownloadStep(r) == (\E k \in Keys : Ask(r, k)) \/ Send(r)

Next == \/ \E c \in Conns : UploadStep(c)
        \/ \E r \in Readers : DownloadStep(r)
        \/ Crash \/ Restart

Spec == Init /\ [][Next]_vars

(***************************************************************************)
(* Properties.                                                             *)
(***************************************************************************)
Cells == {Zero} \cup UNION {{Bytes[c][j] : j \in 1..Len(Bytes[c])} : c \in Conns}

Downloads == [phase : {"idle", "sending", "done", "missing", "cut"}, key : Keys \cup {NULL},
              size : Nat, got : Seq(Cells), seen : Seq(Cells), calm : BOOLEAN]

\* Every variable has its type; a name that is stored under is as short and plain as
\* sanitize_filename makes it.
TypeOK ==
  /\ files \in [Keys -> Seq(Cells)] /\ owners \in [Keys -> SUBSET Conns]
  /\ \A k \in Keys : Len(k) <= MaxName /\ k \in Seq(Safe)
  /\ phase \in [Conns -> {"idle", "open", "acked", "gone"}]
  /\ key \in [Conns -> Keys \cup {NULL}]
  /\ given \in [Conns -> Nat] /\ flushed \in [Conns -> Nat]
  /\ \A c \in Conns : /\ flushed[c] <= given[c] /\ given[c] <= Len(Bytes[c])
                      /\ phase[c] \in {"open", "acked"} => key[c] \in Keys
  /\ bad \in [Conns -> BOOLEAN]
  /\ dl \in [Readers -> Downloads]
  /\ up \in BOOLEAN /\ restarts \in 0..MaxRestarts

\* c alone has had k open since it was last truncated.
Sole(c, k) == owners[k] = {c}

\* The name of an acknowledged upload holds just that upload, until another upload of the
\* name begins: unless another was in progress when it began or began before it ended, or
\* the disk was full.
AckedWhole ==
  \A c \in Conns : phase[c] = "acked" /\ ~bad[c] /\ Sole(c, key[c]) => files[key[c]] = Bytes[c]

Prefix(s, t) == Len(s) <= Len(t) /\ \A j \in 1..Len(s) : s[j] = t[j]

\* A download gets the file as it was when it was opened, and all of it is there to send,
\* unless an upload of the name begins meanwhile or two were writing it.
DownloadOf ==
  \A r \in Readers : LET x == dl[r] IN
    x.phase \in {"sending", "done"} /\ x.calm /\ (\E c \in Conns : Sole(c, x.key)) =>
      /\ Prefix(x.got, x.seen) /\ Prefix(x.seen, files[x.key])
      /\ x.phase = "done" => x.got = x.seen

\* What a file is that own had open since it was last truncated.
Holding(file, own) ==
  IF own = {} THEN [state |-> "none", by |-> NULL]
  ELSE IF \A c \in Conns : own # {c} THEN [state |-> "mixed", by |-> NULL]
  ELSE LET c == CHOOSE c \in Conns : own = {c}
       IN [state |-> IF file = Bytes[c] THEN "whole"
                     ELSE IF Prefix(file, Bytes[c]) THEN "part" ELSE "broken",
           by |-> c]

Store == INSTANCE FileStore WITH
           stored <- [k \in Keys |-> Holding(files[k], owners[k])],
           writers <- [k \in Keys |-> Open(k)],
           acked <- {c \in Conns : phase[c] = "acked" /\ ~bad[c]}

\* The directory keeps the promise of FileStore: no name ever holds anything but one upload
\* from its start, or a mixture of uploads that overlapped.
ImplementsFileStore == Store!Spec

=============================================================================
