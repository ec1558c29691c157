# esayhttp: specifications, model checking and proofs

esayhttp is a small HTTP/1.1 server in C++: one process, one thread, an epoll loop
over a table of connection slots, with file downloads by `sendfile`, multipart uploads,
a login backed by a MySQL table, signed cookies and gzip copies of some pages. This
directory holds TLA+ models of it, the TLC configurations that check them and the proofs
that TLAPS checks. Line numbers are those of the files beside this directory's parent,
`src/`.

- [The system](#the-system): components, state, operations, interactions, what is hard
- [Modules](#modules): how each one corresponds to the code
- [Properties and runs](#properties-and-runs): what is checked, bounds, fairness
- [Where the code and its documents disagree](#where-the-code-and-its-documents-disagree)
- [Proofs](#proofs): what holds for every value of the constants
- [What is not modelled](#what-is-not-modelled)
- [Plan](#plan)

## The system

| component | code | state | operations | what makes it correct |
|---|---|---|---|---|
| Event loop | `server.cpp` main, `utils.h` `ClientConnection`, `handle_request` | `connections[CONSIZE]`, `ev`, the batch `epoll_wait` returned | accept; read until EAGAIN; write the header; `sendfile`; the error branch of each; `reset` | each client gets the answers to its own requests, in order and in the end; no descriptor is closed that is not one's own; no file stays open; no output waits for an event that cannot come |
| Kernel | not in the repository | descriptor table, sockets, epoll registrations, send and receive buffers | what the loop's calls do, and what clients do | (assumed) |
| Uploads | `server.cpp` 161-222, `utils.h` `process_upload_data`, `http.h` `get_boundary`, `get_upload_file_name` | `upload_state`, `upload_buffer`, `upload_boundary`, `upload_file`, and `is_upload_request` local to an event | recognise an upload; skip its headers; scan for boundary markers across reads; finish | what is stored is the part that was sent, with its opening and the line end behind it and nothing else, wherever the network cuts the request |
| Directory of uploads | `http.h` `sanitize_filename`, `get_upload_file_name`, `server.cpp` 175-205, `utils.h` 249-300 | the files under `uploads/`, the streams open on them | open and truncate, write, close, a download's `open`, `fstat`, `sendfile` | a name holds one upload from its start; what is acknowledged is there in full; a download gets the file it was answered with |
| Users | `sqlconn.h`, `sqlconn.cpp`, `http.cpp` 13-36 | table `user`, map `user_pass`, connection `con` | `init`, `getUser`, `registerUser`, `is_user_true`, `is_register_true` | the map never promises what the table does not hold, as far as the table holds what it is given |
| Responses and sessions | `http.cpp` `return_res`, `generateSignedCookie`, `verifySignedCookie` | cookies in the browsers' jars, `.gz` copies on disk | redirect, page, login, register, errors | pages behind the login stay there; redirects end; a response is framed and encoded as it says |
| Request parsing | `server.cpp` 207-216, `utils.h` `handle_request`, `http.cpp` `prase`, `prase_url` | the slot's `request` buffer, `http_message` | copy what was read; split it with `strtok` into request line, headers and body; decode the URL | the method, URL, headers and body are those of the request sent, whatever was in the buffer before |
| Compressed copies | `http.cpp` 179-251 `gzipCompressFile`, 555-582 | `.gz` files, zlib's `strm`, the output buffer | look for a copy, compress the page, look again | a copy is the whole of a page; none is rewritten while it is sent |
| Log | `log.h` | `log.txt` | one line for each request and response | names the client concerned |
| Connection mode | `server.cpp` `handle_signal` | `keep_alive` | toggle on SIGUSR1 | the header sent says what the server does |
| Pages | `*.html` | in the browser | scripts that post JSON and upload files | - |
| Offline tools, experiments | `uploads/clean.cpp`, `tes/`, `test*.cpp`, `t.cpp`, `cookie.cpp` | - | programs of their own | - |

How they interact. The loop is the only caller: `handle_request` has `prase` fill an
`http_message`, `return_res` writes the response into the slot's `response_header` and
leaves in `filename` what `sendfile` is to send, and the loop pushes both out over as
many events as it takes. `return_res` calls the user store, signs and verifies cookies and
makes the compressed copies, all synchronously. There are no threads and no callbacks; all
concurrency is between the loop and its clients, through the kernel.

What is hard here:

- A slot outlives its connection. The loop looks a descriptor up in the table (server.cpp 143-151), the
  kernel gives descriptor numbers out again, and `reset` clears some fields only.
- Registrations are edge-triggered or one-shot, and one variable `ev` serves accept and
  every `EPOLL_CTL_MOD`: output or input left over with no event to come is stuck for good.
- One slot has room for one response; a client may pipeline, leave at any point, or stop
  reading so that `write` and `sendfile` are short.
- An upload is parsed across reads and across events, with its state in two places that
  live for different times, and with unsigned arithmetic on lengths.
- A request is parsed in a buffer that still holds the tail of an earlier one, by a tokenizer
  that writes into it and keeps its place between calls.
- Uploads and downloads share files by name, through streams that buffer, and different
  names may be stored under one.
- The map of users is a cache of a table that a failed statement cuts off.
- A compressed copy is a cache too, made in many steps that may each fail, with a result nobody looks at.

`PROJECT.json` lists these hazards one by one, each at its line, with the properties that
watch it.

## Modules

`Exchange` <- `EventLoop` (EXTENDS `Sockets`) <- `MCEventLoop`, `EventLoopProofs` <- `OrderProofs` <- `ExchangeProofs`;
`Upload` <- `MCUpload`, `UploadProofs`; `FileStore` <- `Uploads` <- `MCUploads`, `UploadsProofs`;
`Url` <- `Request` <- `MCRequest`, `RequestProofs`; `UserStore` <- `Site` <- `MCSite`, `SiteProofs`;
`Compress` <- `CompressProofs`.

**Sockets** is the environment, external to the repository and built from the calls the
code makes. A client is one connection. `sock[f]` and `opened[f]` say what descriptor `f`
is; `accept` and `open` return the lowest free number. `epi[f]` is its registration: the
event mask, the number its events carry (`data.fd`) and whether it is on the ready list.
Level-triggered registrations stay on the list while they hold, edge-triggered ones leave
it when reported and return when the socket changes; `EPOLL_CTL_MOD` puts a registration
back on it if it holds; closing a descriptor removes it. `write` and `sendfile` are short
exactly when the buffer fills. Data written to a closed connection is answered by a reset
(`doomed`, then `gone`), the next write raises SIGPIPE; a reset by the client makes the
next write fail. The clients' actions `Connect`, `Send`, `Close`, `HalfClose`, `Abort`,
`Refused`, `Drain` interleave with every action of the server. `Faults` says which kinds
of behaviour a run allows.

**EventLoop** is `main`, one action per call that can be seen from outside. A slot is a
record with the fields of `ClientConnection` that control depends on:
`left` is `response_header_len - header_written`, `fleft` is `file_size - file_sent`,
`file` is `file_fd` (0 for -1), `hdr` is the request `response_header` answers.

| action | code |
|---|---|
| `Wait` | `epoll_wait`: a batch of events is taken, the loop then handles them in any order |
| `Accept`, `AcceptFails` | server.cpp 105-134: accept, the first free slot, its `reset`, registration |
| `Orphan` | the event of a descriptor no slot has: closed |
| `BeginRead`, `ReadSome`, `ReadEAGAIN`, `ReadEnd` | the read loop: `handle_request` on each read, re-registration, reset and close at the end |
| `BeginWrite`, `Write`, `WriteNothing`, `WriteFails` | the header |
| `SendFile`, `SendNothing`, `SendEAGAIN`, `SendFails` | the file |
| `BrokenPipe` | SIGPIPE, whose default action ends the process |

What the code does is kept even where it surprises: `reset` leaves `fd`, the header and
its length; a failed `sendfile` closes the file and keeps its number; the slot found is
the first one with that `fd`; `ev` keeps the last value stored in it. The loop of the code
handles a batch in the order `epoll_wait` gave it, which is the kernel's choice, and the
model takes any.

**Exchange** is the promise to a client, without slots, descriptors or events: its n-th
answer is the answer to its own n-th request. `EventLoop!Ex` maps `replies` to `got`.

**Upload** is one upload on one connection: the upload branch of the read loop and
`process_upload_data`, whose `while` loop is one action per round. The request is a
sequence of tokens, the least units the code tells apart: a header line, the blank line, a
half of a boundary marker, a byte of the file, the closing dashes. `Deliver` hands the
server any prefix of what is unsent, so that every cut into reads and into events is met,
inside a marker too. `uploading` is `is_upload_request`, set to false with each event.
`NoMarker` has the width of `size_t`: with less data than a marker is long, the number of
bytes to write wraps round; `write` of that many bytes sets `badbit` on the stream (so that
nothing is written from then on), and the tail kept begins before the data.
`strstr` on a buffer that is not terminated after the read may find an earlier
upload's headers: `Recognised(stale)` chooses.

What is stored is not the file alone. Behind the request's own headers the code writes
everything up to the closing boundary (server.cpp:192-197): the marker that opens the part and the
part's headers, unless the scan of a later read meets that marker, then the file, then the line
end before the closing marker. `remove_boundary` (http.h:396) and `uploads/clean.cpp` are there to
strip these by hand. `Openings` lists what may stand before the file, `StoredPart` says
that there is nothing else.

**Uploads** is the directory that all connections share. `Upload` finds one upload's bytes
in the reads; here a step hands some of them to the stream, which writes any of what it has
been given. `Sanitize` and `Base` turn the name the browser sends into the one stored under,
with the codes of characters, since two names becoming equal is what matters.

| action | code |
|---|---|
| `Begin`, `NotOpened` | server.cpp 175-200: the name, `open` with `trunc`, the bytes that came with the headers; or the connection is closed |
| `Write`, `WriteFails` | utils.h `process_upload_data`: `write`, whose failure leaves the stream bad |
| `Finish` | the closing boundary: `close` and the success response, whatever `close` says |
| `Drop` | `reset` of a slot with an upload in progress |
| `Ask`, `Send` | `handle_request`'s `open` and `fstat`; `sendfile`, of what the file has now |
| `Crash`, `Restart` | the process ends with data still in its streams, and is started again; files stay |

`owners[k]` is history: the uploads that had `k` open at or since its last truncation.
`Overlay` writes at the stream's own offset, which may be past the end of a file another
upload has truncated: what lies between is a hole (`Zero`).

**FileStore** is the promise: a name holds nothing, a part of one upload, one upload whole,
or a mixture, which is only ever the result of uploads that overlapped. `Uploads!Store` maps a file
and its owners to one of these.

**Url** is `prase_url`, one action per round of its loop, on character codes. `Decoded` is
what `istream >> hex` makes of two characters, a sign or a letter that is no digit
included, cut to a `char`.

**Request** is the ordinary branch of the read loop with `handle_request` and `prase`. The
slot's `request` is an array of `Size` characters with a NUL at its end. `Read` copies a
read over it and does not end what it copies (server.cpp:210); `Token` and `Cut` are
`strtok`, which skips line ends, cuts the token off with a NUL and goes on behind it.

| action | code |
|---|---|
| `Event`, `Read`, `ReadEAGAIN` | server.cpp 154-163, 207-217 |
| `FirstLine` | prase: the request line, `iss >> method >> url` |
| `HeaderLine` | prase: a line with a colon and a space, a key and a trimmed value |
| `ContentLine`, `LinesEnd` | prase: the first line without is the body and the last; or there are no more |
| `Decode` | a round of `prase_url` (EXTENDS `Url`) |
| `Respond` | `return_res` as far as the parser is concerned: of an empty URL, `erase` ends the process (http.cpp:489); so may a POST with a brace in what is taken for its body, by a `type_error` that nothing catches (634-640) |
| `FileSent` | the file is out, `reset` clears the buffer (server.cpp 306-316) |

The client's `Send` and `SendRest` deliver messages whole or in two pieces. CR LF is one
character, and so is the colon with its space: the code tells their parts apart only where `iss >>`
ends a word, which is `WordEnd`: the blank behind a colon ends it, the colon is still in it. `MCRequest` builds the messages from their meaning, so that what is parsed is
compared with what was meant. What it takes for a text to have that meaning is stated once, by
positions, in `MessagesAssumption`: the request line with its blanks (`LineAt`), the escapes of the
URL (`Spells`), the header a line says (`Says`), and for a plain message the lines up to the empty
one, each a header with a key of its own, and the body behind it (`PlainAt`). TLC evaluates it on
the messages of `MCRequest`; the proofs use it for any.

**UserStore** is `sqlconn`: the table outlives the process, the map and the connection do
not. `InsertFails` closes the connection and leaves it in use, as `registerUser` does.
A statement on a closed `MYSQL` uses freed memory: it fails, or ends the process.
The INSERT is put together without escaping (sqlconn.cpp:60) while the map is given the pair
as it came (71): `a''b` is stored as `a'b`. `Kept` is the set of names and passwords that an
INSERT stores as they are, and `Stored` chooses any other text for the rest, whose INSERT may
also fail. Texts that go on as SQL of their own, beyond the value they stand in, are left out,
and so are names with `;` or a line break, which a cookie cannot carry.

**Site** is `return_res`, one exchange per action since `EventLoop` handles one request at
a time, together with browsers that keep cookies and follow redirects. URLs are the classes
the code tells apart. `Packs` and `Encoded` are the two conditions on compressed copies,
with C++'s precedence of `&&` over `||`. `crowded` browsers send another cookie first,
which the server does not look behind. An answer records what the header announces
(`declared`) and what is sent (`sent`).

**Compress** is what `return_res` does for one page that is sent compressed, with
`gzipCompressFile` call by call; its outcomes are those `Site` takes as given. The
stream's bytes are their numbers, so that a byte lost, doubled or moved is seen. `deflate`
is external: with `Z_FINISH` it fills the room it has and returns `Z_OK`, or
`Z_STREAM_END` when the stream is out, or `Z_BUF_ERROR` when it is given no room.

| action | code |
|---|---|
| `Ask` | http.cpp 560-565: `stat`, and the copy it finds, or `gzipCompressFile` |
| `Open`, `OpenFails` | 181-190: opening the page, its size |
| `Read`, `ReadFails` | 190-216: that many bytes, `deflateInit2`, the output vector |
| `Deflate` | 218-236: a round of the loop, with the growth of the vector, and what follows the last |
| `Create`, `CreateFails`, `Write`, `WriteFails` | 239-245: the copy grows on disk until it is written or the disk is full |
| `Stat` | 566-581: the second `stat` answers, whatever `gzipCompressFile` returned |
| `Edit`, `Crash`, `Restart` | the page changes on disk; the process ends with the copy as far as it is, and is started again |

Names are those of the code where TLA+ allows. A definition introduced by a comment
"Mutant of X" is a plausible bug in X: it is no part of the specification, and shows that
the property listed for it in `PROJECT.json` would notice.

## Properties and runs

Each run has a small instance that TLC explores completely.

| run | instance | distinct states | checks |
|---|---|---|---|
| `core_calm` | 2 clients, 2 slots, 4 descriptors, 2 requests each, headers and files of up to 2 writes; answered with a file, an empty file, a page, a header alone, a header and no file (missing), or nothing; patient clients; fairness | 650k | `OwnOutput`, `NoFileLeak`, `ImplementsExchange`, `EventuallyServed` |
| `core_leave` | the same size but for headers of 1 write, downloads only; clients pipeline, leave and half-close | 709k | `NoStrandedOutput`, `FilesOwned`, `NoHangup` |
| `core_faults` | 3 descriptors (so that they run out); requests that parse and that do not; pipelining, leaving, resets, full buffers | 1.86M | `TypeOK`, `NoReplay` |
| `upload` | a file of 3 bytes, a marker in 2 halves, reads of at most 9 tokens | 45k | `TypeOK`, `Conserved`, `StoredPart` |
| `uploads` | uploads of 2 and 3 bytes, 1 download, 5 names of which some become equal, a full disk, 1 restart | 610k | `TypeOK`, `AckedWhole`, `DownloadOf`, `ImplementsFileStore` |
| `parse` | two messages of six shapes, one of them cut, a buffer of 20; or one with a URL of two characters in every spelling | 71k | `TypeOK`, `Lowered`, `UpperEscaped`, `ParsedAsSent`, `LineOwn`, `HeadersOwn`, `EndedBySplitOrBody` |
| `site` | 1 browser, 2 users and 2 passwords, one of each with a quote; failing statements and compressions, restarts | 538k | `TypeOK`, `MapInTable`, `RedirectsEnd`, `EncodedAsSaid`, `Framed`, `Guarded`, `LoginStored` |
| `compress` | a page of up to 3 bytes, 2 changes of it, 2 crashes, everything may fail; fairness | 21k | `TypeOK`, `AnswerWhole`, `Fits`, `Settled`, `Ends` |

What they show:

- `OwnOutput`, `NoReplay`, `ImplementsExchange`: while clients wait for their answers,
  nobody gets another's, and the loop implements `Exchange`. With clients that leave, the
  first is false (run `isolation`), which is why `core_leave` does not list it. `NoReplay`
  is what remains true under every fault.
- `NoStrandedOutput`: between two events, output that is left is always waited for by a
  registration that is armed, carries the connection's own number and will fire, or the
  buffer is full and its draining arms it. True as long as EAGAIN from `sendfile` comes
  only after a short one; false otherwise (run `stall`).
- `FilesOwned`, `NoFileLeak`, `NoHangup`: files belong to one slot each and are closed in
  the end; a close of a stale number never ends another's connection. False once a
  `sendfile` fails (see below).
- `EventuallyServed`: a client that has only downloaded files so far is answered in the end,
  if its next request is one that gives a file or is answered whole. With any history the
  same promise is `EventuallyAnswered`, false for a second request after an answer that is
  not a file (run `keepalive`).
- `Conserved`, `StoredPart`: while one event handles an upload, no byte is lost, doubled
  or moved, and what is acknowledged is stored as the part came: one of four openings, the
  file, a line end. So the file under `uploads/` is longer than the file sent. False over two events
  (run `upload_lost`). Both except a stream that has failed, where the code stores nothing
  and reports success; the arithmetic that fails it is in the model.
- `AckedWhole`, `ImplementsFileStore`: an acknowledged upload is under its name in full until the next
  of that name begins, unless two overlapped or the disk was full; through crashes and
  restarts no name holds anything but one upload from its start, or such a mixture.
- `DownloadOf`: a download gets the file as it was at `fstat`, unless an upload of that name
  begins meanwhile or two are writing it; a file that grows does no harm.
- `ParsedAsSent`: a plain message that a read returns by itself, with no longer one before
  it since the slot was reset, is parsed into what it says. `LineOwn`: its method and URL are
  its own whatever follows it in the read or is left behind it in the buffer. `HeadersOwn`: when
  messages follow it and nothing is left, so are its headers, and no others: the next request line
  ends them. `EndedBySplitOrBody`: a read that starts with a whole
  message ends the process only if that is a POST, by JSON in what is taken for its body; when nothing
  else is in the buffer, the body is its own.
- `Lowered`, `UpperEscaped`: what is decoded is the URL in lower case, but for escapes. An
  upload stored under a name with a capital letter has no other address.
- `MapInTable`, `Guarded`, `LoginStored`: through failed statements, crashes and restarts,
  who can log in stands in the table, and so does whoever sees a page behind the login. All three
  are about `Kept` names and passwords: with a quote in one of them they are false of the code
  until the restart (see below). That others may register with quotes does not harm those.
- `RedirectsEnd`: two redirects at most, also when a cookie expires on the way.
- `EncodedAsSaid`, `Framed`: the body is compressed exactly when the header says so, and
  as long as it says, but for 404 and 405, which announce a text they do not send.
- `AnswerWhole`: a compressed page is the whole of one version of it, unless its copy could not be
  written, the process ended while it was, or the page became longer between `tellg` and
  `read`. Nothing else leaves a partial copy, and those are served for good.
- `Settled`: a copy that has been sent is never written again, so that a `sendfile` that
  is still at it sends what its header announced. The price is that it never follows its
  page: `login.html.gz` and `welcome.html.gz` of the repository are not of the pages
  beside them.
- `Compress!TypeOK`, `Ends`: growing neither loses nor overruns output, and the loop
  around `deflate` ends. `Fits`: a page whose stream fits `compressBound` to the last byte is compressed,
  if nothing fails; a longer stream is not (see below).

**Why the bounds are enough.** The hazards of the loop are about one slot and one
descriptor number passing from one connection to another, so two connections, two slots
and a second request on the same connection meet all of them. Two writes are enough for a header or a file
to be cut in any way that matters: nothing, a part, all. Four descriptors hold two
connections and two files, three make them run out. In `upload` a payload of three bytes
with markers of two tokens puts every cut inside, before and after a marker, with more and
with less data than a marker is long; `MaxRead` 9 is less than the request, so that reads
are cut by the server too, and `BufLimit` 4 is passed by the headers held back. `SizeMod`
stands for 2^64: only wrapping round matters. Two uploads are what it takes to share a name,
and a download is disturbed by one or the other; a name is cut to `MaxName` 2, so that names
that differ at the third character meet. `parse` has every ordered pair of shapes, so that
each is read over what each other one leaves; `Size` 20 is less than two messages and more
than any one, so that a pair fills the buffer and a read is cut by its end; one cut is
enough, as a message in pieces is already two requests to the code. Clients of `Request` move only while
the parser waits, which changes nothing it can see. In `site` one user and one
password are `Kept` and one each are not, so that each sort of pair is registered, and a row that an
INSERT changed may be that of the other user; one browser has had time to be several in turn, as its
cookie expires;
`hops` needs no bound, as `RedirectsEnd` is an invariant. In
`compress` a stream may be `Extra` 3 bytes longer than the page and the buffer `Margin` 1, which
stand for gzip's 23 and `compressBound`'s 13: streams that fit, that just fill the buffer and that
do not fit all occur. Two changes let a page change before and after it is read, and two crashes let
a second one meet what the first has left.

**Bounds.** `MaxReq` requests a connection, `FileLen`, `HeaderLen`, `NFds`, `NSlots`;
`Payload`, `NHeaders`, `MaxRead`, `BufLimit`, `SizeMod`; `Bytes`, `MaxName`, `MaxRestarts`,
`Readers`; `Streams`, `Cuts`, `Size`; `MaxPage`, `Margin`,
`Extra`, `MaxEdits`, `MaxCrashes`; the sets of browsers, users, passwords and pages. There is no other. Symmetry is used on clients in
runs without liveness.

**Fairness.** `EventLoop!FairSpec` has weak fairness of the server (`WF(ServerNext)`):
the loop is one thread that blocks in `epoll_wait` only, all its sockets are non-blocking,
so that it goes on whenever it can. It has weak fairness of `Drain` for each client:
a client that is owed an answer reads what arrives. Nothing is assumed of clients sending
or closing. `Compress!FairSpec` has weak fairness of `Working`, the same thread between two requests. `Wait` hands over all events that have fired, so none is left out for ever.

**Deadlock** is not checked: all models may stop, when the process has ended and all
requests have been made.

## Where the code and its documents disagree

Four runs expect a violation: each checks one property that a document or comment of the
repository states, and TLC shows a run of the code that breaks it.

| run | property | what happens |
|---|---|---|
| `keepalive` | `EventuallyAnswered` | after an answer without a file the connection stays registered for output only (server.cpp:217) and is neither read nor closed; document.md:9 asks for both keep-alive and close |
| `isolation` | `OwnOutput` | a client leaves with its answer pending, the slot keeps `fd` and the response (server.cpp:230), the next client has the same number and gets it; document.md:15 |
| `stall` | `NoStrandedOutput` | EAGAIN arms the download under `ev.data.fd` of another connection (server.cpp:321); document.md:15 |
| `upload_lost` | `NothingDropped` | an upload in two events loses all of the second (server.cpp:159, 221), although server.cpp:223 says that the chunk is handled |

Only `keepalive` is a temporal property that needs fairness; it is checked under
`FairSpec`.

Other disagreements are in the models and have no run of their own:

- A failed `sendfile` closes the file and leaves its number in the slot (server.cpp:328); the `reset`
  of the slot's next connection closes that number again, which may by then be that
  connection's own socket. With `ThreeClients`, `FileLen` and `MaxReq` 1, `Faults` `{"abort"}` and the
  other constants of `core_leave`, TLC finds `NoHangup` violated.
- The loop around `deflate` reads `avail_out` after the growth has set it anew (http.cpp:229), so that a
  stream longer than `compressBound` (that of an empty page, or of one that does not compress) ends it
  with `Z_OK`, and the page is a 404; http.cpp:209 and 222 speak of a dynamic buffer and of growing
  it. Without its condition on `strm.len`, `Fits` is violated by this.

- A response is logged with the port in `cliaddr`, that of the client accepted last, beside the
  right address (server.cpp:281-282), where document.md:21 asks for the client's; log.txt:8-9 shows
  it. The log is in no module.
- A name or password with a quote is not what the table gets (sqlconn.cpp:60), while the map has it
  as it came (71): it logs in until the process restarts. Without their conditions on `Kept`,
  `MapInTable`, `Guarded` and `LoginStored` are violated.
- A POST with JSON that lacks the two strings ends the process (http.cpp:634-640 catches
  `parse_error` only), though document.md:17 asks for the handling of errors.
- An upload is stored with the part's boundary and headers before the file and a line end behind it
  (server.cpp:192-197).
- `prase` does not see the blank line between headers and body (http.cpp:377), which
  document.md:57 describes as the separator: a body with a colon and a space in its first line is
  read as a header. `plain` messages are those without.
- Escaped letters keep their case and others do not (http.cpp:447-455).
- login.html:153 posts to `/login.html`, while `return_res` knows `login` only
  (http.cpp:642): `PostElse` is what such a post gets.
- An upload whose writing failed is acknowledged (utils.h:272): `bad` in `Uploads`, and
  `FileStore` counts only the others as acknowledged.

## Proofs

TLAPS checks every step of the eight modules whose names end in `Proofs`.

| theorem | says | from |
|---|---|---|
| `EventLoopProofs!TypeCorrect` | `Spec => []TypeOK`, for all clients, slots, descriptors, lengths, kinds of request and faults | `SizesAssumption`, `ChoicesAssumption`, `NullAssumption`, `TableAssumption` |
| `OrderProofs!NoReplayCorrect` | `Spec => []NoReplay`, under the same faults | the same |
| `ExchangeProofs!FilesCorrect`, `HangupCorrect`, `StrandedCorrect` | `Mild /\ Spec => []FilesOwned`, `NoHangup`, `[]NoStrandedOutput` | the same; `Mild`: clients may pipeline and leave, none resets its connection, no buffer fills unasked, no directory is asked for |
| `ExchangeProofs!OwnOutputCorrect`, `LeakCorrect`, `ExchangeImplemented` | `Waiting /\ Spec => []OwnOutput`, `[]NoFileLeak`, `ImplementsExchange` | the same; `Waiting`: moreover a client sends and leaves only when it has had its answers |
| `SiteProofs!MapCorrect` | `Spec => []MapInTable`, for any set `Kept` of names and passwords that an INSERT keeps | `UsersAssumption`, `KeptAssumption`, `FaultsAssumption`, `PageNotNone` |
| `SiteProofs!GuardedCorrect` | `Spec => Guarded` | those of `MapCorrect` |
| `SiteProofs!LoginCorrect` | `Spec => LoginStored` | those of `MapCorrect` |
| `SiteProofs!TypeCorrect`, `RedirectsCorrect`, `EncodedCorrect`, `FramedCorrect` | `Spec => []TypeOK`, `[]RedirectsEnd`, `[]EncodedAsSaid`, `[]Framed`, for all browsers, pages and faults | those of `MapCorrect`, `PagesAssumption`, `DiskAssumption` |
| `UploadsProofs!TypeCorrect`, `AckedCorrect`, `DownloadCorrect` | `Spec => []TypeOK`, `[]AckedWhole`, `[]DownloadOf`, for all uploads, contents, names, downloads and restarts | `UploadsAssumption` |
| `UploadsProofs!StoreCorrect` | `Spec => ImplementsFileStore`, for the same | `UploadsAssumption` |
| `RequestProofs!TypeCorrect`, `LoweredCorrect`, `UpperCorrect` | `Spec => []TypeOK`, `[]Lowered`, `[]UpperEscaped`, for all messages and buffer sizes | `SizeAssumption`, `MessagesAssumption`, `StreamsAssumption` |
| `RequestProofs!EndedCorrect`, `LineCorrect`, `HeadersCorrect`, `ParsedCorrect` | `Spec => []EndedBySplitOrBody`, `[]LineOwn`, `[]HeadersOwn`, `[]ParsedAsSent`, for the same, however they arrive | the same |
| `UploadProofs!TypeCorrect`, `ConservedCorrect`, `StoredCorrect` | `Spec => []TypeOK`, `[]Conserved`, `[]StoredPart`, for all files, headers and sizes, wherever the request is cut | `UploadAssumption` |
| `CompressProofs!TypeCorrect`, `AnswerCorrect`, `FitsCorrect`, `SettledCorrect` | `Spec => []TypeOK`, `[]AnswerWhole`, `[]Fits`, `Settled`, for all sizes of pages and streams and any number of changes and crashes | `CompressAssumption` |

`TypeOK` of `EventLoop` is inductive because of its two last parts. `Serving` says that
the slot in hand has a descriptor and that a file is sent only from a slot that is sending;
without it the index of `sock` in `Write` and of `opened` in `SendFile` has no type.
`Prepared` says that a slot with output has had a request; without it what `Receive`
appends to `got` could be `NULL`. The proof has a lemma per group of actions and per part
(`DispatchType`, `ReadingType`, `WritingType`, `SendingType`, `ServingStep`,
`PreparedStep`), over lemmas on the operators (`HandleRequestType`, `CloseInType`,
`BufferedType`, `WakeType`).

`NoReplay` is far from inductive. An answer goes from a client's `inbox` into the header
of a slot and from there to `got`, and `Ordered` orders the three: what a client has got is
older than what a slot may still complete for it (`Pending`), and both are older than what
is in its inbox, which is increasing. When an answer is completed, no other slot may have
one pending for the same client: `Placed` says that a slot with an answer for a connected
client is the first slot with its descriptor, the one the loop finds, and `Apart` that a
client has one descriptor at most. `Spent` says that a header that is out has nothing left,
so that completing an answer ends it. `OrderInv` is their conjunction with `TypeOK`. It has
no assumption on faults: slots that keep a response after `reset` do send it again, but
never to the client it was for. `QuietInv`, `SlotInv`, `OrderedKept`, `OrderedHandle`,
`OrderedReceive` and `OrderedSend` say what each sort of step does to the parts of the
invariant; then there is one lemma per action or group of actions.

`Mild` and `Waiting` are what the runs assume too (`core_leave`, `core_calm`): without them the
properties are false, as `isolation` and `stall` show and a failed `sendfile` does. `NumbersInv` adds to `OrderInv`
what numbers mean to the loop. `Tagged`: a socket's events carry its own number. `Live`: an
event in hand is for a socket that is still open, which has one event at most. `Files`: a number
is a socket or a file, and a file is one slot's own. `Roomy`: a socket reported writable has room
until the loop writes to it, so that `sendfile` never meets EAGAIN at once, after which the
registration would carry another's number; with it no write or `sendfile` fails at all
(`NothingFails`). The parts need each other: a stale `file_fd` that is closed would take a socket's
number away under an event in hand, and a registration under another's number would make `Live`
false. `FilesOwned` is a part of `Files`; `NoHangup` follows, as only `ReadEnd` and `Orphan` close
sockets, and the first does so at the end of a client's stream.

`NoStrandedOutput` is inductive with `NumbersInv`, `Level` (a new connection's level-triggered
registration stays on the list) and `Fresh` (a header to write is not out yet): `AwaitedInv`.
One lemma per step says that a wait goes on or begins (`AwaitedSame` and those after it).

`OwnOutput` needs the clients: `Steady` says that a client has one request outstanding at most,
and `Served` that each slot is at rest (`Calm`) or answers the request its connection waits for
(`Mine`). The mapped steps follow from the same: the request that is completed is the next of its
client, which makes `Write` and `SendFile` steps of `Exchange` or stutters. For `NoFileLeak`, `Busy`
says that the connection of a slot with a file is registered for output only and has no event to be
read, so that `open` never overwrites a number.

The inductive invariant of `Site` is `Sound == Types /\ MapInTable /\ MapNamed /\ JarsNamed`.
`MapInTable` alone is inductive over the statements. `JarsNamed` (a cookie with a `Kept` name names a
user of the table) needs `MapNamed`, that a `Kept` name in the map is in the table with whatever
password, as a login hands out a cookie for what the *map* says, and the password may be one that the
INSERT changed. `Guarded` then
follows from `FileVerified`: a page that is not public is sent only after
`verifySignedCookie`.

`Routed == TypeOK /\ OnTheWay /\ AnswerOK(answer)` is the invariant of the other
properties of `Site`. `RedirectsEnd` needs `OnTheWay`: a browser that has followed one
redirect is on its way to `welcome.html`, or to `login.html` without a verified cookie; it gets none
on the way, since only `Login` hands one out and that is for browsers that have settled.
So the second redirect is always to `login.html`, and the third never comes. `AnswerOK`
holds of each answer by the way it is made: the two conditions on compressed copies agree
whenever a file is sent, although they are not equivalent for other answers.

The invariant of `Uploads` is `FilesInv /\ DownloadsInv`. `Owned` and `Own` say whose bytes
are in a file: every upload that has it open is one of its owners, and the file of a sole
owner is what its stream has written. `AckedFlushed`: an acknowledged upload whose stream is
good has written everything. `AckedWhole` follows. For downloads, `Sending` bounds what
was sent by what was announced, and `Calm` keeps what was there at `fstat` a prefix of
the file while only its sole owner writes. `FlushInv` and `BeginInv` carry the arithmetic of
`Overlay`; the other steps only end uploads. `StoreCorrect` needs `FilesInv` only:
`Begin` is the store's `Begin`, writing is its `Store` or a stutter, `Finish` and
`Drop` are its `End`, `Crash` its `EndAll`, and nothing else moves the mapped state.

`RequestProofs` types `strtok`: between two lines the place it goes on from is inside the
buffer, whose last character is always a NUL (`SlotOK`, `LoopOK`), since `Read` copies at
most `Size - 1` characters and `Cut` writes NULs only. Without that `Token` could find no
end. `Lowered` needs the place of the loop (`i`) in step with what is decoded;
`UpperEscaped` is inductive, as a plain letter is put in lower case.

What a request says is compared with what was sent by four more parts of `RequestInv`. `Held` is
what the buffer holds: the chunk at its start, and NULs behind the longest chunk since the last
`reset`, so that behind a chunk that is itself the longest (`alone`) nothing is left. `LineRead` says
of every message that starts the chunk that its method has been read and that the loop of
`prase_url` is at the start of a character's spelling, with the characters before it decoded
(`Decoding`); when the loop ends (`UrlDone`) the decoded URL is the message's, which is not empty, so
that `Alive`: if the process has ended, every message that starts the chunk is a POST and `content` has
a brace. `Parsed` is for plain
messages: the place of `strtok` is the start of one of their lines, and the headers in `m_map` are
those of the lines before (`Through`). `FirstToken`, `NextToken` and `LastToken` say what `strtok`
finds at each stage; keys of their own make the headers grow by one a line (`HeaderParsed`). At
the empty line, which `strtok` skips, what is left up to the next line end is the body and the request
line of the next message, neither with a colon and a space: `ContentLine` or `LinesEnd` follows,
never `HeaderLine`.

`UploadInv` adds to the types of `Upload` what the bytes at hand are part of. `Form(s, a)` says by
positions, without recursion, that `s` continues a request in which the file's bytes begin behind
position `a`: before them no closing dashes, behind them the line end, one marker, the dashes.
`Front(s, h, a)` says that between `h`, the empty line, and `a` stands one of the openings. With what is
stored, held back, at hand, unread and unsent put in a row, `InContent` says that the row has that
form while the content is scanned, and `InHeaders` that before it nothing is stored and the row is a
request from its start. So a marker found is either before the file's first byte or the closing one,
and the bytes held back with the last `MarkerLen` can hold a part of either only. `Once` says that a
request is recognised once; without it headers found in the rest of an upload would truncate the
file. `Scanned` bounds what is at hand by `BufLimit + MaxRead`, below `SizeMod`: the length that
wraps round does so only when there is less data than a marker is long, and that is where the stream
fails, which both properties except.

`CopyInv` has one fact that the code does not show: `deflate` is called once (`Once` of
`CompressProofs`). The room it is given is `compressBound`, which is never 0, and after a round the
loop goes on only with no room left while the growth has just added some. So a stream that fits ends
in its first round (`Fits`), also when it fills the buffer to the last byte. `Filled` keeps the
vector and the room in it in step; `InputOf` says that what was read is cut short only if the page
changed between `tellg` and `read`; `OneCopy` that a copy is made only where there is none, and
that none has been answered while one is made, from which `Settled` follows; `Made` that a copy on disk is
whole, or is one of the exceptions of `AnswerWhole`.

Only model-checked: liveness (`EventuallyServed`, `Ends`), which like `ENABLED` is out of the prover's
reach. Every other property of the passing runs has a theorem; those of `EventLoop` under the
assumptions on clients that the runs make too. No module uses `RECURSIVE`.

## What is not modelled

- The fields `prase_all` would split off: nothing reads them. `EventLoop` and `Site` take a
  request's kind, method and URL as given; `Request` is where they come from.
- A client that keeps a cookie past its expiry: the date in a cookie is signed and never
  compared with the clock (http.cpp:94). `Site`'s browsers drop a cookie when its Max-Age ends.
- The log, content types and the wording of headers: nothing in the server reads them.
- SIGUSR1: `keep_alive` selects one header line and nothing else.
- The browser's scripts, `uploads/clean.cpp`, `tes/` and the small programs beside the
  server (`test*.cpp`, `t.cpp`, `cookie.cpp`): not part of it. `extract_file_content`, `save_large_file`, `get_file_content` are not called.
- Several processes or threads: the server has none.

## Plan

Done: `Sockets`, `EventLoop`, `Exchange`, `Upload`, `UserStore`, `Site`, then `Url`,
`Request`, `FileStore`, `Uploads`, `Compress`, with the runs and theorems above; the event loop came
first since everything else happens inside it.

To model next:

1. The connection mode as a part of the loop, if a property wants it.

To prove next:

1. `FilesOwned` and `NoHangup` for clients that reset their connection while no file is being sent
   to them, which makes `Roomy` the only part that changes.
