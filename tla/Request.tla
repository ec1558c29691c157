------------------------------- MODULE Request -------------------------------
(***************************************************************************)
(* How one connection's bytes become requests: the ordinary branch of      *)
(* main's read loop (server.cpp), handle_request and reset (utils.h), and  *)
(* prase and prase_url (http.cpp).  prase works in the slot's buffer with  *)
(* strtok, one action per line.                                            *)
(*                                                                         *)
(* A message is a sequence of characters in which one stands for a line    *)
(* end (CR LF), one for the colon and space of a header, and one may stand *)
(* for a word whose letters do not matter.                                 *)
(***************************************************************************)
EXTENDS Url

CONSTANTS Messages,    \* the requests there are, see MessageRecords
          Streams,     \* what the client may send: sequences of them
          Cuts,        \* how many messages at most arrive in two pieces
          Size         \* BUFSIZE

NUL == 0
EOL == 10
SP == 32
SEP == 58
Visible == Chars \ {SP}

\* A message, and what it says: the method, the URL it names, its headers and its body.
\* plain: every header has its colon and space, and a key of its own; the body is one line
\* without.
MessageRecords ==
  [text : Seq(Chars \ {NUL}), method : Seq(Chars), url : Seq(Chars),
   headers : SUBSET (Seq(Chars) \X Seq(Chars)), body : Seq(Chars), plain : BOOLEAN]

ASSUME SizeAssumption == Size \in Nat \ {0, 1} /\ Cuts \in Nat

\* u spells w, its k-th character from p[k] on: as an escape, or as itself, a letter in either
\* case.  A percent sign stands for itself only where no escape fits.
Spells(u, w, p) ==
  /\ p[1] = 1 /\ p[Len(w) + 1] = Len(u) + 1
  /\ \A k \in 1..Len(w) :
       LET c == p[k] IN
       /\ c <= Len(u)
       /\ IF u[c] = Percent /\ c + 2 <= Len(u)
          THEN /\ HexValue(u[c + 1]) >= 0 /\ HexValue(u[c + 2]) >= 0
               /\ w[k] = 16 * HexValue(u[c + 1]) + HexValue(u[c + 2])
               /\ p[k + 1] = c + 3
          ELSE w[k] = Lower(u[c]) /\ p[k + 1] = c + 1

\* Up to e, m is a line of a method, a URL and more, with blanks at b and d.
LineAt(m, b, d, e) ==
  /\ 1 < b /\ b + 1 < d /\ d < e
  /\ m.text[b] = SP /\ m.text[d] = SP /\ m.text[e] = EOL
  /\ \A j \in 1..(e - 1) : m.text[j] \notin {EOL, SEP} /\ (m.text[j] = SP => j = b \/ j >= d)
  /\ m.method = SubSeq(m.text, 1, b - 1)
  /\ LET u == SubSeq(m.text, b + 1, d - 1) IN
     \E p \in [1..(Len(m.url) + 1) -> 1..(Len(u) + 1)] : Spells(u, m.url, p)

\* The line t is the header h: of its value the blanks around are no part.
Says(t, h) ==
  \E c \in 1..Len(t) :
    /\ t[c] = SEP /\ \A j \in 1..(c - 1) : t[j] # SEP
    /\ h[1] = SubSeq(t, 1, c - 1)
    /\ LET v == SubSeq(t, c + 1, Len(t)) IN
       \/ (\A j \in 1..Len(v) : v[j] = SP) /\ h[2] = <<SP>> \o v
       \/ \E a, b \in 1..Len(v) :
            /\ v[a] # SP /\ v[b] # SP /\ \A j \in 1..Len(v) : v[j] # SP => j \in a..b
            /\ h[2] = SubSeq(v, a, b)

\* The lines of m behind the first one and before z, each with the place of its end.
LinesBefore(m, z) ==
  {l \in (2..z) \X (2..z) :
     /\ l[1] < l[2] /\ m.text[l[1] - 1] = EOL /\ m.text[l[2]] = EOL
     /\ \A j \in l[1]..(l[2] - 1) : m.text[j] # EOL}

Line(m, l) == SubSeq(m.text, l[1], l[2] - 1)

\* The empty line behind m's headers is at z.
PlainAt(m, z) ==
  LET L == LinesBefore(m, z) IN
  /\ m.text[z - 1] = EOL /\ m.text[z] = EOL
  /\ \A j \in 2..(z - 1) : m.text[j - 1] = EOL => m.text[j] # EOL
  /\ m.body = SubSeq(m.text, z + 1, Len(m.text))
  /\ \A j \in (z + 1)..Len(m.text) : m.text[j] \notin {EOL, SEP}
  /\ \A l \in L : \E h \in m.headers : Says(Line(m, l), h)
  /\ \A h \in m.headers : \E l \in L : Says(Line(m, l), h)
  /\ \A l, k \in L : \A h, g \in m.headers :
       Says(Line(m, l), h) /\ Says(Line(m, k), g) /\ h[1] = g[1] => l = k

ASSUME MessagesAssumption ==
  \A m \in Messages :
    /\ m.text \in Seq(Chars \ {NUL}) /\ m.method \in Seq(Chars) /\ m.url \in Seq(Chars)
    /\ m.headers \subseteq Seq(Chars) \X Seq(Chars) /\ m.body \in Seq(Chars)
    /\ \E b, d, e \in 1..Len(m.text) : LineAt(m, b, d, e)
    /\ m.plain => \E z \in 2..Len(m.text) : PlainAt(m, z)

ASSUME StreamsAssumption == Streams \subseteq Seq(Messages)

VARIABLES
  stream,     \* the messages the client sends
  sent,       \* how many it has sent, the last one but for rest
  rest,       \* what has still to arrive of that one
  cuts,       \* how many arrived in two pieces
  net,        \* what has arrived and is unread
  place,      \* idle, read, line, lines, url: where the loop is; out: the answer is sent
  request,    \* conn->request
  pos,        \* where strtok goes on
  method, m_map, content,
  named,      \* conn->filename is not empty
  chunk,      \* what the last read returned
  high,       \* the length of the longest chunk since the slot was reset
  alone,      \* no chunk since then was longer than the last one
  up          \* the process runs

clientVars == <<stream, sent, rest, cuts, net>>
slotVars == <<request, named, high>>
parsedVars == <<method, m_map, content>>
readVars == <<chunk, alone>>
vars == <<urlVars, clientVars, slotVars, parsedVars, readVars, place, pos, up>>

Cleared == [j \in 1..Size |-> NUL]

\* Mutant of Reset: the buffer is not cleared.
ResetKeepsRequest == named' = FALSE /\ high' = 0 /\ UNCHANGED request

\* ClientConnection::reset, the request's part.
Reset == request' = Cleared /\ named' = FALSE /\ high' = 0

(***************************************************************************)
(* The client and the network.                                             *)
(***************************************************************************)
\* They are out of the parser's sight until the next read: that they move only then loses nothing.
clientKeeps ==
  /\ place \in {"idle", "read"} /\ up
  /\ UNCHANGED <<urlVars, stream, slotVars, parsedVars, readVars, place, pos, up>>

\* A message arrives, whole or in part.
Send ==
  /\ rest = <<>> /\ sent < Len(stream)
  /\ sent' = sent + 1
  /\ LET t == stream[sent + 1].text IN
     \E k \in 1..Len(t) :
       /\ net' = net \o SubSeq(t, 1, k) /\ rest' = SubSeq(t, k + 1, Len(t))
       /\ IF k = Len(t) THEN cuts' = cuts ELSE cuts < Cuts /\ cuts' = cuts + 1
  /\ clientKeeps

SendRest ==
  /\ rest # <<>>
  /\ net' = net \o rest /\ rest' = <<>>
  /\ UNCHANGED <<sent, cuts>> /\ clientKeeps

(***************************************************************************)
(* Reading.                                                                *)
(***************************************************************************)
At(p) == up /\ place = p

Event ==
  /\ At("idle") /\ net # <<>>
  /\ place' = "read"
  /\ UNCHANGED <<urlVars, clientVars, slotVars, parsedVars, readVars, pos, up>>

\* Mutant of Taken: no room is left for the NUL.
TakenFull == IF Len(net) < Size THEN Len(net) ELSE Size

Taken == IF Len(net) < Size THEN Len(net) ELSE Size - 1

\* What one read returns is copied over the request before; a new HTTP object parses it.
Read ==
  /\ At("read") /\ net # <<>>
  /\ LET n == Taken IN
     /\ chunk' = SubSeq(net, 1, n) /\ net' = SubSeq(net, n + 1, Len(net))
     /\ request' = [j \in 1..Size |-> IF j <= n THEN net[j] ELSE request[j]]
     /\ high' = IF n > high THEN n ELSE high
     /\ alone' = (n >= high)
  /\ UrlStart(<<>>) /\ method' = <<>> /\ m_map' = {} /\ content' = <<>>
  /\ place' = "line" /\ pos' = 1
  /\ UNCHANGED <<stream, sent, rest, cuts, named, up>>

\* EAGAIN: the connection is registered for output.
ReadEAGAIN ==
  /\ At("read") /\ net = <<>>
  /\ place' = "out"
  /\ UNCHANGED <<urlVars, clientVars, slotVars, parsedVars, readVars, pos, up>>

\* The answer's file is out: the slot is reset and the connection registered for input.
\* Without a file it stays registered for output.
FileSent ==
  /\ At("out") /\ named
  /\ Reset
  /\ place' = "idle"
  /\ UNCHANGED <<urlVars, clientVars, parsedVars, readVars, pos, up>>

(***************************************************************************)
(* prase.                                                                  *)
(***************************************************************************)
\* The first index from p on at which t has one of C, or the end.
Until(t, p, C) ==
  CHOOSE j \in p..(Len(t) + 1) :
    /\ j <= Len(t) => t[j] \in C
    /\ \A k \in p..(j - 1) : t[k] \notin C

\* strtok from pos on finds a token at s..(e - 1), or none.
Token(s, e) ==
  /\ s \in pos..Size /\ e \in (s + 1)..Size
  /\ \A j \in pos..(s - 1) : request[j] = EOL
  /\ \A j \in s..(e - 1) : request[j] \notin {EOL, NUL}
  /\ request[e] \in {EOL, NUL}

NoToken ==
  \E s \in pos..Size : request[s] = NUL /\ \A j \in pos..(s - 1) : request[j] = EOL

\* Mutant of Cut: the next token is sought from the end of this one, where a NUL is now.
CutStays(e) == request' = [request EXCEPT ![e] = NUL] /\ pos' = e

\* It ends the token where the line ends.
Cut(e) ==
  /\ request' = [request EXCEPT ![e] = NUL]
  /\ pos' = IF request[e] = EOL THEN e + 1 ELSE e

parseKeeps == <<clientVars, named, high, readVars, up>>

\* Where a word ends that starts at p: at a blank, the one behind a colon included.
WordEnd(t, p) ==
  LET e == Until(t, p, {SP, SEP}) IN IF e <= Len(t) /\ t[e] = SEP THEN e + 1 ELSE e

\* iss >> method >> url.
RequestLine(t) ==
  LET a == Until(t, 1, Visible)
      b == WordEnd(t, a)
      c == Until(t, b, Visible)
      d == WordEnd(t, c)
  IN method' = SubSeq(t, a, b - 1) /\ UrlStart(SubSeq(t, c, d - 1))

FirstLine ==
  /\ At("line")
  /\ \/ \E s, e \in pos..Size : Token(s, e) /\ RequestLine(SubSeq(request, s, e - 1)) /\ Cut(e)
     \/ NoToken /\ UNCHANGED <<urlVars, request, pos, method>>
  /\ place' = "lines"
  /\ UNCHANGED <<parseKeeps, m_map, content>>

\* Without the blanks around it; the blank of an empty value stays.
Trim(v) ==
  LET seen == {j \in 1..Len(v) : v[j] # SP} IN
  IF seen = {} THEN <<SP>> \o v
  ELSE SubSeq(v, CHOOSE j \in seen : \A k \in seen : j <= k,
                 CHOOSE j \in seen : \A k \in seen : k <= j)

Header(t) ==
  LET c == Until(t, 1, {SEP})
      key == SubSeq(t, 1, c - 1)
  IN /\ c <= Len(t)
     /\ m_map' = {h \in m_map : h[1] # key} \cup {<<key, Trim(SubSeq(t, c + 1, Len(t)))>>}

HeaderLine ==
  /\ At("lines")
  /\ \E s, e \in pos..Size : Token(s, e) /\ Header(SubSeq(request, s, e - 1)) /\ Cut(e)
  /\ UNCHANGED <<parseKeeps, urlVars, method, content, place>>

\* The first line without a colon and space is taken for the body and the last to be read.
Content(t) == Until(t, 1, {SEP}) > Len(t) /\ content' = t

ContentLine ==
  /\ At("lines")
  /\ \E s, e \in pos..Size : Token(s, e) /\ Content(SubSeq(request, s, e - 1)) /\ Cut(e)
  /\ place' = "url"
  /\ UNCHANGED <<parseKeeps, urlVars, method, m_map>>

LinesEnd ==
  /\ At("lines") /\ NoToken
  /\ place' = "url"
  /\ UNCHANGED <<parseKeeps, urlVars, parsedVars, request, pos>>

Decode ==
  /\ At("url") /\ UrlStep
  /\ UNCHANGED <<clientVars, slotVars, parsedVars, readVars, place, pos, up>>

\* What is taken for the body has a brace that closes: up to there a POST's is JSON.
Braced(t) == \E j \in 1..Len(t) : t[j] = 125

\* return_res erases the first character of the URL: of an empty one that ends the
\* process.  So may the body of a POST, by json's type_error when the two strings are not
\* in it.  A GET may leave a file to send, a HEAD never does.
Respond ==
  /\ At("url") /\ UrlRead
  /\ up' \in IF decodedUrl = <<>> THEN {FALSE}
             ELSE IF method = <<80>> /\ Braced(content) THEN BOOLEAN ELSE {TRUE}
  /\ named' \in CASE method = <<71>> -> {named, TRUE}
                  [] method = <<72>> -> {FALSE}
                  [] OTHER -> {named}
  /\ place' = "read"
  /\ UNCHANGED <<urlVars, clientVars, request, high, parsedVars, readVars, pos>>

(***************************************************************************)
(* The specification.                                                      *)
(***************************************************************************)
Init ==
  /\ stream \in Streams /\ sent = 0 /\ rest = <<>> /\ cuts = 0 /\ net = <<>>
  /\ place = "idle" /\ request = Cleared /\ pos = 1
  /\ url = <<>> /\ i = 1 /\ decodedUrl = <<>>
  /\ method = <<>> /\ m_map = {} /\ content = <<>>
  /\ named = FALSE /\ chunk = <<>> /\ high = 0 /\ alone = TRUE /\ up = TRUE

Parse == FirstLine \/ HeaderLine \/ ContentLine \/ LinesEnd \/ Decode \/ Respond

Next == Send \/ SendRest \/ Event \/ Read \/ ReadEAGAIN \/ FileSent \/ Parse

Spec == Init /\ [][Next]_vars

(***************************************************************************)
(* Properties.                                                             *)
(***************************************************************************)
\* Every variable has its type, and the buffer ends in a NUL for strtok to find.
TypeOK ==
  /\ UrlTypeOK
  /\ stream \in Streams /\ sent \in 0..Len(stream) /\ cuts \in 0..Cuts
  /\ rest \in Seq(Chars) /\ net \in Seq(Chars)
  /\ place \in {"idle", "read", "line", "lines", "url", "out"}
  /\ request \in [1..Size -> Chars] /\ request[Size] = NUL /\ pos \in 1..Size
  /\ method \in Seq(Chars) /\ content \in Seq(Chars)
  /\ m_map \in SUBSET (Seq(Chars) \X Seq(Chars))
  /\ named \in BOOLEAN /\ chunk \in Seq(Chars) /\ high \in 0..(Size - 1)
  /\ alone \in BOOLEAN /\ up \in BOOLEAN

\* The chunk read last has been handled.
Handled == chunk # <<>> /\ place \in {"read", "out", "idle"}

Sent == {stream[k] : k \in 1..Len(stream)}

Starts(m) == Len(m.text) <= Len(chunk) /\ SubSeq(chunk, 1, Len(m.text)) = m.text

\* A plain message that one read returns, and that no longer one since the slot was reset
\* precedes, is parsed into what it says: nothing of an earlier request is left in it.
ParsedAsSent ==
  \A m \in Sent :
    Handled /\ alone /\ chunk = m.text /\ m.plain =>
      method = m.method /\ decodedUrl = m.url /\ m_map = m.headers /\ content = m.body

\* Whatever follows a message in the same read, or is left in the buffer by a longer one,
\* its method and its URL are its own.
LineOwn ==
  \A m \in Sent : Handled /\ Starts(m) => method = m.method /\ decodedUrl = m.url

\* What follows m in the chunk, if anything, is a message or the beginning of one.
Followed(m) ==
  \E n \in Sent : \A j \in 1..Len(n.text) :
    Len(m.text) + j <= Len(chunk) => chunk[Len(m.text) + j] = n.text[j]

\* A plain message's headers are its own and no others when messages follow it in the same
\* read: the next one's line is taken for the body, or for the end of it, and ends the headers.
HeadersOwn ==
  \A m \in Sent : Handled /\ Starts(m) /\ Followed(m) /\ alone /\ m.plain => m_map = m.headers

\* The process ends by a request that read returns in pieces or, if what it returns starts
\* with a message, only by a POST, whose own body has a brace if it is all there is to read.
EndedBySplitOrBody ==
  \A m \in Sent :
    ~up /\ Starts(m) =>
      m.method = <<80>> /\ (alone /\ chunk = m.text /\ m.plain => Braced(m.body))

=============================================================================
