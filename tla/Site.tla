-------------------------------- MODULE Site --------------------------------
(***************************************************************************)
(* What the server answers: HTTP::return_res (http.cpp), with the users of *)
(* UserStore, the signed cookies and the compressed copies of pages, and   *)
(* the browsers that follow its redirects and keep its cookies.  Requests  *)
(* are handled one at a time by EventLoop; here an exchange is one step.   *)
(***************************************************************************)
EXTENDS UserStore

CONSTANTS Browsers,
          Pages,       \* the files in the server's directory
          DiskFaults   \* how compressing may fail: "none" (no copy), "partial"

ASSUME PagesAssumption ==
  {"login.html", "welcome.html", "favicon.ico", "star.png"} \subseteq Pages
ASSUME DiskAssumption == DiskFaults \subseteq {"none", "partial"}
ASSUME PageNotNone == NONE \notin Pages \cup {"", "register"}

VARIABLES
  copies,      \* copies[p]: the file p.gz: none, whole or partial
  jar,         \* jar[b]: the user whose cookie browser b sends, or NONE
  crowded,     \* browsers that send another cookie before the server's
  answer,      \* the last answer given, or NONE
  todo,        \* todo[b]: where b is redirected to, or NONE
  hops         \* hops[b]: how many redirects in a row b has followed

browserVars == <<jar, crowded, answer, todo, hops>>
vars == <<storeVars, copies, browserVars>>

(***************************************************************************)
(* Answers.  body: the file sent, or none.  packed: it is the compressed   *)
(* copy; encoded: the header says so.  declared is the Content-Length and  *)
(* sent the length of the body, as zero, that of the file, of a text, or   *)
(* of the error text.  code 0 is an http_code that was never set.          *)
(***************************************************************************)
Lengths == {"zero", "file", "text", "error"}
Answers == [to : Browsers, method : {"GET", "HEAD", "POST", "other"},
            code : {0, 200, 302, 401, 404, 405, 409}, body : Pages \cup {NONE},
            packed : BOOLEAN, encoded : BOOLEAN, declared : Lengths, sent : Lengths]

Plain(b, method, code) ==
  [to |-> b, method |-> method, code |-> code, body |-> NONE, packed |-> FALSE, encoded |-> FALSE,
   declared |-> "zero", sent |-> "zero"]

\* Mutant of Text: the text is left out of the response.
TextUnsent(b, method, code) == [Plain(b, method, code) EXCEPT !.declared = "text"]

Text(b, method, code) == [Plain(b, method, code) EXCEPT !.declared = "text", !.sent = "text"]

\* The length of a text that is not in the response.
Error(b, method, code) == [Plain(b, method, code) EXCEPT !.declared = "error"]

\* Mutant of Public: the login page is left out.
PublicButLogin == {"", "favicon.ico", "register"}

\* public_routes.
Public == {"", "login.html", "favicon.ico", "register"}

\* Mutant of NeedsAuth: nothing does.
NeverNeedsAuth(method, url) == FALSE

NeedsAuth(method, url) == method = "GET" /\ url \notin Public

\* verifySignedCookie: the server's cookie, signed, and first in the Cookie header.  The
\* date in it is not read.
Verified(b) == jar[b] # NONE /\ b \notin crowded

\* The file a URL stands for.
Target(url) ==
  IF url = "" THEN "login.html" ELSE IF url = "download" THEN "star.png" ELSE url

\* Mutant of Packs: the copy is used only if the browser accepts it.
PacksIfAccepted(method, name, gzip) ==
  method = "GET" /\ gzip /\ name \in {"login.html", "welcome.html", "favicon.ico"}

\* The copy p.gz is used: && binds before ||.
Packs(method, name, gzip) ==
  \/ method = "GET" /\ gzip /\ name = "login.html"
  \/ name = "welcome.html" \/ name = "favicon.ico"

\* Content-Encoding: gzip is in the header.
Encoded(name, gzip) ==
  (gzip /\ name = "login.html") \/ name = "welcome.html" \/ name = "favicon.ico"

\* b is sent to url.
Redirected(b, url) ==
  todo' = [todo EXCEPT ![b] = url] /\ hops' = [hops EXCEPT ![b] = @ + 1]

Settled(b) == todo' = [todo EXCEPT ![b] = NONE] /\ hops' = [hops EXCEPT ![b] = 0]

\* Mutant of Bounced: who is logged in is sent to the root.
BouncedHome(b, method, url) ==
  IF url \in {"", "login.html"} /\ Verified(b) THEN "" ELSE NONE

\* How return_res begins, whatever the method.
Bounced(b, method, url) ==
  IF NeedsAuth(method, url) /\ ~Verified(b) THEN "login.html"
  ELSE IF url \in {"", "login.html"} /\ Verified(b) THEN "welcome.html"
  ELSE NONE

\* A HEAD is given no Location.
Bounce(b, method, url) ==
  /\ Bounced(b, method, url) # NONE
  /\ answer' = [Plain(b, method, 302) EXCEPT !.encoded = Encoded(url, FALSE)]
  /\ IF method = "HEAD" THEN Settled(b) ELSE Redirected(b, Bounced(b, method, url))
  /\ UNCHANGED copies

\* gzipCompressFile: the copy, or what is left of it when a step of it fails.
Compress(name) ==
  \E made \in {"whole"} \cup DiskFaults : copies' = [copies EXCEPT ![name] = made]

\* The file, its compressed copy, or nothing that could be found.  A copy is made when
\* there is none, and used if there is one then.
Page(b, method, url, gzip) ==
  LET name == Target(url)
      packs == Packs(method, name, gzip)
      found == [Plain(b, method, 200) EXCEPT
                  !.body = IF method = "GET" THEN name ELSE NONE, !.packed = packs,
                  !.encoded = Encoded(name, gzip), !.declared = "file",
                  !.sent = IF method = "GET" THEN "file" ELSE "zero"]
      lost == [Error(b, method, 404) EXCEPT !.encoded = Encoded(name, gzip)]
  IN /\ Bounced(b, method, url) = NONE
     /\ \/ ~packs /\ UNCHANGED copies /\ answer' = (IF name \in Pages THEN found ELSE lost)
        \/ packs /\ copies[name] # "none" /\ UNCHANGED copies /\ answer' = found
        \/ /\ packs /\ copies[name] = "none"
           /\ Compress(name)
           /\ answer' = (IF copies'[name] = "none" THEN lost ELSE found)
     /\ Settled(b)

\* A request for a page.
Request(b, method, url, gzip) ==
  /\ up
  /\ Bounce(b, method, url) \/ Page(b, method, url, gzip)
  /\ UNCHANGED <<storeVars, jar, crowded>>

URLs == {"", "download", "absent"} \cup Pages

Visit(b) ==
  /\ todo[b] = NONE
  /\ \E method \in {"GET", "HEAD"}, url \in URLs, gzip \in BOOLEAN :
       Request(b, method, url, gzip)

Follow(b) == todo[b] # NONE /\ \E gzip \in BOOLEAN : Request(b, "GET", todo[b], gzip)

(***************************************************************************)
(* POST.                                                                   *)
(***************************************************************************)
\* generateSignedCookie: b's jar takes a cookie for u in place of the one it has.
SignedCookie(b, u) == jar' = [jar EXCEPT ![b] = u]

Posting(b) == up /\ todo[b] = NONE

Login(b, u, p) ==
  /\ Posting(b)
  /\ \/ /\ UserTrue(u, p)
        /\ SignedCookie(b, u)
        /\ answer' = Plain(b, "POST", 302)
        /\ Redirected(b, "welcome.html")
     \/ /\ ~UserTrue(u, p)
        /\ answer' = Text(b, "POST", 401)
        /\ Settled(b)
        /\ UNCHANGED jar
  /\ UNCHANGED <<storeVars, copies, crowded>>

\* registerUser's result is not looked at.
Register(b, u, p) ==
  /\ Posting(b)
  /\ \/ Exists(u) /\ answer' = Text(b, "POST", 409) /\ UNCHANGED storeVars
     \/ /\ ~Exists(u) /\ RegisterUser(u, p)
        /\ IF up' THEN answer' = Text(b, "POST", 200) ELSE UNCHANGED answer
  /\ Settled(b)
  /\ UNCHANGED <<copies, jar, crowded>>

\* POST to any other URL: to uploads the answer is empty, with a cookie login.html
\* redirects, and to the rest http_code is never set.
PostElse(b, url) ==
  /\ Posting(b)
  /\ \/ Bounce(b, "POST", url)
     \/ /\ Bounced(b, "POST", url) = NONE
        /\ IF url = "uploads" THEN answer' = Plain(b, "POST", 200)
           ELSE \E gzip \in BOOLEAN :
                  answer' = [Error(b, "POST", 0) EXCEPT !.sent = "error",
                                                     !.encoded = Encoded(url, gzip)]
        /\ Settled(b) /\ UNCHANGED copies
  /\ UNCHANGED <<storeVars, jar, crowded>>

\* A body without the two strings it should have: json's type_error is not caught.
PostUntyped(b) == Posting(b) /\ Stop /\ UNCHANGED <<copies, browserVars>>

OtherMethod(b, url) ==
  /\ Posting(b)
  /\ \/ Bounce(b, "other", url)
     \/ /\ Bounced(b, "other", url) = NONE
        /\ \E gzip \in BOOLEAN :
             answer' = [Error(b, "other", 405) EXCEPT !.encoded = Encoded(url, gzip)]
        /\ Settled(b) /\ UNCHANGED copies
  /\ UNCHANGED <<storeVars, jar, crowded>>

\* The cookie's Max-Age is over: the browser drops it.
Forget(b) ==
  /\ jar[b] # NONE
  /\ jar' = [jar EXCEPT ![b] = NONE]
  /\ UNCHANGED <<storeVars, copies, crowded, answer, todo, hops>>

(***************************************************************************)
(* The specification.                                                      *)
(***************************************************************************)
Init ==
  /\ StoreInit
  /\ copies = [p \in Pages |-> "none"]
  /\ jar = [b \in Browsers |-> NONE]
  /\ crowded \in SUBSET Browsers
  /\ answer = NONE
  /\ todo = [b \in Browsers |-> NONE] /\ hops = [b \in Browsers |-> 0]

Serve(b) ==
  \/ Visit(b) \/ Follow(b) \/ PostUntyped(b) \/ Forget(b)
  \/ \E u \in Users, p \in Passwords : Login(b, u, p) \/ Register(b, u, p)
  \/ \E url \in {"uploads", "login.html", "absent"} : PostElse(b, url) \/ OtherMethod(b, url)

Next ==
  \/ \E b \in Browsers : Serve(b)
  \/ (Start \/ Stop) /\ UNCHANGED <<copies, browserVars>>

Spec == Init /\ [][Next]_vars

(***************************************************************************)
(* Properties.                                                             *)
(***************************************************************************)
\* Every variable has its type.
TypeOK ==
  /\ StoreTypeOK
  /\ copies \in [Pages -> {"none", "whole", "partial"}]
  /\ jar \in [Browsers -> Users \cup {NONE}]
  /\ crowded \in SUBSET Browsers
  /\ answer \in Answers \cup {NONE}
  /\ todo \in [Browsers -> {"login.html", "welcome.html", NONE}]
  /\ hops \in [Browsers -> Nat]

\* The cookie in every jar names a user of the table, if the table keeps the name as it is.
JarsNamed == \A b \in Browsers : jar[b] \in Kept => Named(jar[b])

\* A page behind the login is sent only to a browser with a cookie, which names a user of
\* the table, through crashes, restarts and registrations that failed.  Names that an
\* INSERT changes are excepted, their row has another.
Guarded ==
  [][\A b \in Browsers :
       /\ up' /\ answer' # NONE /\ answer'.to = b
       /\ answer'.method = "GET" /\ answer'.code = 200 /\ answer'.body \notin Public
       /\ Visit(b) \/ Follow(b)
       => jar[b] # NONE /\ (jar[b] \in Kept => Named(jar[b]))]_vars

\* A login is given a cookie only with a password that stands in the table, if the table
\* keeps name and password as they are.
LoginStored ==
  [][\A b \in Browsers, u \in Users, p \in Passwords :
       jar'[b] # jar[b] /\ Login(b, u, p) /\ {u, p} \subseteq Kept => <<u, p>> \in table]_vars

\* A browser is never sent round in circles: two redirects at most lead to a page, even
\* if its cookie expires on the way.
RedirectsEnd == \A b \in Browsers : hops[b] <= 2

\* A file is sent compressed exactly when the header says so.
EncodedAsSaid ==
  answer # NONE /\ answer.body # NONE => (answer.packed <=> answer.encoded)

\* Content-Length is the length of the body, but for the errors 404 and 405.
Framed ==
  answer # NONE /\ answer.method # "HEAD" /\ answer.code \notin {404, 405}
    => answer.declared = answer.sent

=============================================================================
