----------------------------- MODULE SiteProofs -----------------------------
(***************************************************************************)
(* Theorems about Site, for every number of browsers, users, passwords and *)
(* pages, and whichever statements and compressions fail.                  *)
(***************************************************************************)
EXTENDS Site, TLAPS

\* What the proofs need of the types.
Types == StoreTypeOK /\ jar \in [Browsers -> Users \cup {NONE}]

\* Who is in the map is in the table, with this password or, where an INSERT changes it,
\* with another.
MapNamed == \A u \in Users : u \in Kept /\ user_pass[u] # NONE => Named(u)

\* The map says no more than the table.
MapSound == StoreTypeOK /\ MapInTable /\ MapNamed

\* The inductive invariant: the map is in the table, and so are the users whose cookies
\* are out.  The second needs the first, as a login looks at the map, and the first needs
\* that a failed INSERT leaves the map alone.
Sound == Types /\ MapInTable /\ MapNamed /\ JarsNamed

(***************************************************************************)
(* The users.                                                              *)
(***************************************************************************)
LEMMA StartSound ==
  ASSUME Sound, Start PROVE MapSound' /\ table' = table
<1>1. table' = table /\ con' = "open" /\ up' = TRUE
  BY DEF Start
<1>2. CASE user_pass' \in [Users -> Passwords \cup {NONE}] /\ Loaded(user_pass')
  <2>1. StoreTypeOK'
    BY <1>1, <1>2 DEF Sound, Types, StoreTypeOK
  <2>2. ASSUME NEW u \in Users, user_pass'[u] # NONE
        PROVE  Named(u)' /\ <<u, user_pass'[u]>> \in table'
    BY <1>1, <1>2, <2>2 DEF Loaded, Named
  <2> QED
    BY <1>1, <2>1, <2>2 DEF MapSound, MapInTable, MapNamed
<1>3. CASE user_pass' = NoUsers
  BY <1>1, <1>3 DEF NoUsers, MapSound, MapInTable, MapNamed, Sound, Types, StoreTypeOK
<1> QED
  BY <1>2, <1>3 DEF Start

LEMMA StopSound ==
  ASSUME Sound, Stop PROVE MapSound' /\ table' = table
BY DEF Stop, NoUsers, MapSound, MapInTable, MapNamed, Sound, Types, StoreTypeOK

LEMMA InsertedSound ==
  ASSUME Sound, NEW u \in Users, NEW p \in Passwords, Inserted(u, p)
  PROVE  MapSound' /\ table \subseteq table'
<1>1. PICK row \in Stored(u, Users) \X Stored(p, Passwords) : table' = table \cup {row}
  BY DEF Inserted
<1>2. /\ user_pass \in [Users -> Passwords \cup {NONE}]
      /\ user_pass' = [user_pass EXCEPT ![u] = p] /\ UNCHANGED <<con, up>>
  BY DEF Inserted, Sound, Types, StoreTypeOK
<1>3. row \in Rows /\ (u \in Kept => row[1] = u) /\ (p \in Kept => row[2] = p)
  BY <1>1 DEF Stored, Rows
<1>4. StoreTypeOK'
  BY <1>1, <1>2, <1>3 DEF Sound, Types, StoreTypeOK
<1>5. ASSUME NEW v \in Users, user_pass'[v] # NONE, v \in Kept
      PROVE  Named(v)' /\ (user_pass'[v] \in Kept => <<v, user_pass'[v]>> \in table')
  <2>1. CASE v = u
    <3>1. row = <<v, row[2]>> /\ row[2] \in Passwords
      BY <1>3, <1>5, <2>1 DEF Rows
    <3>2. user_pass'[v] = p
      BY <1>2, <2>1
    <3> QED
      BY <1>1, <1>3, <3>1, <3>2 DEF Named
  <2>2. CASE v # u
    <3>1. user_pass'[v] = user_pass[v]
      BY <1>2, <2>2
    <3> QED
      BY <1>1, <1>5, <3>1 DEF Sound, MapInTable, MapNamed, Named
  <2> QED
    BY <2>1, <2>2
<1> QED
  BY <1>1, <1>4, <1>5 DEF MapSound, MapInTable, MapNamed

LEMMA RegisterUserSound ==
  ASSUME Sound, NEW u \in Users, NEW p \in Passwords, RegisterUser(u, p)
  PROVE  MapSound' /\ table \subseteq table'
<1>1. CASE Inserted(u, p)
  BY <1>1, InsertedSound
<1>2. CASE InsertFails(u, p)
  <2>1. UNCHANGED <<table, user_pass, up>> /\ con' = "closed"
    BY <1>2 DEF InsertFails
  <2> QED
    BY <2>1 DEF MapSound, MapInTable, MapNamed, Named, Sound, Types, StoreTypeOK
<1>3. CASE Stop
  BY <1>3, StopSound
<1> QED
  BY <1>1, <1>2, <1>3 DEF RegisterUser

\* A user of the table stays one.
LEMMA NamedStays ==
  ASSUME table \subseteq table', NEW u, Named(u) PROVE Named(u)'
BY DEF Named

(***************************************************************************)
(* The steps.                                                              *)
(***************************************************************************)
LEMMA InitSound == Init => Sound
<1> SUFFICES ASSUME Init PROVE Sound
  OBVIOUS
<1>1. StoreTypeOK /\ MapInTable /\ MapNamed
  BY DEF Init, StoreInit, NoUsers, StoreTypeOK, MapInTable, MapNamed
<1>2. NONE \notin Kept
  BY UsersAssumption, KeptAssumption
<1> QED
  BY <1>1, <1>2 DEF Init, Sound, Types, JarsNamed

LEMMA SoundStep == Sound /\ [Next]_vars => Sound'
<1> SUFFICES ASSUME Sound, [Next]_vars PROVE Sound'
  OBVIOUS
<1>0. /\ StoreTypeOK /\ MapInTable /\ MapNamed /\ JarsNamed
      /\ jar \in [Browsers -> Users \cup {NONE}]
  BY DEF Sound, Types
\* The jars are left alone and the table keeps its rows.
<1>1. ASSUME MapSound', table \subseteq table', UNCHANGED jar
      PROVE  Sound'
  BY <1>0, <1>1, NamedStays DEF MapSound, Sound, Types, JarsNamed
<1>2. ASSUME UNCHANGED storeVars PROVE MapSound' /\ table \subseteq table'
  BY <1>0, <1>2 DEF storeVars, MapSound, StoreTypeOK, MapInTable, MapNamed, Named
<1>3. CASE UNCHANGED vars
  BY <1>1, <1>2, <1>3 DEF vars, browserVars
<1>4. CASE (Start \/ Stop) /\ UNCHANGED <<copies, browserVars>>
  BY <1>1, <1>4, StartSound, StopSound DEF browserVars
<1>5. ASSUME NEW b \in Browsers, Visit(b) \/ Follow(b) PROVE Sound'
  BY <1>1, <1>2, <1>5 DEF Visit, Follow, Request
<1>6. ASSUME NEW b \in Browsers, PostUntyped(b) PROVE Sound'
  BY <1>1, <1>6, StopSound DEF PostUntyped, browserVars
<1>7. ASSUME NEW b \in Browsers, NEW url, PostElse(b, url) \/ OtherMethod(b, url)
      PROVE  Sound'
  BY <1>1, <1>2, <1>7 DEF PostElse, OtherMethod
<1>8. ASSUME NEW b \in Browsers, Forget(b) PROVE Sound'
  <2>1. jar' = [jar EXCEPT ![b] = NONE] /\ UNCHANGED storeVars
    BY <1>8 DEF Forget
  <2>2. JarsNamed'
    BY <1>0, <2>1, UsersAssumption, KeptAssumption DEF JarsNamed, Named, storeVars
  <2> QED
    BY <1>0, <1>2, <2>1, <2>2 DEF MapSound, Sound, Types
<1>9. ASSUME NEW b \in Browsers, NEW u \in Users, NEW p \in Passwords, Login(b, u, p)
      PROVE  Sound'
  <2>1. UNCHANGED storeVars
    BY <1>9 DEF Login, SignedCookie
  <2>2. CASE UNCHANGED jar
    BY <1>1, <1>2, <2>1, <2>2
  <2>3. CASE UserTrue(u, p) /\ jar' = [jar EXCEPT ![b] = u]
    <3>1. u \in Kept => Named(u)
      BY <1>0, <2>3, UsersAssumption DEF UserTrue, MapNamed
    <3>2. JarsNamed'
      BY <1>0, <2>1, <2>3, <3>1 DEF JarsNamed, Named, storeVars
    <3> QED
      BY <1>0, <1>2, <2>1, <2>3, <3>2 DEF MapSound, Sound, Types
  <2> QED
    BY <1>9, <2>2, <2>3 DEF Login, SignedCookie
<1>10. ASSUME NEW b \in Browsers, NEW u \in Users, NEW p \in Passwords, Register(b, u, p)
       PROVE  Sound'
  BY <1>1, <1>2, <1>10, RegisterUserSound DEF Register
<1> QED
  BY <1>3, <1>4, <1>5, <1>6, <1>7, <1>8, <1>9, <1>10 DEF Next, Serve

LEMMA AlwaysSound == Spec => []Sound
BY InitSound, SoundStep, PTL DEF Spec

\* The map of users never says more than the table of the texts an INSERT keeps as they
\* are, however often statements fail and the process restarts (sqlconn.cpp, registerUser
\* and getUser).
THEOREM MapCorrect == Spec => []MapInTable
<1>1. Sound => MapInTable
  BY DEF Sound
<1> QED
  BY <1>1, AlwaysSound, PTL

(***************************************************************************)
(* What is behind the login.                                               *)
(***************************************************************************)
\* A request answered with a file that is not public comes with a verified cookie.
LEMMA FileVerified ==
  ASSUME NEW b, NEW method, NEW url, NEW gzip, Request(b, method, url, gzip),
         answer'.method = "GET", answer'.code = 200, answer'.body \notin Public
  PROVE  jar[b] # NONE
<1>1. CASE Bounce(b, method, url)
  BY <1>1 DEF Bounce, Plain
<1>2. CASE Page(b, method, url, gzip)
  <2> DEFINE name == Target(url)
             packs == Packs(method, name, gzip)
             found == [Plain(b, method, 200) EXCEPT
                         !.body = IF method = "GET" THEN name ELSE NONE, !.packed = packs,
                         !.encoded = Encoded(name, gzip), !.declared = "file",
                         !.sent = IF method = "GET" THEN "file" ELSE "zero"]
             lost == [Error(b, method, 404) EXCEPT !.encoded = Encoded(name, gzip)]
  <2>1. answer' = found \/ answer' = lost
    BY <1>2 DEF Page, Compress
  <2>2. lost.code = 404
    BY DEF Error, Plain
  <2>3. found.method = method /\ found.body = IF method = "GET" THEN name ELSE NONE
    BY DEF Plain
  <2>4. method = "GET" /\ name \notin Public
    <3> HIDE DEF found, lost, name
    <3>1. answer' = found
      BY <2>1, <2>2
    <3> QED
      BY <2>3, <3>1
  <2>5. url \notin Public
    BY <2>4 DEF Target, Public
  <2>6. NeedsAuth(method, url)
    BY <2>4, <2>5 DEF NeedsAuth
  <2>7. Bounced(b, method, url) = NONE
    BY <1>2 DEF Page, Compress
  <2>8. CASE Verified(b)
    BY <2>8 DEF Verified
  <2>9. CASE ~Verified(b)
    <3>1. Bounced(b, method, url) = "login.html"
      BY <2>6, <2>9 DEF Bounced
    <3> QED
      BY <2>7, <3>1, PageNotNone, PagesAssumption
  <2> QED
    BY <2>8, <2>9
<1> QED
  BY <1>1, <1>2 DEF Request

LEMMA GuardedStep == Sound /\ [Next]_vars =>
  [\A b \in Browsers :
     /\ up' /\ answer' # NONE /\ answer'.to = b
     /\ answer'.method = "GET" /\ answer'.code = 200 /\ answer'.body \notin Public
     /\ Visit(b) \/ Follow(b)
     => jar[b] # NONE /\ (jar[b] \in Kept => Named(jar[b]))]_vars
<1> SUFFICES ASSUME Sound, NEW b \in Browsers, Visit(b) \/ Follow(b),
                    answer'.method = "GET", answer'.code = 200, answer'.body \notin Public
             PROVE  jar[b] # NONE /\ (jar[b] \in Kept => Named(jar[b]))
  OBVIOUS
<1>1. PICK method, url, gzip : Request(b, method, url, gzip)
  BY DEF Visit, Follow
<1>2. jar[b] # NONE
  BY <1>1, FileVerified
<1> QED
  BY <1>2 DEF Sound, JarsNamed

\* A page behind the login is sent only to a browser with a cookie, which names a user of
\* the table unless an INSERT changes the name (return_res and verifySignedCookie).
THEOREM GuardedCorrect == Spec => Guarded
BY AlwaysSound, GuardedStep, PTL DEF Spec, Guarded

\* A login is given a cookie only with a password of the table, unless an INSERT changes
\* it or the name (is_user_true).
THEOREM LoginCorrect == Spec => LoginStored
<1>1. Sound /\ [Next]_vars =>
        [\A b \in Browsers, u \in Users, p \in Passwords :
           jar'[b] # jar[b] /\ Login(b, u, p) /\ {u, p} \subseteq Kept
             => <<u, p>> \in table]_vars
  <2> SUFFICES ASSUME Sound, NEW b \in Browsers, NEW u \in Users, NEW p \in Passwords,
                      jar'[b] # jar[b], Login(b, u, p), {u, p} \subseteq Kept
               PROVE  <<u, p>> \in table
    OBVIOUS
  <2>1. UserTrue(u, p)
    BY DEF Login, SignedCookie
  <2> QED
    BY <2>1, UsersAssumption DEF UserTrue, Sound, MapInTable
<1> QED
  BY <1>1, AlwaysSound, PTL DEF Spec, LoginStored

(***************************************************************************)
(* Answers and redirects.                                                  *)
(***************************************************************************)
\* The login page leads on only with a cookie, which a browser on its way there does not
\* have and cannot get, so that a browser follows one redirect to welcome.html at most,
\* and another back if the cookie expires in between.
OnTheWay ==
  \A b \in Browsers :
    /\ todo[b] = NONE => hops[b] = 0
    /\ todo[b] = "welcome.html" => hops[b] = 1
    /\ todo[b] = "login.html" => hops[b] \in {1, 2} /\ ~Verified(b)

\* What an answer may be.
AnswerOK(a) ==
  /\ a \in Answers \cup {NONE}
  /\ a # NONE /\ a.body # NONE => (a.packed <=> a.encoded)
  /\ a # NONE /\ a.method # "HEAD" /\ a.code \notin {404, 405} => a.declared = a.sent

\* The inductive invariant of the redirects.
Routed == TypeOK /\ OnTheWay /\ AnswerOK(answer)

LEMMA FieldOf ==
  ASSUME NEW a \in Answers
  PROVE  /\ \A x \in BOOLEAN : [a EXCEPT !.encoded = x] \in Answers
         /\ \A x \in BOOLEAN : [a EXCEPT !.packed = x] \in Answers
         /\ \A x \in Lengths : [a EXCEPT !.declared = x] \in Answers
         /\ \A x \in Lengths : [a EXCEPT !.sent = x] \in Answers
         /\ \A x \in Pages \cup {NONE} : [a EXCEPT !.body = x] \in Answers
<1>1. ASSUME NEW x \in BOOLEAN PROVE [a EXCEPT !.encoded = x] \in Answers
  BY DEF Answers
<1>2. ASSUME NEW x \in BOOLEAN PROVE [a EXCEPT !.packed = x] \in Answers
  BY DEF Answers
<1>3. ASSUME NEW x \in Lengths PROVE [a EXCEPT !.declared = x] \in Answers
  BY DEF Answers
<1>4. ASSUME NEW x \in Lengths PROVE [a EXCEPT !.sent = x] \in Answers
  BY DEF Answers
<1>5. ASSUME NEW x \in Pages \cup {NONE} PROVE [a EXCEPT !.body = x] \in Answers
  BY DEF Answers
<1> QED
  BY <1>1, <1>2, <1>3, <1>4, <1>5

LEMMA PlainTyped ==
  ASSUME NEW b \in Browsers, NEW method \in {"GET", "HEAD", "POST", "other"},
         NEW code \in {0, 200, 302, 401, 404, 405, 409}
  PROVE  Plain(b, method, code) \in Answers
BY DEF Plain, Answers, Lengths

LEMMA EmptyOK ==
  ASSUME NEW b \in Browsers, NEW method \in {"GET", "HEAD", "POST", "other"},
         NEW code \in {0, 200, 302, 401, 404, 405, 409}, NEW e \in BOOLEAN
  PROVE  AnswerOK([Plain(b, method, code) EXCEPT !.encoded = e])
<1> DEFINE a == [Plain(b, method, code) EXCEPT !.encoded = e]
<1>1. a \in Answers
  BY PlainTyped, FieldOf
<1>2. a.body = NONE /\ a.declared = "zero" /\ a.sent = "zero"
  BY DEF Plain
<1> HIDE DEF a
<1>3. AnswerOK(a)
  BY <1>1, <1>2 DEF AnswerOK
<1> QED
  BY <1>3 DEF a

LEMMA RedirectOK ==
  ASSUME NEW b \in Browsers, NEW method \in {"GET", "HEAD", "POST", "other"},
         NEW code \in {0, 200, 302, 401, 404, 405, 409}
  PROVE  AnswerOK(Plain(b, method, code))
<1> DEFINE a == Plain(b, method, code)
<1>1. a \in Answers
  BY PlainTyped
<1>2. a.body = NONE /\ a.declared = "zero" /\ a.sent = "zero"
  BY DEF Plain
<1> HIDE DEF a
<1>3. AnswerOK(a)
  BY <1>1, <1>2 DEF AnswerOK
<1> QED
  BY <1>3 DEF a

LEMMA TextOK ==
  ASSUME NEW b \in Browsers, NEW method \in {"GET", "HEAD", "POST", "other"},
         NEW code \in {0, 200, 302, 401, 404, 405, 409}
  PROVE  AnswerOK(Text(b, method, code))
<1> DEFINE t == [Plain(b, method, code) EXCEPT !.declared = "text"]
           a == Text(b, method, code)
<1>0. Plain(b, method, code) \in Answers /\ "text" \in Lengths
  BY PlainTyped DEF Lengths
<1>1. t \in Answers /\ a = [t EXCEPT !.sent = "text"]
  BY <1>0, FieldOf DEF Text
<1>2. a.body = NONE /\ a.declared = "text" /\ a.sent = "text"
  BY DEF Plain, Text
<1> HIDE DEF t, a
<1>3. a \in Answers
  BY <1>0, <1>1, FieldOf
<1>4. AnswerOK(a)
  BY <1>2, <1>3 DEF AnswerOK
<1> QED
  BY <1>4 DEF a

LEMMA ErrorTyped ==
  ASSUME NEW b \in Browsers, NEW method \in {"GET", "HEAD", "POST", "other"},
         NEW code \in {0, 200, 302, 401, 404, 405, 409}
  PROVE  Error(b, method, code) \in Answers
<1>1. Plain(b, method, code) \in Answers /\ "error" \in Lengths
  BY PlainTyped DEF Lengths
<1> QED
  BY <1>1, FieldOf DEF Error

LEMMA LostOK ==
  ASSUME NEW b \in Browsers, NEW method \in {"GET", "HEAD", "POST", "other"},
         NEW code \in {404, 405}, NEW e \in BOOLEAN
  PROVE  AnswerOK([Error(b, method, code) EXCEPT !.encoded = e])
<1> DEFINE t == Error(b, method, code)
           a == [t EXCEPT !.encoded = e]
<1>1. t \in Answers
  BY ErrorTyped
<1>2. a.body = NONE /\ a.code = code
  BY DEF Plain, Error
<1> HIDE DEF t
<1>3. a \in Answers
  BY <1>1, FieldOf
<1> HIDE DEF a
<1>4. AnswerOK(a)
  BY <1>2, <1>3 DEF AnswerOK
<1> QED
  BY <1>4 DEF a, t

LEMMA UnsetOK ==
  ASSUME NEW b \in Browsers, NEW e \in BOOLEAN
  PROVE  AnswerOK([Error(b, "POST", 0) EXCEPT !.sent = "error", !.encoded = e])
<1> DEFINE t == Error(b, "POST", 0)
           u == [t EXCEPT !.sent = "error"]
           a == [t EXCEPT !.sent = "error", !.encoded = e]
<1>1. t \in Answers /\ "error" \in Lengths
  BY ErrorTyped DEF Lengths
<1>2. a.body = NONE /\ a.declared = "error" /\ a.sent = "error"
  BY DEF Plain, Error
<1> HIDE DEF t
<1>3. u \in Answers /\ a = [u EXCEPT !.encoded = e]
  BY <1>1, FieldOf
<1> HIDE DEF u, a
<1>4. a \in Answers
  BY <1>3, FieldOf
<1>5. AnswerOK(a)
  BY <1>2, <1>4 DEF AnswerOK
<1> QED
  BY <1>5 DEF a, t

LEMMA EncodedType == \A name, gzip : Encoded(name, gzip) \in BOOLEAN
BY DEF Encoded

LEMMA BounceStep ==
  ASSUME NEW b \in Browsers, NEW method \in {"GET", "HEAD", "POST", "other"}, NEW url,
         Bounce(b, method, url)
  PROVE  /\ AnswerOK(answer') /\ UNCHANGED copies
         /\ \/ Settled(b)
            \/ /\ Redirected(b, Bounced(b, method, url))
               /\ Bounced(b, method, url) \in {"login.html", "welcome.html"}
<1>1. PICK e \in BOOLEAN : answer' = [Plain(b, method, 302) EXCEPT !.encoded = e]
  BY EncodedType DEF Bounce
<1>2. AnswerOK([Plain(b, method, 302) EXCEPT !.encoded = e])
  BY EmptyOK
<1>3. AnswerOK(answer')
  BY <1>1, <1>2
<1> QED
  BY <1>3 DEF Bounce, Bounced

LEMMA PageStep ==
  ASSUME NEW b \in Browsers, NEW method \in {"GET", "HEAD"}, NEW url, NEW gzip \in BOOLEAN,
         copies \in [Pages -> {"none", "whole", "partial"}], Page(b, method, url, gzip)
  PROVE  /\ AnswerOK(answer') /\ Settled(b)
         /\ copies' \in [Pages -> {"none", "whole", "partial"}]
<1> DEFINE name == Target(url)
           packs == Packs(method, name, gzip)
           found == [Plain(b, method, 200) EXCEPT
                       !.body = IF method = "GET" THEN name ELSE NONE, !.packed = packs,
                       !.encoded = Encoded(name, gzip), !.declared = "file",
                       !.sent = IF method = "GET" THEN "file" ELSE "zero"]
           lost == [Error(b, method, 404) EXCEPT !.encoded = Encoded(name, gzip)]
<1>1. AnswerOK(lost)
  <2>1. PICK e \in BOOLEAN : lost = [Error(b, method, 404) EXCEPT !.encoded = e]
    BY EncodedType
  <2>2. AnswerOK([Error(b, method, 404) EXCEPT !.encoded = e])
    BY LostOK
  <2> QED
    BY <2>1, <2>2
<1>2. packs => name \in Pages
  BY PagesAssumption DEF Packs
<1>3. name \in Pages => AnswerOK(found)
  <2>1. packs \in BOOLEAN /\ Encoded(name, gzip) \in BOOLEAN
    BY DEF Packs, Encoded
  <2>2. method = "GET" => (packs <=> Encoded(name, gzip))
    BY DEF Packs, Encoded
  <2> SUFFICES ASSUME name \in Pages PROVE AnswerOK(found)
    OBVIOUS
  <2>3. found \in Answers
    <3> DEFINE body == IF method = "GET" THEN name ELSE NONE
               n == IF method = "GET" THEN "file" ELSE "zero"
               e == Encoded(name, gzip)
               f1 == [Plain(b, method, 200) EXCEPT !.body = body]
               f2 == [f1 EXCEPT !.packed = packs]
               f3 == [f2 EXCEPT !.encoded = e]
               f4 == [f3 EXCEPT !.declared = "file"]
    <3>1. body \in Pages \cup {NONE} /\ n \in Lengths /\ "file" \in Lengths
          /\ packs \in BOOLEAN /\ e \in BOOLEAN
      BY <2>1 DEF Lengths
    <3>2. found = [f4 EXCEPT !.sent = n]
      OBVIOUS
    <3> HIDE DEF found, packs, name, body, n, e
    <3>3. Plain(b, method, 200) \in Answers
      BY DEF Plain, Answers, Lengths
    <3>4. f1 \in Answers
      BY <3>1, <3>3, FieldOf
    <3> HIDE DEF f1
    <3>5. f2 \in Answers
      BY <3>1, <3>4, FieldOf
    <3> HIDE DEF f2
    <3>6. f3 \in Answers
      BY <3>1, <3>5, FieldOf
    <3> HIDE DEF f3
    <3>7. f4 \in Answers
      BY <3>1, <3>6, FieldOf
    <3> HIDE DEF f4
    <3> QED
      BY <3>1, <3>2, <3>7, FieldOf
  <2>4. /\ found.method = method /\ found.declared = "file"
        /\ found.sent = (IF method = "GET" THEN "file" ELSE "zero")
        /\ found.body = (IF method = "GET" THEN name ELSE NONE)
    <3> HIDE DEF packs, name
    <3> QED
      BY DEF Plain
  <2>5. found.packed = packs /\ found.encoded = Encoded(name, gzip)
    <3> HIDE DEF packs, name
    <3> QED
      BY <2>1 DEF Plain
  <2> HIDE DEF found, packs, name
  <2>6. AnswerOK(found)
    BY <2>2, <2>3, <2>4, <2>5 DEF AnswerOK
  <2> QED
    BY <2>6
<1>4. \/ answer' = lost
      \/ answer' = found /\ name \in Pages
  BY <1>2 DEF Page, Compress
<1>5. copies' \in [Pages -> {"none", "whole", "partial"}]
  BY <1>2, DiskAssumption DEF Page, Compress
<1> HIDE DEF found, lost
<1> QED
  BY <1>1, <1>3, <1>4, <1>5 DEF Page

\* A step that leaves every answer and redirect as it must be.
LEMMA MovedRouted ==
  ASSUME Routed, NEW b \in Browsers, StoreTypeOK', UNCHANGED crowded,
         AnswerOK(answer'), copies' \in [Pages -> {"none", "whole", "partial"}],
         jar' \in [Browsers -> Users \cup {NONE}],
         \A c \in Browsers : jar'[c] = jar[c] \/ jar'[c] = NONE \/ todo'[c] # "login.html",
         \/ UNCHANGED <<todo, hops>>
         \/ Settled(b)
         \/ todo[b] = NONE /\ Redirected(b, "welcome.html")
         \/ todo[b] = NONE /\ Redirected(b, "login.html") /\ ~Verified(b) /\ jar' = jar
         \/ todo[b] = "welcome.html" /\ Redirected(b, "login.html") /\ ~Verified(b) /\ jar' = jar
  PROVE  Routed'
<1>1. /\ todo \in [Browsers -> {"login.html", "welcome.html", NONE}] /\ hops \in [Browsers -> Nat]
      /\ jar \in [Browsers -> Users \cup {NONE}] /\ crowded \in SUBSET Browsers
  BY DEF Routed, TypeOK
<1>2. /\ todo' \in [Browsers -> {"login.html", "welcome.html", NONE}] /\ hops' \in [Browsers -> Nat]
  BY <1>1 DEF Settled, Redirected
<1>3. TypeOK'
  <2>1. answer' \in Answers \cup {NONE}
    BY DEF AnswerOK
  <2> QED
    BY <1>1, <1>2, <2>1 DEF TypeOK
<1>4. ASSUME NEW c \in Browsers, c # b PROVE todo'[c] = todo[c] /\ hops'[c] = hops[c]
  BY <1>1, <1>4 DEF Settled, Redirected
<1>5. \/ todo'[b] = todo[b] /\ hops'[b] = hops[b]
      \/ todo'[b] = NONE /\ hops'[b] = 0
      \/ todo'[b] = "welcome.html" /\ hops'[b] = 1
      \/ todo'[b] = "login.html" /\ hops'[b] \in {1, 2} /\ ~Verified(b) /\ jar' = jar
  BY <1>1 DEF Settled, Redirected, Routed, OnTheWay
<1>6. ASSUME NEW c \in Browsers, ~Verified(c), todo'[c] = "login.html" PROVE ~Verified(c)'
  BY <1>1, <1>6 DEF Verified
<1>7. OnTheWay'
  <2>1. NONE \notin {"welcome.html", "login.html"}
    BY PageNotNone, PagesAssumption
  <2>2. ASSUME NEW c \in Browsers
        PROVE  /\ todo'[c] = NONE => hops'[c] = 0
               /\ todo'[c] = "welcome.html" => hops'[c] = 1
               /\ todo'[c] = "login.html" => hops'[c] \in {1, 2}
    BY <1>4, <1>5, <2>1 DEF Routed, OnTheWay
  <2>3. ASSUME NEW c \in Browsers, todo'[c] = "login.html" PROVE ~Verified(c)'
    <3>1. ~Verified(c)
      BY <1>4, <1>5, <2>1, <2>3 DEF Routed, OnTheWay
    <3> QED
      BY <1>6, <2>3, <3>1
  <2> QED
    BY <2>2, <2>3 DEF OnTheWay
<1> QED
  BY <1>3, <1>7 DEF Routed

LEMMA RequestRouted ==
  ASSUME Routed, NEW b \in Browsers, NEW method \in {"GET", "HEAD"}, NEW url,
         NEW gzip \in BOOLEAN, Request(b, method, url, gzip),
         todo[b] = NONE \/ (method = "GET" /\ todo[b] = url)
  PROVE  Routed'
<1>0. NONE \notin {"login.html", "welcome.html"}
  BY PageNotNone, PagesAssumption
<1>1. /\ StoreTypeOK' /\ UNCHANGED <<crowded, jar>> /\ copies \in [Pages -> {"none", "whole", "partial"}]
      /\ jar \in [Browsers -> Users \cup {NONE}]
      /\ todo[b] \in {"login.html", "welcome.html", NONE}
  BY DEF Request, Routed, TypeOK, StoreTypeOK, storeVars
<1>2. CASE Page(b, method, url, gzip)
  <2>1. /\ AnswerOK(answer') /\ Settled(b) /\ copies' \in [Pages -> {"none", "whole", "partial"}]
    BY <1>1, <1>2, PageStep
  <2> QED
    BY <1>1, <2>1, MovedRouted
<1>3. CASE Bounce(b, method, url)
  <2>1. /\ AnswerOK(answer') /\ UNCHANGED copies
        /\ \/ Settled(b)
           \/ /\ Redirected(b, Bounced(b, method, url))
              /\ Bounced(b, method, url) \in {"login.html", "welcome.html"}
    BY <1>3, BounceStep
  <2>2. CASE Settled(b)
    BY <1>1, <2>1, <2>2, MovedRouted
  <2>3. CASE /\ Redirected(b, Bounced(b, method, url))
             /\ Bounced(b, method, url) = "login.html"
    <3>1. ~Verified(b) /\ NeedsAuth(method, url)
      BY <1>0, <2>3 DEF Bounced
    <3>2. todo[b] # "login.html"
      BY <1>0, <3>1 DEF NeedsAuth, Public, Routed, OnTheWay
    <3> QED
      BY <1>1, <2>1, <2>3, <3>1, <3>2, MovedRouted
  <2>4. CASE /\ Redirected(b, Bounced(b, method, url))
             /\ Bounced(b, method, url) = "welcome.html"
    <3>1. Verified(b) /\ url \in {"", "login.html"}
      BY <1>0, <2>4 DEF Bounced
    <3>2. todo[b] = NONE
      BY <1>1, <3>1 DEF Routed, OnTheWay
    <3> QED
      BY <1>1, <2>1, <2>4, <3>2, MovedRouted
  <2> QED
    BY <2>1, <2>2, <2>3, <2>4
<1> QED
  BY <1>2, <1>3 DEF Request

LEMMA PostRouted ==
  ASSUME Routed, NEW b \in Browsers, NEW url \in {"uploads", "login.html", "absent"},
         PostElse(b, url) \/ OtherMethod(b, url)
  PROVE  Routed'
<1>1. /\ StoreTypeOK' /\ UNCHANGED <<crowded, jar>> /\ copies \in [Pages -> {"none", "whole", "partial"}]
      /\ jar \in [Browsers -> Users \cup {NONE}] /\ todo[b] = NONE
  BY DEF PostElse, OtherMethod, Posting, Routed, TypeOK, StoreTypeOK, storeVars
<1>2. ASSUME NEW method \in {"POST", "other"}, Bounce(b, method, url) PROVE Routed'
  <2>1. /\ AnswerOK(answer') /\ UNCHANGED copies
        /\ Settled(b) \/ Redirected(b, Bounced(b, method, url))
    BY <1>2, BounceStep
  <2>2. Bounced(b, method, url) # NONE /\ ~NeedsAuth(method, url)
    BY <1>2 DEF Bounce, NeedsAuth
  <2>3. Bounced(b, method, url) = "welcome.html"
    BY <2>2 DEF Bounced
  <2> QED
    BY <1>1, <2>1, <2>3, MovedRouted
<1>3. ASSUME UNCHANGED copies, Settled(b), AnswerOK(answer') PROVE Routed'
  BY <1>1, <1>3, MovedRouted
<1>4. CASE PostElse(b, url)
  <2>1. CASE Bounce(b, "POST", url)
    BY <1>2, <2>1
  <2>2. CASE answer' = Plain(b, "POST", 200) /\ Settled(b) /\ UNCHANGED copies
    <3>1. AnswerOK(answer')
      BY <2>2, RedirectOK
    <3> QED
      BY <1>3, <2>2, <3>1
  <2>3. CASE /\ Settled(b) /\ UNCHANGED copies
             /\ \E gzip \in BOOLEAN :
                  answer' = [Error(b, "POST", 0) EXCEPT !.sent = "error", !.encoded = Encoded(url, gzip)]
    <3>1. PICK e \in BOOLEAN : answer' = [Error(b, "POST", 0) EXCEPT !.sent = "error", !.encoded = e]
      BY <2>3, EncodedType
    <3>2. AnswerOK(answer')
      BY <3>1, UnsetOK
    <3> QED
      BY <1>3, <2>3, <3>2
  <2> QED
    BY <1>4, <2>1, <2>2, <2>3 DEF PostElse
<1>5. CASE OtherMethod(b, url)
  <2>1. CASE Bounce(b, "other", url)
    BY <1>2, <2>1
  <2>2. CASE /\ Settled(b) /\ UNCHANGED copies
             /\ \E gzip \in BOOLEAN :
                  answer' = [Error(b, "other", 405) EXCEPT !.encoded = Encoded(url, gzip)]
    <3>1. PICK e \in BOOLEAN : answer' = [Error(b, "other", 405) EXCEPT !.encoded = e]
      BY <2>2, EncodedType
    <3>2. AnswerOK(answer')
      BY <3>1, LostOK
    <3> QED
      BY <1>3, <2>2, <3>2
  <2> QED
    BY <1>5, <2>1, <2>2 DEF OtherMethod
<1> QED
  BY <1>4, <1>5

LEMMA UsersRouted ==
  ASSUME Routed, Sound, Sound', NEW b \in Browsers, NEW u \in Users, NEW p \in Passwords,
         Login(b, u, p) \/ Register(b, u, p)
  PROVE  Routed'
<1>1. /\ StoreTypeOK' /\ UNCHANGED <<crowded, copies>> /\ copies \in [Pages -> {"none", "whole", "partial"}]
      /\ jar \in [Browsers -> Users \cup {NONE}] /\ jar' \in [Browsers -> Users \cup {NONE}]
      /\ todo[b] = NONE /\ todo \in [Browsers -> {"login.html", "welcome.html", NONE}]
      /\ AnswerOK(answer)
  BY DEF Login, Register, Posting, Routed, TypeOK, Sound, Types
<1>2. CASE Login(b, u, p)
  <2>1. CASE /\ jar' = [jar EXCEPT ![b] = u] /\ answer' = Plain(b, "POST", 302)
             /\ Redirected(b, "welcome.html")
    <3>1. AnswerOK(answer')
      BY <2>1, RedirectOK
    <3>2. \A c \in Browsers : jar'[c] = jar[c] \/ todo'[c] # "login.html"
      BY <1>1, <2>1 DEF Redirected
    <3> QED
      BY <1>1, <2>1, <3>1, <3>2, MovedRouted
  <2>2. CASE answer' = Text(b, "POST", 401) /\ Settled(b) /\ UNCHANGED jar
    <3>1. AnswerOK(answer')
      BY <2>2, TextOK
    <3> QED
      BY <1>1, <2>2, <3>1, MovedRouted
  <2> QED
    BY <1>2, <2>1, <2>2 DEF Login, SignedCookie
<1>3. CASE Register(b, u, p)
  <2>1. Settled(b) /\ UNCHANGED jar
    BY <1>3 DEF Register
  <2>2. AnswerOK(Text(b, "POST", 409)) /\ AnswerOK(Text(b, "POST", 200))
    BY TextOK
  <2>3. AnswerOK(answer')
    BY <1>1, <1>3, <2>2 DEF Register
  <2> QED
    BY <1>1, <2>1, <2>3, MovedRouted
<1> QED
  BY <1>2, <1>3

LEMMA RoutedInit == Init => Routed
<1> SUFFICES ASSUME Init PROVE Routed
  OBVIOUS
<1>1. NONE \notin {"login.html", "welcome.html"}
  BY PageNotNone, PagesAssumption
<1>2. StoreTypeOK
  BY DEF Init, StoreInit, NoUsers, StoreTypeOK
<1>3. TypeOK
  BY <1>2 DEF Init, TypeOK
<1> QED
  BY <1>1, <1>3 DEF Init, Routed, OnTheWay, AnswerOK

LEMMA RoutedStep == Sound /\ Sound' /\ Routed /\ [Next]_vars => Routed'
<1> SUFFICES ASSUME Sound, Sound', Routed, [Next]_vars PROVE Routed'
  OBVIOUS
<1>0. /\ StoreTypeOK' /\ AnswerOK(answer) /\ copies \in [Pages -> {"none", "whole", "partial"}]
      /\ jar \in [Browsers -> Users \cup {NONE}] /\ crowded \in SUBSET Browsers
      /\ todo \in [Browsers -> {"login.html", "welcome.html", NONE}] /\ hops \in [Browsers -> Nat]
  BY DEF Sound, Types, Routed, TypeOK
<1>1. ASSUME UNCHANGED <<copies, crowded, answer, todo, hops>>, jar' \in [Browsers -> Users \cup {NONE}],
             \A c \in Browsers : jar'[c] = jar[c] \/ jar'[c] = NONE
      PROVE  Routed'
  <2>1. TypeOK'
    BY <1>0, <1>1 DEF Routed, TypeOK
  <2>2. OnTheWay'
    BY <1>0, <1>1 DEF Routed, OnTheWay, Verified
  <2> QED
    BY <1>0, <1>1, <2>1, <2>2 DEF Routed
<1>2. CASE UNCHANGED vars \/ ((Start \/ Stop) /\ UNCHANGED <<copies, browserVars>>)
  BY <1>0, <1>1, <1>2 DEF vars, browserVars
<1>3. ASSUME NEW b \in Browsers, PostUntyped(b) PROVE Routed'
  BY <1>0, <1>1, <1>3 DEF PostUntyped, browserVars
<1>4. ASSUME NEW b \in Browsers, Forget(b) PROVE Routed'
  BY <1>0, <1>1, <1>4 DEF Forget
<1>5. ASSUME NEW b \in Browsers, Visit(b) PROVE Routed'
  BY <1>5, RequestRouted DEF Visit
<1>6. ASSUME NEW b \in Browsers, Follow(b) PROVE Routed'
  BY <1>6, RequestRouted DEF Follow
<1>7. ASSUME NEW b \in Browsers, NEW url \in {"uploads", "login.html", "absent"},
             PostElse(b, url) \/ OtherMethod(b, url)
      PROVE  Routed'
  BY <1>7, PostRouted
<1>8. ASSUME NEW b \in Browsers, NEW u \in Users, NEW p \in Passwords,
             Login(b, u, p) \/ Register(b, u, p)
      PROVE  Routed'
  BY <1>8, UsersRouted
<1> QED
  BY <1>2, <1>3, <1>4, <1>5, <1>6, <1>7, <1>8 DEF Next, Serve

LEMMA AlwaysRouted == Spec => []Routed
<1>1. Sound /\ Sound' /\ Routed /\ [Next]_vars => Routed'
  BY RoutedStep
<1> QED
  BY <1>1, RoutedInit, AlwaysSound, PTL DEF Spec

\* Every variable of the site keeps its type (return_res, sqlconn.cpp).
THEOREM TypeCorrect == Spec => []TypeOK
<1>1. Routed => TypeOK
  BY DEF Routed
<1> QED
  BY <1>1, AlwaysRouted, PTL

\* No browser follows more than two redirects in a row (return_res's two redirects and the
\* login's), however many browsers there are and whenever their cookies expire.
THEOREM RedirectsCorrect == Spec => []RedirectsEnd
<1>1. Routed => RedirectsEnd
  BY DEF Routed, TypeOK, OnTheWay, RedirectsEnd
<1> QED
  BY <1>1, AlwaysRouted, PTL

\* A file is sent compressed exactly when the header says so (return_res's two tests of the
\* same name, one with gzip's && and || and one without).
THEOREM EncodedCorrect == Spec => []EncodedAsSaid
<1>1. Routed => EncodedAsSaid
  BY DEF Routed, AnswerOK, EncodedAsSaid
<1> QED
  BY <1>1, AlwaysRouted, PTL

\* Content-Length is the length of the body but for the errors 404 and 405 (return_res).
THEOREM FramedCorrect == Spec => []Framed
<1>1. Routed => Framed
  BY DEF Routed, AnswerOK, Framed
<1> QED
  BY <1>1, AlwaysRouted, PTL

=============================================================================
