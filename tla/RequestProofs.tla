---------------------------- MODULE RequestProofs ----------------------------
(***************************************************************************)
(* Theorems about Request and Url, for all messages and streams of them,   *)
(* every size of the buffer and every way they arrive.                     *)
(***************************************************************************)
EXTENDS Request, TLAPS, SequenceTheorems, WellFoundedInduction

(***************************************************************************)
(* Sequences of characters.                                                *)
(***************************************************************************)
LEMMA LeastOf ==
  ASSUME NEW T \in SUBSET Nat, T # {} PROVE \E x \in T : \A y \in T : x <= y
<1>1. PICK x \in T : \A y \in T : ~(<<y, x>> \in OpToRel(<, Nat))
  BY WFMin, NatLessThanWellFounded
<1>2. \A y \in T : ~(y < x)
  BY <1>1 DEF OpToRel
<1> QED
  BY <1>2

\* A part of a text is a text.
LEMMA PartOfText ==
  ASSUME NEW t \in Seq(Chars), NEW a \in Nat \ {0}, NEW b \in Int, b <= Len(t)
  PROVE  SubSeq(t, a, b) \in Seq(Chars)
<1>1. Len(t) \in Nat /\ t \in [1..Len(t) -> Chars]
  BY LenProperties
<1>2. a..b \subseteq 1..Len(t)
  BY <1>1
<1>3. \A j \in a..b : t[j] \in Chars
  BY <1>1, <1>2
<1> QED
  BY <1>3, SubSeqProperties

\* Until stays within the text, or just behind it.
LEMMA UntilWithin ==
  ASSUME NEW t \in Seq(Chars), NEW p \in 1..(Len(t) + 1), NEW C
  PROVE  Until(t, p, C) \in p..(Len(t) + 1)
<1> DEFINE T == {j \in p..(Len(t) + 1) : j <= Len(t) => t[j] \in C}
<1>1. Len(t) \in Nat
  BY LenProperties
<1>2. Len(t) + 1 \in T /\ T \in SUBSET Nat
  BY <1>1
<1>3. PICK j \in T : \A k \in T : j <= k
  BY <1>2, LeastOf
<1>4. \A k \in p..(j - 1) : t[k] \notin C
  <2> SUFFICES ASSUME NEW k \in p..(j - 1), t[k] \in C PROVE FALSE
    OBVIOUS
  <2>1. k \in T /\ k < j
    BY <1>1, <1>3
  <2> QED
    BY <1>1, <1>3, <2>1
<1>5. \E i2 \in p..(Len(t) + 1) : /\ i2 <= Len(t) => t[i2] \in C
                                 /\ \A k \in p..(i2 - 1) : t[k] \notin C
  BY <1>3, <1>4
<1> QED
  BY <1>5 DEF Until

\* Until is the index behind which a text is cut.
LEMMA UntilIs ==
  ASSUME NEW t \in Seq(Chars), NEW p \in 1..(Len(t) + 1), NEW C,
         NEW q \in p..(Len(t) + 1), q <= Len(t) => t[q] \in C,
         \A k \in p..(q - 1) : t[k] \notin C
  PROVE  Until(t, p, C) = q
<1> DEFINE P(j) == /\ j <= Len(t) => t[j] \in C
                   /\ \A k \in p..(j - 1) : t[k] \notin C
<1>1. Len(t) \in Nat
  BY LenProperties
<1>2. P(q)
  OBVIOUS
<1>3. ASSUME NEW j \in p..(Len(t) + 1), P(j) PROVE j = q
  <2>1. ASSUME j < q PROVE FALSE
    <3>1. j \in p..(q - 1) /\ j <= Len(t)
      BY <1>1, <2>1
    <3> QED
      BY <1>3, <3>1
  <2>2. ASSUME q < j PROVE FALSE
    <3>1. q \in p..(j - 1) /\ q <= Len(t)
      BY <1>1, <2>2
    <3> QED
      BY <1>3, <3>1
  <2> QED
    BY <1>1, <2>1, <2>2
<1>4. Until(t, p, C) = CHOOSE j \in p..(Len(t) + 1) : P(j)
  BY DEF Until
<1> HIDE DEF P
<1> QED
  BY <1>2, <1>3, <1>4

\* Two parts that agree are the same text.
LEMMA SamePart ==
  ASSUME NEW s, NEW t, NEW a \in Int, NEW b \in Int,
         \A j \in a..b : s[j] \in Chars /\ s[j] = t[j]
  PROVE  SubSeq(s, a, b) = SubSeq(t, a, b)
<1> DEFINE u == SubSeq(s, a, b)
           v == SubSeq(t, a, b)
<1>1. \A j \in a..b : t[j] \in Chars
  OBVIOUS
<1>2. /\ u \in Seq(Chars) /\ Len(u) = IF a <= b THEN b - a + 1 ELSE 0
      /\ \A j \in 1..(b - a + 1) : u[j] = s[a + j - 1]
  BY SubSeqProperties
<1>3. /\ v \in Seq(Chars) /\ Len(v) = IF a <= b THEN b - a + 1 ELSE 0
      /\ \A j \in 1..(b - a + 1) : v[j] = t[a + j - 1]
  BY <1>1, SubSeqProperties
<1> HIDE DEF u, v
<1>4. \A j \in 1..(b - a + 1) : a + j - 1 \in a..b
  OBVIOUS
<1>5. Len(u) = Len(v) /\ \A j \in 1..Len(u) : u[j] = v[j]
  BY <1>2, <1>3, <1>4
<1>6. u = v
  BY <1>2, <1>3, <1>5, SeqEqual
<1> QED
  BY <1>6 DEF u, v

\* What a part of characters is.
LEMMA PartIs ==
  ASSUME NEW s, NEW a \in Int, NEW b \in Int, a <= b + 1, \A j \in a..b : s[j] \in Chars
  PROVE  /\ SubSeq(s, a, b) \in Seq(Chars) /\ Len(SubSeq(s, a, b)) = b - a + 1
         /\ \A j \in 1..(b - a + 1) : SubSeq(s, a, b)[j] = s[a + j - 1]
BY SubSeqProperties

LEMMA TrimTyped ==
  ASSUME NEW v \in Seq(Chars) PROVE Trim(v) \in Seq(Chars)
<1> DEFINE seen == {j \in 1..Len(v) : v[j] # SP}
           lo == CHOOSE j \in seen : \A k \in seen : j <= k
           hi == CHOOSE j \in seen : \A k \in seen : k <= j
<1>1. Len(v) \in Nat
  BY LenProperties
<1>2. CASE seen = {}
  <2>1. <<SP>> \in Seq(Chars)
    BY DEF SP, Chars
  <2>2. <<SP>> \o v \in Seq(Chars)
    BY <2>1, ConcatProperties
  <2> QED
    BY <1>2, <2>2 DEF Trim
<1>3. CASE seen # {}
  <2>1. lo \in seen
    <3>1. seen \in SUBSET Nat
      BY <1>1
    <3>2. \E j \in seen : \A k \in seen : j <= k
      BY <1>3, <3>1, LeastOf
    <3> QED
      BY <3>2
  <2>2. hi \in seen
    <3> DEFINE T == {Len(v) - j : j \in seen}
    <3>1. T \in SUBSET Nat /\ T # {}
      BY <1>1, <1>3
    <3>2. PICK d \in T : \A e \in T : d <= e
      BY <3>1, LeastOf
    <3>3. PICK j \in seen : d = Len(v) - j
      BY <3>2
    <3>4. ASSUME NEW k \in seen PROVE k <= j
      <4>1. Len(v) - j <= Len(v) - k
        BY <3>2, <3>3
      <4>2. j \in Nat /\ k \in Nat
        BY <1>1
      <4> HIDE DEF seen
      <4> QED
        BY <1>1, <4>1, <4>2
    <3> QED
      BY <3>4
  <2>3. lo \in Nat \ {0} /\ hi \in Int /\ hi <= Len(v)
    <3>1. seen \subseteq 1..Len(v)
      OBVIOUS
    <3> HIDE DEF seen, lo, hi
    <3> QED
      BY <1>1, <2>1, <2>2, <3>1
  <2>4. Trim(v) = SubSeq(v, lo, hi)
    <3>1. Trim(v) = IF seen = {} THEN <<SP>> \o v ELSE SubSeq(v, lo, hi)
      BY DEF Trim
    <3> HIDE DEF seen, lo, hi
    <3> QED
      BY <1>3, <3>1
  <2> HIDE DEF lo, hi
  <2> QED
    BY <2>3, <2>4, PartOfText
<1> QED
  BY <1>2, <1>3

LEMMA Decodes == \A a \in Chars, b \in Chars : Decoded(a, b) \in Chars
<1> SUFFICES ASSUME NEW a \in Chars, NEW b \in Chars PROVE Decoded(a, b) \in Chars
  OBVIOUS
<1>1. \A c \in Chars : HexValue(c) \in -1..15
  BY DEF HexValue, Chars
<1>2. HexValue(a) \in -1..15 /\ HexValue(b) \in -1..15
  BY <1>1
<1>3. ASSUME NEW h \in -1..15, NEW l \in -1..15
      PROVE  /\ h >= 0 /\ l >= 0 => 16 * h + l \in 0..255
             /\ h >= 0 => h \in 0..255
             /\ l >= 0 => l \in 0..255 /\ (256 - l) % 256 \in 0..255
  BY <1>3
<1> QED
  BY <1>2, <1>3 DEF Decoded, Chars

LEMMA Lowers == \A c \in Chars : Lower(c) \in Chars /\ Lower(c) \notin Upper
BY DEF Lower, Chars, Upper

(***************************************************************************)
(* prase_url.                                                              *)
(***************************************************************************)
UrlInv == UrlTypeOK /\ Lowered /\ UpperEscaped

LEMMA UrlStarts == ASSUME NEW u \in Seq(Chars), UrlStart(u) PROVE UrlInv'
<1>1. url' = u /\ i' = 1 /\ decodedUrl' = <<>> /\ Len(u) \in Nat
  BY LenProperties DEF UrlStart
<1>2. UrlTypeOK'
  BY <1>1 DEF UrlTypeOK
<1>3. Lowered' /\ UpperEscaped'
  BY <1>1 DEF Lowered, UpperEscaped
<1> QED
  BY <1>2, <1>3 DEF UrlInv

LEMMA UrlSteps == ASSUME UrlInv, UrlStep PROVE UrlInv'
<1>1. /\ url \in Seq(Chars) /\ i \in Nat \ {0} /\ decodedUrl \in Seq(Chars)
      /\ Len(url) \in Nat /\ Len(decodedUrl) \in Nat /\ i <= Len(url) /\ url' = url
      /\ \A k \in 1..Len(url) : url[k] \in Chars
  BY LenProperties DEF UrlInv, UrlTypeOK, UrlStep, PlainChar, EscapedChar
<1>2. CASE PlainChar
  <2>1. decodedUrl' = Append(decodedUrl, Lower(url[i])) /\ i' = i + 1
    BY <1>2 DEF PlainChar
  <2>2. Lower(url[i]) \in Chars /\ Lower(url[i]) \notin Upper
    BY <1>1, Lowers
  <2>3. /\ decodedUrl' \in Seq(Chars) /\ Len(decodedUrl') = Len(decodedUrl) + 1
        /\ \A k \in 1..Len(decodedUrl) : decodedUrl'[k] = decodedUrl[k]
        /\ decodedUrl'[Len(decodedUrl) + 1] = Lower(url[i])
    BY <1>1, <2>1, <2>2, AppendProperties
  <2>4. UrlTypeOK'
    BY <1>1, <2>1, <2>3 DEF UrlTypeOK
  <2>5. Lowered'
    <3> SUFFICES ASSUME \A k \in 1..Len(url) : url[k] # Percent
                 PROVE  /\ Len(decodedUrl') = i' - 1 /\ i' <= Len(url) + 1
                        /\ \A k \in 1..(i' - 1) : decodedUrl'[k] = Lower(url[k])
      BY <1>1 DEF Lowered
    <3>1. Len(decodedUrl) = i - 1 /\ \A k \in 1..(i - 1) : decodedUrl[k] = Lower(url[k])
      BY DEF UrlInv, Lowered
    <3> QED
      BY <1>1, <2>1, <2>3, <3>1
  <2>6. UpperEscaped'
    <3> SUFFICES ASSUME NEW k \in 1..Len(decodedUrl'), decodedUrl'[k] \in Upper
                 PROVE  \E j \in 1..(Len(url) - 2) :
                          url[j] = Percent /\ decodedUrl'[k] = Decoded(url[j + 1], url[j + 2])
      BY <1>1 DEF UpperEscaped
    <3>1. k \in 1..Len(decodedUrl) /\ decodedUrl'[k] = decodedUrl[k]
      BY <1>1, <2>2, <2>3
    <3> QED
      BY <3>1 DEF UrlInv, UpperEscaped
  <2> QED
    BY <2>4, <2>5, <2>6 DEF UrlInv
<1>3. CASE EscapedChar
  <2> DEFINE d == Decoded(url[i + 1], url[i + 2])
  <2>1. /\ decodedUrl' = Append(decodedUrl, d) /\ i' = i + 3
        /\ url[i] = Percent /\ i + 2 <= Len(url)
    BY <1>3 DEF EscapedChar, Escape
  <2>2. d \in Chars /\ i \in 1..(Len(url) - 2)
    <3>1. i + 1 \in 1..Len(url) /\ i + 2 \in 1..Len(url) /\ i \in 1..(Len(url) - 2)
      BY <1>1, <2>1
    <3> QED
      BY <1>1, <3>1, Decodes
  <2> HIDE DEF d
  <2>3. /\ decodedUrl' \in Seq(Chars) /\ Len(decodedUrl') = Len(decodedUrl) + 1
        /\ \A k \in 1..Len(decodedUrl) : decodedUrl'[k] = decodedUrl[k]
        /\ decodedUrl'[Len(decodedUrl) + 1] = d
    BY <1>1, <2>1, <2>2, AppendProperties
  <2>4. UrlTypeOK'
    BY <1>1, <2>1, <2>3 DEF UrlTypeOK
  <2>5. Lowered'
    BY <1>1, <2>1 DEF Lowered
  <2>6. UpperEscaped'
    <3> SUFFICES ASSUME NEW k \in 1..Len(decodedUrl'), decodedUrl'[k] \in Upper
                 PROVE  \E j \in 1..(Len(url) - 2) :
                          url[j] = Percent /\ decodedUrl'[k] = Decoded(url[j + 1], url[j + 2])
      BY <1>1 DEF UpperEscaped
    <3>1. CASE k \in 1..Len(decodedUrl)
      BY <2>3, <3>1 DEF UrlInv, UpperEscaped
    <3>2. CASE k = Len(decodedUrl) + 1
      BY <2>1, <2>2, <2>3, <3>2 DEF d
    <3> QED
      BY <1>1, <2>3, <3>1, <3>2
  <2> QED
    BY <2>4, <2>5, <2>6 DEF UrlInv
<1> QED
  BY <1>2, <1>3 DEF UrlStep

(***************************************************************************)
(* The request.                                                            *)
(***************************************************************************)
\* The part of TypeOK about the buffer and the place in it.
BufferOK(r, p) == r \in [1..Size -> Chars] /\ r[Size] = NUL /\ p \in 1..Size

LEMMA SizeType == Size \in Nat /\ Size >= 2
BY SizeAssumption

\* A line that strtok returns is a text, and what is left in the buffer still ends in a NUL.
LEMMA LineTyped ==
  ASSUME BufferOK(request, pos), NEW s \in pos..Size, NEW e \in pos..Size, Token(s, e), Cut(e)
  PROVE  SubSeq(request, s, e - 1) \in Seq(Chars) /\ BufferOK(request', pos')
<1>1. Size \in Nat /\ Size >= 2
  BY SizeType
<1>2. /\ request \in [1..Size -> Chars] /\ request[Size] = NUL /\ pos \in 1..Size
  BY DEF BufferOK
<1>3. SubSeq(request, s, e - 1) \in Seq(Chars)
  <2>1. s..(e - 1) \subseteq 1..Size /\ s \in Int /\ e - 1 \in Int
    BY <1>1, <1>2
  <2> QED
    BY <1>2, <2>1, SubSeqProperties
<1>4. request' = [request EXCEPT ![e] = NUL] /\ NUL \in Chars
  BY DEF Cut, NUL, Chars
<1>5. request' \in [1..Size -> Chars] /\ request'[Size] = NUL
  BY <1>1, <1>2, <1>4
<1>6. pos' \in 1..Size
  BY <1>1, <1>2 DEF Cut, EOL, NUL
<1> QED
  BY <1>3, <1>5, <1>6 DEF BufferOK

\* A word ends in its line, or behind it.
LEMMA WordEndWithin ==
  ASSUME NEW t \in Seq(Chars), NEW p \in 1..(Len(t) + 1) PROVE WordEnd(t, p) \in p..(Len(t) + 1)
<1> DEFINE e == Until(t, p, {SP, SEP})
<1>1. Len(t) \in Nat
  BY LenProperties
<1>2. e \in p..(Len(t) + 1)
  BY <1>1, UntilWithin
<1>3. WordEnd(t, p) = IF e <= Len(t) /\ t[e] = SEP THEN e + 1 ELSE e
  BY DEF WordEnd
<1> HIDE DEF e
<1> QED
  BY <1>1, <1>2, <1>3

\* iss >> method >> url.
LEMMA RequestLineTyped ==
  ASSUME NEW t \in Seq(Chars), RequestLine(t) PROVE method' \in Seq(Chars) /\ UrlInv'
<1> DEFINE a == Until(t, 1, Visible)
           b == WordEnd(t, a)
           c == Until(t, b, Visible)
           d == WordEnd(t, c)
<1>1. Len(t) \in Nat
  BY LenProperties
<1>2. a \in 1..(Len(t) + 1)
  BY <1>1, UntilWithin
<1>3. b \in a..(Len(t) + 1)
  BY <1>2, WordEndWithin
<1>4. c \in b..(Len(t) + 1)
  <2>1. b \in 1..(Len(t) + 1)
    BY <1>1, <1>2, <1>3
  <2> HIDE DEF b
  <2> QED
    BY <2>1, UntilWithin
<1>5. d \in c..(Len(t) + 1)
  <2>1. c \in 1..(Len(t) + 1)
    BY <1>1, <1>2, <1>3, <1>4
  <2> HIDE DEF c
  <2> QED
    BY <2>1, WordEndWithin
<1>6. method' = SubSeq(t, a, b - 1) /\ UrlStart(SubSeq(t, c, d - 1))
  BY DEF RequestLine
<1> HIDE DEF a, b, c, d
<1>7. /\ a \in Nat \ {0} /\ b - 1 \in Int /\ b - 1 <= Len(t)
      /\ c \in Nat \ {0} /\ d - 1 \in Int /\ d - 1 <= Len(t)
  BY <1>1, <1>2, <1>3, <1>4, <1>5
<1>8. SubSeq(t, a, b - 1) \in Seq(Chars) /\ SubSeq(t, c, d - 1) \in Seq(Chars)
  BY <1>7, PartOfText
<1> QED
  BY <1>6, <1>8, UrlStarts

LEMMA HeaderTyped ==
  ASSUME NEW t \in Seq(Chars), Header(t), m_map \in SUBSET (Seq(Chars) \X Seq(Chars))
  PROVE  m_map' \in SUBSET (Seq(Chars) \X Seq(Chars))
<1> DEFINE c == Until(t, 1, {SEP})
           key == SubSeq(t, 1, c - 1)
           value == SubSeq(t, c + 1, Len(t))
<1>1. Len(t) \in Nat
  BY LenProperties
<1>2. c \in 1..(Len(t) + 1)
  BY <1>1, UntilWithin
<1>3. m_map' = {h \in m_map : h[1] # key} \cup {<<key, Trim(value)>>}
  BY DEF Header
<1> HIDE DEF c
<1>4. key \in Seq(Chars) /\ value \in Seq(Chars)
  BY <1>1, <1>2, PartOfText
<1> HIDE DEF key, value
<1>5. <<key, Trim(value)>> \in Seq(Chars) \X Seq(Chars)
  BY <1>4, TrimTyped
<1> QED
  BY <1>3, <1>5

(***************************************************************************)
(* The inductive invariant, by the parts of the state.                     *)
(***************************************************************************)
ClientOK == /\ stream \in Streams /\ sent \in 0..Len(stream) /\ cuts \in 0..Cuts
            /\ rest \in Seq(Chars) /\ net \in Seq(Chars)

SlotOK == BufferOK(request, pos) /\ named \in BOOLEAN /\ high \in 0..(Size - 1)

ParsedOK == /\ method \in Seq(Chars) /\ content \in Seq(Chars)
            /\ m_map \in SUBSET (Seq(Chars) \X Seq(Chars))

LoopOK == /\ place \in {"idle", "read", "line", "lines", "url", "out"}
          /\ chunk \in Seq(Chars) /\ alone \in BOOLEAN /\ up \in BOOLEAN

Inv == UrlInv /\ ClientOK /\ SlotOK /\ ParsedOK /\ LoopOK

LEMMA InvTyped == Inv => TypeOK
BY DEF Inv, UrlInv, ClientOK, SlotOK, ParsedOK, LoopOK, BufferOK, TypeOK

LEMMA ClearedOK == BufferOK(Cleared, 1)
<1>1. Size \in 1..Size /\ 1 \in 1..Size
  BY SizeType
<1>2. NUL \in Chars
  BY DEF NUL, Chars
<1> QED
  BY <1>1, <1>2 DEF BufferOK, Cleared

LEMMA InitInv == Init => Inv
<1> SUFFICES ASSUME Init PROVE Inv
  OBVIOUS
<1>1. Size \in Nat /\ Size >= 2 /\ Cuts \in Nat /\ <<>> \in Seq(Chars) /\ Len(stream) \in Nat
  BY SizeAssumption, StreamsAssumption, LenProperties DEF Init
<1>2. UrlInv
  BY <1>1 DEF Init, UrlInv, UrlTypeOK, Lowered, UpperEscaped
<1>3. ClientOK
  BY <1>1 DEF Init, ClientOK
<1>4. SlotOK
  <2>1. request = Cleared /\ pos = 1 /\ named = FALSE /\ high = 0
    BY DEF Init
  <2>2. 0 \in 0..(Size - 1)
    BY <1>1
  <2> QED
    BY <2>1, <2>2, ClearedOK DEF SlotOK
<1>5. ParsedOK /\ LoopOK
  BY <1>1 DEF Init, ParsedOK, LoopOK
<1> QED
  BY <1>2, <1>3, <1>4, <1>5 DEF Inv

\* What a part of the invariant needs left alone.
LEMMA Kept ==
  ASSUME Inv
  PROVE  /\ UNCHANGED urlVars => UrlInv'
         /\ UNCHANGED clientVars => ClientOK'
         /\ UNCHANGED <<request, named, high, pos>> => SlotOK'
         /\ UNCHANGED parsedVars => ParsedOK'
<1>1. ASSUME UNCHANGED urlVars PROVE UrlInv'
  <2>1. url' = url /\ i' = i /\ decodedUrl' = decodedUrl /\ UrlInv
    BY <1>1 DEF urlVars, Inv
  <2> QED
    BY <2>1 DEF UrlInv, UrlTypeOK, Lowered, UpperEscaped
<1>2. ASSUME UNCHANGED clientVars PROVE ClientOK'
  BY <1>2 DEF clientVars, Inv, ClientOK
<1>3. ASSUME UNCHANGED <<request, named, high, pos>> PROVE SlotOK'
  BY <1>3 DEF Inv, SlotOK
<1>4. ASSUME UNCHANGED parsedVars PROVE ParsedOK'
  BY <1>4 DEF parsedVars, Inv, ParsedOK
<1> QED
  BY <1>1, <1>2, <1>3, <1>4

LEMMA ClientInv == ASSUME Inv, Send \/ SendRest PROVE Inv'
<1>1. /\ stream \in Streams /\ stream \in Seq(Messages) /\ sent \in 0..Len(stream)
      /\ cuts \in 0..Cuts /\ Cuts \in Nat /\ Len(stream) \in Nat
      /\ rest \in Seq(Chars) /\ net \in Seq(Chars)
  BY StreamsAssumption, SizeAssumption, LenProperties DEF Inv, ClientOK
<1>2. ClientOK'
  <2>1. CASE Send
    <3> DEFINE t == stream[sent + 1].text
    <3>1. /\ sent < Len(stream) /\ sent' = sent + 1 /\ stream' = stream
      BY <2>1 DEF Send, clientKeeps
    <3>2. PICK k \in 1..Len(t) :
            /\ net' = net \o SubSeq(t, 1, k) /\ rest' = SubSeq(t, k + 1, Len(t))
            /\ IF k = Len(t) THEN cuts' = cuts ELSE cuts < Cuts /\ cuts' = cuts + 1
      BY <2>1 DEF Send
    <3>3. t \in Seq(Chars)
      <4>1. sent + 1 \in 1..Len(stream)
        BY <1>1, <3>1
      <4>2. stream[sent + 1] \in Messages
        BY <1>1, <4>1, ElementOfSeq
      <4>3. t \in Seq(Chars \ {NUL}) /\ Chars \ {NUL} \subseteq Chars
        BY <4>2, MessagesAssumption
      <4> HIDE DEF t
      <4> QED
        BY <4>3, SeqMonotonic
    <3> HIDE DEF t
    <3>4. Len(t) \in Nat
      BY <3>3, LenProperties
    <3>5. SubSeq(t, 1, k) \in Seq(Chars) /\ SubSeq(t, k + 1, Len(t)) \in Seq(Chars)
      BY <3>2, <3>3, <3>4, PartOfText
    <3>6. net' \in Seq(Chars) /\ rest' \in Seq(Chars)
      BY <1>1, <3>2, <3>5, ConcatProperties
    <3>7. sent' \in 0..Len(stream)
      BY <1>1, <3>1
    <3>8. cuts' = cuts \/ (cuts < Cuts /\ cuts' = cuts + 1)
      BY <3>2
    <3>9. cuts' \in 0..Cuts
      BY <1>1, <3>8
    <3> QED
      BY <1>1, <3>1, <3>6, <3>7, <3>9 DEF ClientOK
  <2>2. CASE SendRest
    <3>1. net' = net \o rest /\ rest' = <<>> /\ UNCHANGED <<sent, cuts, stream>>
      BY <2>2 DEF SendRest, clientKeeps
    <3>2. net' \in Seq(Chars) /\ rest' \in Seq(Chars)
      BY <1>1, <3>1, ConcatProperties
    <3> QED
      BY <1>1, <3>1, <3>2 DEF ClientOK
  <2> QED
    BY <2>1, <2>2
<1>3. /\ UNCHANGED urlVars /\ UNCHANGED <<request, named, high, pos>> /\ UNCHANGED parsedVars
      /\ UNCHANGED <<chunk, alone, place, up>>
  BY DEF Send, SendRest, clientKeeps, slotVars, readVars
<1>4. LoopOK'
  BY <1>3 DEF Inv, LoopOK
<1> QED
  BY <1>2, <1>3, <1>4, Kept DEF Inv

LEMMA ReadInv == ASSUME Inv, Read PROVE Inv'
<1> DEFINE n == Taken
<1>1. /\ Size \in Nat /\ Size >= 2 /\ net \in Seq(Chars) /\ Len(net) \in Nat
      /\ net \in [1..Len(net) -> Chars]
      /\ request \in [1..Size -> Chars] /\ request[Size] = NUL /\ high \in 0..(Size - 1)
  BY SizeType, LenProperties DEF Inv, ClientOK, SlotOK, BufferOK
<1>2. n \in 0..Len(net) /\ n \in 0..(Size - 1)
  BY <1>1 DEF Taken
<1>3. /\ chunk' = SubSeq(net, 1, n) /\ net' = SubSeq(net, n + 1, Len(net))
      /\ request' = [j \in 1..Size |-> IF j <= n THEN net[j] ELSE request[j]]
      /\ high' = (IF n > high THEN n ELSE high) /\ alone' = (n >= high)
      /\ UrlStart(<<>>) /\ method' = <<>> /\ m_map' = {} /\ content' = <<>>
      /\ place' = "line" /\ pos' = 1
      /\ UNCHANGED <<stream, sent, rest, cuts, named, up>>
  BY DEF Read
<1> HIDE DEF n
<1>4. chunk' \in Seq(Chars) /\ net' \in Seq(Chars)
  BY <1>1, <1>2, <1>3, PartOfText
<1>5. ClientOK'
  BY <1>3, <1>4 DEF Inv, ClientOK
<1>6. SlotOK'
  <2>1. \A j \in 1..Size : (IF j <= n THEN net[j] ELSE request[j]) \in Chars
    BY <1>1, <1>2
  <2>2. request' \in [1..Size -> Chars] /\ request'[Size] = NUL
    BY <1>1, <1>2, <1>3, <2>1
  <2>3. high' \in 0..(Size - 1)
    BY <1>1, <1>2, <1>3
  <2> QED
    BY <1>1, <1>3, <2>2, <2>3 DEF Inv, SlotOK, BufferOK
<1>7. <<>> \in Seq(Chars)
  OBVIOUS
<1>8. UrlInv' /\ ParsedOK'
  BY <1>3, <1>7, UrlStarts DEF ParsedOK
<1>9. LoopOK'
  BY <1>3, <1>4 DEF Inv, LoopOK
<1> QED
  BY <1>5, <1>6, <1>8, <1>9 DEF Inv

LEMMA LoopInv == ASSUME Inv, Event \/ ReadEAGAIN \/ FileSent \/ Respond \/ LinesEnd PROVE Inv'
<1>1. ASSUME UNCHANGED <<urlVars, clientVars, parsedVars>>, SlotOK',
             UNCHANGED <<chunk, alone>>, up' \in BOOLEAN,
             place' \in {"idle", "read", "line", "lines", "url", "out"}
      PROVE  Inv'
  <2>1. LoopOK'
    BY <1>1 DEF Inv, LoopOK
  <2> QED
    BY <1>1, <2>1, Kept DEF Inv
<1>2. up \in BOOLEAN /\ named \in BOOLEAN /\ BufferOK(request, pos) /\ high \in 0..(Size - 1)
  BY DEF Inv, LoopOK, SlotOK
<1>3. CASE Event \/ ReadEAGAIN
  BY <1>1, <1>2, <1>3 DEF Event, ReadEAGAIN, slotVars, readVars, SlotOK
<1>4. CASE FileSent
  <2>1. SlotOK'
    <3>1. request' = Cleared /\ named' = FALSE /\ high' = 0 /\ pos' = pos
      BY <1>4 DEF FileSent, Reset
    <3>2. BufferOK(Cleared, pos)
      BY <1>2, ClearedOK DEF BufferOK
    <3>3. 0 \in 0..(Size - 1)
      BY SizeType
    <3> QED
      BY <3>1, <3>2, <3>3 DEF SlotOK
  <2> QED
    BY <1>1, <1>2, <1>4, <2>1 DEF FileSent, readVars
<1>5. CASE Respond
  <2>1. named' \in BOOLEAN
    <3>1. CASE method = <<71>>
      BY <1>2, <1>5, <3>1 DEF Respond
    <3>2. CASE method # <<71>> /\ method = <<72>>
      BY <1>5, <3>2 DEF Respond
    <3>3. CASE method # <<71>> /\ method # <<72>>
      BY <1>2, <1>5, <3>3 DEF Respond
    <3> QED
      BY <3>1, <3>2, <3>3
  <2>2. SlotOK'
    BY <1>2, <1>5, <2>1 DEF Respond, SlotOK
  <2>3. up' \in BOOLEAN
    BY <1>5 DEF Respond
  <2> QED
    BY <1>1, <1>5, <2>2, <2>3 DEF Respond, readVars
<1>6. CASE LinesEnd
  BY <1>1, <1>2, <1>6 DEF LinesEnd, parseKeeps, readVars, SlotOK
<1> QED
  BY <1>3, <1>4, <1>5, <1>6

LEMMA ParseInv == ASSUME Inv, FirstLine \/ HeaderLine \/ ContentLine \/ Decode PROVE Inv'
<1>1. ASSUME UNCHANGED parseKeeps, UrlInv', BufferOK(request', pos'), ParsedOK',
             place' \in {"idle", "read", "line", "lines", "url", "out"}
      PROVE  Inv'
  <2>1. SlotOK' /\ LoopOK'
    BY <1>1 DEF parseKeeps, readVars, Inv, SlotOK, LoopOK
  <2> QED
    BY <1>1, <2>1, Kept DEF parseKeeps, Inv
<1>2. /\ BufferOK(request, pos) /\ UrlInv /\ ParsedOK /\ method \in Seq(Chars)
      /\ content \in Seq(Chars) /\ m_map \in SUBSET (Seq(Chars) \X Seq(Chars))
      /\ place \in {"idle", "read", "line", "lines", "url", "out"}
  BY DEF Inv, SlotOK, ParsedOK, LoopOK
<1>3. CASE FirstLine
  <2>1. ASSUME NEW s \in pos..Size, NEW e \in pos..Size,
               Token(s, e), RequestLine(SubSeq(request, s, e - 1)), Cut(e)
        PROVE  BufferOK(request', pos') /\ method' \in Seq(Chars) /\ UrlInv'
    BY <1>2, <2>1, LineTyped, RequestLineTyped
  <2>2. ASSUME UNCHANGED <<urlVars, request, pos, method>>
        PROVE  BufferOK(request', pos') /\ method' \in Seq(Chars) /\ UrlInv'
    BY <1>2, <2>2, Kept
  <2>3. BufferOK(request', pos') /\ method' \in Seq(Chars) /\ UrlInv'
    BY <1>3, <2>1, <2>2 DEF FirstLine
  <2>4. ParsedOK'
    BY <1>2, <1>3, <2>3 DEF FirstLine, ParsedOK
  <2> QED
    BY <1>1, <1>3, <2>3, <2>4 DEF FirstLine
<1>4. CASE HeaderLine
  <2>1. PICK s, e \in pos..Size :
          Token(s, e) /\ Header(SubSeq(request, s, e - 1)) /\ Cut(e)
    BY <1>4 DEF HeaderLine
  <2>2. SubSeq(request, s, e - 1) \in Seq(Chars) /\ BufferOK(request', pos')
    BY <1>2, <2>1, LineTyped
  <2>3. m_map' \in SUBSET (Seq(Chars) \X Seq(Chars))
    BY <1>2, <2>1, <2>2, HeaderTyped
  <2>4. ParsedOK' /\ UrlInv'
    BY <1>2, <1>4, <2>3, Kept DEF HeaderLine, ParsedOK
  <2> QED
    BY <1>1, <1>2, <1>4, <2>2, <2>4 DEF HeaderLine
<1>5. CASE ContentLine
  <2>1. PICK s, e \in pos..Size :
          Token(s, e) /\ Content(SubSeq(request, s, e - 1)) /\ Cut(e)
    BY <1>5 DEF ContentLine
  <2>2. SubSeq(request, s, e - 1) \in Seq(Chars) /\ BufferOK(request', pos')
    BY <1>2, <2>1, LineTyped
  <2>3. content' \in Seq(Chars)
    BY <2>1, <2>2 DEF Content
  <2>4. ParsedOK' /\ UrlInv'
    BY <1>2, <1>5, <2>3, Kept DEF ContentLine, ParsedOK
  <2> QED
    BY <1>1, <1>5, <2>2, <2>4 DEF ContentLine
<1>6. CASE Decode
  <2>1. UrlInv'
    BY <1>2, <1>6, UrlSteps DEF Decode
  <2>2. ParsedOK' /\ UNCHANGED parseKeeps /\ UNCHANGED <<request, pos, place>>
    BY <1>2, <1>6 DEF Decode, slotVars, readVars, parsedVars, ParsedOK, parseKeeps
  <2> QED
    BY <1>1, <1>2, <2>1, <2>2
<1> QED
  BY <1>3, <1>4, <1>5, <1>6

LEMMA StepInv == Inv /\ [Next]_vars => Inv'
<1> SUFFICES ASSUME Inv, [Next]_vars PROVE Inv'
  OBVIOUS
<1>1. CASE UNCHANGED vars
  <2>1. LoopOK'
    BY <1>1 DEF vars, readVars, Inv, LoopOK
  <2> QED
    BY <1>1, <2>1, Kept DEF vars, slotVars, Inv
<1> QED
  BY <1>1, ClientInv, ReadInv, LoopInv, ParseInv DEF Next, Parse

LEMMA InvHolds == Spec => []Inv
BY InitInv, StepInv, PTL DEF Spec

(***************************************************************************)
(* Messages.                                                               *)
(***************************************************************************)
LEMMA MessageText ==
  ASSUME NEW m \in Messages
  PROVE  /\ m.text \in Seq(Chars) /\ Len(m.text) \in Nat
         /\ \A j \in 1..Len(m.text) : m.text[j] \in Chars /\ m.text[j] # NUL
<1>1. m.text \in Seq(Chars \ {NUL}) /\ Chars \ {NUL} \subseteq Chars
  BY MessagesAssumption
<1> QED
  BY <1>1, SeqMonotonic, LenProperties, ElementOfSeq

\* The characters of the first line, none of which ends it.
LEMMA LineOf ==
  ASSUME NEW m \in Messages, NEW b \in 1..Len(m.text), NEW d \in 1..Len(m.text),
         NEW e \in 1..Len(m.text), LineAt(m, b, d, e)
  PROVE  /\ b \in Nat /\ d \in Nat /\ e \in Nat /\ 1 < b /\ b + 1 < d /\ d < e
         /\ e <= Len(m.text) /\ m.text[e] = EOL
         /\ \A j \in 1..(e - 1) : m.text[j] \in Chars \ {EOL, NUL}
<1>1. Len(m.text) \in Nat /\ \A j \in 1..Len(m.text) : m.text[j] \in Chars /\ m.text[j] # NUL
  BY MessageText
<1>2. /\ 1 < b /\ b + 1 < d /\ d < e /\ m.text[e] = EOL
      /\ \A j \in 1..(e - 1) : m.text[j] # EOL
  BY DEF LineAt
<1>3. \A j \in 1..(e - 1) : j \in 1..Len(m.text)
  BY <1>1
<1> QED
  BY <1>1, <1>2, <1>3

\* In a line without a colon and blank a word ends at the next blank.
LEMMA WordEndIs ==
  ASSUME NEW t \in Seq(Chars), NEW p \in 1..(Len(t) + 1), NEW e \in p..(Len(t) + 1),
         Len(t) \in Nat, e <= Len(t), t[e] = SP, \A k \in p..(e - 1) : t[k] # SP,
         \A j \in 1..Len(t) : t[j] # SEP
  PROVE  WordEnd(t, p) = e
<1>1. \A k \in p..(e - 1) : t[k] \notin {SP, SEP}
  OBVIOUS
<1>2. Until(t, p, {SP, SEP}) = e
  BY <1>1, UntilIs
<1>3. t[e] # SEP
  OBVIOUS
<1> QED
  BY <1>2, <1>3 DEF WordEnd

\* iss >> method >> url, of a message's line.
LEMMA RequestLineIs ==
  ASSUME NEW m \in Messages, NEW b \in 1..Len(m.text), NEW d \in 1..Len(m.text),
         NEW e \in 1..Len(m.text), LineAt(m, b, d, e),
         NEW t \in Seq(Chars), Len(t) = e - 1, \A j \in 1..(e - 1) : t[j] = m.text[j],
         RequestLine(t)
  PROVE  /\ method' = m.method /\ url' = SubSeq(m.text, b + 1, d - 1)
         /\ i' = 1 /\ decodedUrl' = <<>>
<1>1. /\ b \in Nat /\ d \in Nat /\ e \in Nat /\ 1 < b /\ b + 1 < d /\ d < e
      /\ \A j \in 1..(e - 1) : t[j] \in Chars
  BY LineOf
<1>2. /\ t[b] = SP /\ t[d] = SP
      /\ \A j \in 1..(e - 1) : t[j] = SP => j = b \/ j >= d
  <2>1. /\ m.text[b] = SP /\ m.text[d] = SP
        /\ \A j \in 1..(e - 1) : m.text[j] = SP => j = b \/ j >= d
    BY DEF LineAt
  <2>2. b \in 1..(e - 1) /\ d \in 1..(e - 1)
    BY <1>1
  <2> QED
    BY <2>1, <2>2
<1>3. \A j \in 1..(e - 1) : t[j] \in Visible <=> t[j] # SP
  BY <1>1 DEF Visible
<1>11. \A j \in 1..Len(t) : t[j] # SEP
  <2>1. \A j \in 1..(e - 1) : m.text[j] # SEP
    BY DEF LineAt
  <2> QED
    BY <2>1
<1>4. Until(t, 1, Visible) = 1
  <2>1. 1 \in 1..(Len(t) + 1) /\ t[1] \in Visible
    BY <1>1, <1>2, <1>3
  <2> QED
    BY <2>1, UntilIs
<1>5. WordEnd(t, 1) = b
  <2>1. 1 \in 1..(Len(t) + 1) /\ b \in 1..(Len(t) + 1) /\ t[b] \in {SP}
    BY <1>1, <1>2
  <2>2. \A k \in 1..(b - 1) : t[k] # SP
    BY <1>1, <1>2
  <2>3. Len(t) \in Nat /\ b <= Len(t) /\ t[b] = SP
    BY <1>1, <1>2
  <2> QED
    BY <1>11, <2>1, <2>2, <2>3, WordEndIs
<1>6. Until(t, b, Visible) = b + 1
  <2>1. /\ b \in 1..(Len(t) + 1) /\ b + 1 \in b..(Len(t) + 1) /\ t[b + 1] \in Visible
        /\ b..((b + 1) - 1) = {b}
    BY <1>1, <1>2, <1>3
  <2>2. \A k \in b..((b + 1) - 1) : t[k] \notin Visible
    BY <1>2, <2>1 DEF Visible
  <2> QED
    BY <2>1, <2>2, UntilIs
<1>7. WordEnd(t, b + 1) = d
  <2>1. /\ b + 1 \in 1..(Len(t) + 1) /\ d \in (b + 1)..(Len(t) + 1) /\ t[d] \in {SP}
    BY <1>1, <1>2
  <2>2. \A k \in (b + 1)..(d - 1) : t[k] # SP
    BY <1>1, <1>2
  <2>3. Len(t) \in Nat /\ d <= Len(t) /\ t[d] = SP
    BY <1>1, <1>2
  <2> QED
    BY <1>11, <2>1, <2>2, <2>3, WordEndIs
<1>8. method' = SubSeq(t, 1, b - 1) /\ UrlStart(SubSeq(t, b + 1, d - 1))
  BY <1>4, <1>5, <1>6, <1>7 DEF RequestLine
<1>9. SubSeq(t, 1, b - 1) = SubSeq(m.text, 1, b - 1)
  <2>1. b - 1 \in Int /\ \A j \in 1..(b - 1) : t[j] \in Chars /\ t[j] = m.text[j]
    BY <1>1
  <2> QED
    BY <2>1, SamePart
<1>10. SubSeq(t, b + 1, d - 1) = SubSeq(m.text, b + 1, d - 1)
  <2>1. /\ b + 1 \in Int /\ d - 1 \in Int
        /\ \A j \in (b + 1)..(d - 1) : t[j] \in Chars /\ t[j] = m.text[j]
    BY <1>1
  <2> QED
    BY <2>1, SamePart
<1> QED
  BY <1>8, <1>9, <1>10 DEF LineAt, UrlStart

(***************************************************************************)
(* What the buffer holds of the chunk read last, and what of it has been   *)
(* parsed.                                                                 *)
(***************************************************************************)
\* Behind the longest chunk the buffer is empty, so that behind the last one it is if that was
\* the longest.
Held ==
  /\ Len(chunk) < Size
  /\ \A j \in 1..Size : j > high => request[j] = NUL
  /\ place \in {"line", "lines"} /\ alone => high = Len(chunk)
  /\ place = "line" => /\ pos = 1 /\ m_map = {} /\ content = <<>>
                       /\ \A j \in 1..Len(chunk) : request[j] = chunk[j]

\* What is decoded of m's URL, and that decoding is at the start of a character's spelling.
Decoding(m) ==
  \E p \in [1..(Len(m.url) + 1) -> 1..(Len(url) + 1)] :
    /\ Spells(url, m.url, p)
    /\ Len(decodedUrl) <= Len(m.url) /\ i = p[Len(decodedUrl) + 1]
    /\ \A k \in 1..Len(decodedUrl) : decodedUrl[k] = m.url[k]

LineRead == \A m \in Messages : Starts(m) => place = "line" \/ (method = m.method /\ Decoding(m))

UrlDone == place \in {"read", "out", "idle"} => UrlRead

\* What may have ended the process.
Alive ==
  up \/ (place = "read" /\ \A m \in Messages : Starts(m) => m.method = <<80>> /\ Braced(content))

(***************************************************************************)
(* Held.                                                                   *)
(***************************************************************************)
LEMMA HeldSame ==
  ASSUME Held, UNCHANGED <<chunk, request, high, alone>>, place' # "line",
         place' = "lines" => place \in {"line", "lines"}
  PROVE  Held'
BY DEF Held

LEMMA HeldCut ==
  ASSUME Inv, Held, UNCHANGED <<chunk, high, alone>>, place \in {"line", "lines"},
         place' # "line", NEW e \in pos..Size, Cut(e)
  PROVE  Held'
<1>1. request' = [request EXCEPT ![e] = NUL] /\ request \in [1..Size -> Chars]
  BY DEF Cut, Inv, SlotOK, BufferOK
<1>2. \A j \in 1..Size : j > high => request'[j] = NUL
  BY <1>1 DEF Held
<1> QED
  BY <1>2 DEF Held

LEMMA HeldRead == ASSUME Inv, Held, Read PROVE Held'
<1> DEFINE n == Taken
<1>1. /\ Size \in Nat /\ Size >= 2 /\ net \in Seq(Chars) /\ Len(net) \in Nat
      /\ net \in [1..Len(net) -> Chars] /\ high \in Nat
  BY SizeType, LenProperties DEF Inv, ClientOK, SlotOK
<1>2. n \in 0..Len(net) /\ n \in 0..(Size - 1)
  BY <1>1 DEF Taken
<1>3. /\ chunk' = SubSeq(net, 1, n)
      /\ request' = [j \in 1..Size |-> IF j <= n THEN net[j] ELSE request[j]]
      /\ high' = (IF n > high THEN n ELSE high) /\ alone' = (n >= high)
      /\ place' = "line" /\ pos' = 1 /\ m_map' = {} /\ content' = <<>>
  BY DEF Read
<1> HIDE DEF n
<1>4. Len(chunk') = n /\ \A j \in 1..n : chunk'[j] = net[j]
  <2>1. 1 \in Int /\ n \in Int /\ 1 <= n + 1 /\ \A j \in 1..n : net[j] \in Chars
    BY <1>1, <1>2
  <2>2. /\ Len(SubSeq(net, 1, n)) = n - 1 + 1
        /\ \A j \in 1..(n - 1 + 1) : SubSeq(net, 1, n)[j] = net[1 + j - 1]
    BY <2>1, PartIs
  <2> QED
    BY <1>2, <1>3, <2>2
<1>5. \A j \in 1..Size : j > high' => request'[j] = NUL
  <2> SUFFICES ASSUME NEW j \in 1..Size, j > high' PROVE request'[j] = NUL
    OBVIOUS
  <2>1. ~(j <= n) /\ j > high
    BY <1>1, <1>2, <1>3
  <2> QED
    BY <1>3, <2>1 DEF Held
<1>6. \A j \in 1..n : request'[j] = net[j]
  BY <1>1, <1>2, <1>3
<1>7. ASSUME alone' PROVE high' = n
  <2>1. CASE n < high
    <3>1. (n >= high) = FALSE
      BY <1>1, <1>2, <2>1, SMT
    <3> QED
      BY <1>3, <1>7, <3>1, Zenon
  <2>2. CASE ~(n < high)
    BY <1>1, <1>2, <1>3, <2>2
  <2> QED
    BY <2>1, <2>2
<1>8. n < Size
  BY <1>1, <1>2
<1> QED
  BY <1>3, <1>4, <1>5, <1>6, <1>7, <1>8, Zenon DEF Held

LEMMA HeldReset == ASSUME Inv, Held, FileSent PROVE Held'
<1>1. request' = Cleared /\ place' = "idle" /\ UNCHANGED <<chunk, alone>>
  BY DEF FileSent, Reset, readVars
<1>2. \A j \in 1..Size : request'[j] = NUL
  BY <1>1 DEF Cleared
<1> QED
  BY <1>1, <1>2 DEF Held

LEMMA InitHeld == Init => Held
<1> SUFFICES ASSUME Init PROVE Held
  OBVIOUS
<1>1. Len(chunk) = 0 /\ Size \in Nat /\ Size >= 2 /\ place = "idle"
  BY SizeType DEF Init
<1>2. \A j \in 1..Size : request[j] = NUL
  BY DEF Init, Cleared
<1> QED
  BY <1>1, <1>2 DEF Held

LEMMA StepHeld == Inv /\ Held /\ [Next]_vars => Held'
<1> SUFFICES ASSUME Inv, Held, [Next]_vars PROVE Held'
  OBVIOUS
<1>1. CASE UNCHANGED vars
  BY <1>1 DEF vars, slotVars, readVars, parsedVars, Held
<1>2. CASE Send \/ SendRest
  BY <1>2, HeldSame DEF Send, SendRest, clientKeeps, slotVars, readVars
<1>3. CASE Event \/ ReadEAGAIN \/ LinesEnd \/ Decode \/ Respond
  BY <1>3, HeldSame
     DEF Event, ReadEAGAIN, LinesEnd, Decode, Respond, At, slotVars, readVars, parseKeeps
<1>4. CASE FirstLine
  <2>1. /\ UNCHANGED <<chunk, high, alone>> /\ place = "line" /\ place' = "lines"
    BY <1>4 DEF FirstLine, At, parseKeeps, readVars
  <2>2. CASE NoToken /\ UNCHANGED request
    BY <2>1, <2>2, HeldSame
  <2>3. CASE \E s, e \in pos..Size : Cut(e)
    BY <2>1, <2>3, HeldCut
  <2> QED
    BY <1>4, <2>2, <2>3 DEF FirstLine
<1>5. CASE HeaderLine \/ ContentLine
  <2>1. UNCHANGED <<chunk, high, alone>> /\ place = "lines" /\ place' # "line"
    BY <1>5 DEF HeaderLine, ContentLine, At, parseKeeps, readVars
  <2>2. \E e \in pos..Size : Cut(e)
    BY <1>5 DEF HeaderLine, ContentLine
  <2> QED
    BY <2>1, <2>2, HeldCut
<1> QED
  BY <1>1, <1>2, <1>3, <1>4, <1>5, HeldRead, HeldReset DEF Next, Parse

(***************************************************************************)
(* The request line.                                                       *)
(***************************************************************************)
\* The chunk's characters are those of the message it starts with.
LEMMA StartIs ==
  ASSUME Inv, NEW m \in Messages, Starts(m)
  PROVE  /\ Len(m.text) <= Len(chunk) /\ Len(chunk) \in Nat
         /\ \A j \in 1..Len(m.text) : chunk[j] = m.text[j]
<1>1. /\ chunk \in Seq(Chars) /\ Len(chunk) \in Nat /\ Len(m.text) \in Nat
      /\ chunk \in [1..Len(chunk) -> Chars]
  BY MessageText, LenProperties DEF Inv, LoopOK
<1>2. Len(m.text) <= Len(chunk) /\ SubSeq(chunk, 1, Len(m.text)) = m.text
  BY DEF Starts
<1> DEFINE n == Len(m.text)
<1>3. n \in Nat /\ n <= Len(chunk)
  BY <1>1, <1>2
<1>4. 1 \in Int /\ n \in Int /\ 1 <= n + 1 /\ \A j \in 1..n : chunk[j] \in Chars
  BY <1>1, <1>3
<1>5. \A j \in 1..(n - 1 + 1) : SubSeq(chunk, 1, n)[j] = chunk[1 + j - 1]
  <2> HIDE DEF n
  <2> QED
    BY <1>4, PartIs
<1>6. \A j \in 1..n : SubSeq(chunk, 1, n)[j] = chunk[j]
  <2> HIDE DEF n
  <2> QED
    BY <1>3, <1>5
<1> QED
  BY <1>1, <1>2, <1>6

\* strtok finds a message's line where the message starts the buffer.
LEMMA FirstToken ==
  ASSUME NEW m \in Messages, NEW b \in 1..Len(m.text), NEW d \in 1..Len(m.text),
         NEW e \in 1..Len(m.text), LineAt(m, b, d, e),
         pos = 1, Len(m.text) < Size, \A j \in 1..Len(m.text) : request[j] = m.text[j]
  PROVE  /\ ~NoToken
         /\ \A s, x \in pos..Size : Token(s, x) => s = 1 /\ x = e
<1>1. /\ Size \in Nat /\ Len(m.text) \in Nat /\ e \in Nat /\ 1 < e /\ e <= Len(m.text)
      /\ request[e] = EOL /\ \A j \in 1..(e - 1) : request[j] \notin {EOL, NUL}
  <2>1. /\ b \in Nat /\ d \in Nat /\ e \in Nat /\ 1 < b /\ b + 1 < d /\ d < e
        /\ e <= Len(m.text) /\ m.text[e] = EOL
        /\ \A j \in 1..(e - 1) : m.text[j] \in Chars \ {EOL, NUL}
    BY LineOf
  <2>2. Size \in Nat /\ Len(m.text) \in Nat
    BY SizeType, MessageText
  <2>3. \A j \in 1..(e - 1) : j \in 1..Len(m.text)
    BY <2>1, <2>2
  <2> QED
    BY <2>1, <2>2, <2>3
<1>2. request[1] \notin {EOL, NUL}
  BY <1>1
<1>3. ASSUME NEW s \in pos..Size, \A j \in pos..(s - 1) : request[j] = EOL PROVE s = 1
  <2>1. s # 1 => 1 \in pos..(s - 1)
    BY <1>1
  <2> QED
    BY <1>2, <1>3, <2>1
<1>4. ~NoToken
  BY <1>2, <1>3 DEF NoToken
<1>5. ASSUME NEW s \in pos..Size, NEW x \in pos..Size, Token(s, x) PROVE s = 1 /\ x = e
  <2>1. /\ s = 1 /\ x \in (s + 1)..Size /\ request[x] \in {EOL, NUL}
        /\ \A j \in s..(x - 1) : request[j] \notin {EOL, NUL}
    BY <1>3, <1>5 DEF Token
  <2>2. ~(x < e) /\ ~(e < x)
    BY <1>1, <2>1
  <2> QED
    BY <1>1, <2>1, <2>2
<1> QED
  BY <1>4, <1>5

\* Decoding starts with a message's URL.
LEMMA DecodingStarts ==
  ASSUME NEW m \in Messages, NEW b \in 1..Len(m.text), NEW d \in 1..Len(m.text),
         NEW e \in 1..Len(m.text), LineAt(m, b, d, e),
         url' = SubSeq(m.text, b + 1, d - 1), i' = 1, decodedUrl' = <<>>
  PROVE  Decoding(m)'
<1>1. PICK p \in [1..(Len(m.url) + 1) -> 1..(Len(url') + 1)] : Spells(url', m.url, p)
  BY DEF LineAt
<1>2. p[1] = 1 /\ Len(m.url) \in Nat
  BY <1>1, MessagesAssumption, LenProperties DEF Spells
<1>3. Len(decodedUrl') = 0 /\ 0 + 1 = 1
  OBVIOUS
<1>4. /\ Len(decodedUrl') <= Len(m.url) /\ i' = p[Len(decodedUrl') + 1]
      /\ \A k \in 1..Len(decodedUrl') : decodedUrl'[k] = m.url[k]
  BY <1>2, <1>3
<1> QED
  BY <1>1, <1>4 DEF Decoding

\* A round of the loop decodes one more character of it.
LEMMA DecodingSteps ==
  ASSUME UrlInv, NEW m \in Messages, Decoding(m), UrlStep PROVE Decoding(m)'
<1>1. /\ url \in Seq(Chars) /\ decodedUrl \in Seq(Chars) /\ i <= Len(url) /\ url' = url
      /\ Len(url) \in Nat /\ Len(decodedUrl) \in Nat /\ Len(m.url) \in Nat
      /\ m.url \in [1..Len(m.url) -> Chars]
  BY LenProperties, MessagesAssumption
     DEF UrlInv, UrlTypeOK, UrlStep, PlainChar, EscapedChar
<1>2. PICK p \in [1..(Len(m.url) + 1) -> 1..(Len(url) + 1)] :
        /\ Spells(url, m.url, p)
        /\ Len(decodedUrl) <= Len(m.url) /\ i = p[Len(decodedUrl) + 1]
        /\ \A k \in 1..Len(decodedUrl) : decodedUrl[k] = m.url[k]
  BY DEF Decoding
<1> DEFINE n == Len(decodedUrl)
<1>3. n + 1 \in 1..Len(m.url)
  <2>1. p[Len(m.url) + 1] = Len(url) + 1
    BY <1>2 DEF Spells
  <2>2. n # Len(m.url)
    BY <1>1, <1>2, <2>1
  <2> QED
    BY <1>1, <1>2, <2>2
<1>4. IF url[i] = Percent /\ i + 2 <= Len(url)
      THEN /\ HexValue(url[i + 1]) >= 0 /\ HexValue(url[i + 2]) >= 0
           /\ m.url[n + 1] = 16 * HexValue(url[i + 1]) + HexValue(url[i + 2])
           /\ p[(n + 1) + 1] = i + 3
      ELSE m.url[n + 1] = Lower(url[i]) /\ p[(n + 1) + 1] = i + 1
  <2> HIDE DEF n
  <2> QED
    BY <1>2, <1>3 DEF Spells, n
<1>5. decodedUrl' = Append(decodedUrl, m.url[n + 1]) /\ i' = p[(n + 1) + 1]
  <2>1. CASE PlainChar
    BY <1>4, <2>1 DEF PlainChar, Escape
  <2>2. CASE EscapedChar
    BY <1>4, <2>2 DEF EscapedChar, Escape, Decoded
  <2> QED
    BY <2>1, <2>2 DEF UrlStep
<1>6. m.url[n + 1] \in Chars
  BY <1>1, <1>3
<1>7. /\ Len(decodedUrl') = n + 1
      /\ \A k \in 1..n : decodedUrl'[k] = decodedUrl[k]
      /\ decodedUrl'[n + 1] = m.url[n + 1]
  BY <1>1, <1>5, <1>6, AppendProperties
<1> HIDE DEF n
<1>8. \A k \in 1..(n + 1) : decodedUrl'[k] = m.url[k]
  <2>1. \A k \in 1..n : decodedUrl[k] = m.url[k]
    BY <1>2 DEF n
  <2>2. n \in Nat
    BY <1>1 DEF n
  <2> QED
    BY <1>7, <2>1, <2>2
<1>9. Spells(url', m.url, p) /\ p \in [1..(Len(m.url) + 1) -> 1..(Len(url') + 1)]
  BY <1>1, <1>2
<1>10. Len(decodedUrl') <= Len(m.url)
  BY <1>1, <1>3, <1>7
<1> QED
  BY <1>5, <1>7, <1>8, <1>9, <1>10 DEF Decoding

\* A decoded URL is the message's, and not empty.
LEMMA DecodingEnds ==
  ASSUME UrlInv, NEW m \in Messages, Decoding(m), UrlRead
  PROVE  decodedUrl = m.url
<1>1. /\ url \in Seq(Chars) /\ decodedUrl \in Seq(Chars) /\ i > Len(url)
      /\ Len(url) \in Nat /\ Len(decodedUrl) \in Nat /\ Len(m.url) \in Nat /\ m.url \in Seq(Chars)
  BY LenProperties, MessagesAssumption DEF UrlInv, UrlTypeOK, UrlRead
<1>2. PICK p \in [1..(Len(m.url) + 1) -> 1..(Len(url) + 1)] :
        /\ Spells(url, m.url, p)
        /\ Len(decodedUrl) <= Len(m.url) /\ i = p[Len(decodedUrl) + 1]
        /\ \A k \in 1..Len(decodedUrl) : decodedUrl[k] = m.url[k]
  BY DEF Decoding
<1> DEFINE n == Len(decodedUrl)
<1>3. ASSUME n < Len(m.url) PROVE FALSE
  <2>1. n + 1 \in 1..Len(m.url)
    BY <1>1, <1>3
  <2>2. p[n + 1] <= Len(url)
    BY <1>2, <2>1 DEF Spells
  <2> QED
    BY <1>1, <1>2, <2>1, <2>2
<1>4. Len(decodedUrl) = Len(m.url)
  BY <1>1, <1>2, <1>3
<1> QED
  BY <1>1, <1>2, <1>4, SeqEqual

LEMMA UrlNotEmpty == ASSUME NEW m \in Messages PROVE m.url # <<>>
<1>1. PICK b, d, e \in 1..Len(m.text) : LineAt(m, b, d, e)
  BY MessagesAssumption
<1> DEFINE u == SubSeq(m.text, b + 1, d - 1)
<1>2. /\ b \in Nat /\ d \in Nat /\ e \in Nat /\ 1 < b /\ b + 1 < d /\ d < e
      /\ \A j \in 1..(e - 1) : m.text[j] \in Chars
  BY <1>1, LineOf
<1>3. /\ b + 1 \in Int /\ d - 1 \in Int /\ b + 1 <= (d - 1) + 1
      /\ \A j \in (b + 1)..(d - 1) : m.text[j] \in Chars
  BY <1>2
<1>4. Len(u) = (d - 1) - (b + 1) + 1
  BY <1>3, PartIs
<1>5. PICK p \in [1..(Len(m.url) + 1) -> 1..(Len(u) + 1)] : Spells(u, m.url, p)
  BY <1>1 DEF LineAt
<1>6. p[1] = 1 /\ p[Len(m.url) + 1] = Len(u) + 1
  BY <1>5 DEF Spells
<1> HIDE DEF u
<1>7. Len(m.url) # 0
  BY <1>2, <1>4, <1>6
<1> QED
  BY <1>7

LEMMA InitLine == Init => LineRead /\ UrlDone /\ Alive
<1> SUFFICES ASSUME Init PROVE LineRead /\ UrlDone /\ Alive
  OBVIOUS
<1>1. chunk = <<>> /\ Len(chunk) = 0 /\ up = TRUE /\ url = <<>> /\ i = 1 /\ Len(url) = 0
  BY DEF Init
<1>2. UrlDone /\ Alive
  BY <1>1 DEF UrlDone, UrlRead, Alive
<1>3. ASSUME NEW m \in Messages, Starts(m) PROVE FALSE
  <2>1. PICK b, d, e \in 1..Len(m.text) : LineAt(m, b, d, e)
    BY MessagesAssumption
  <2>2. Len(m.text) \in Nat /\ Len(m.text) <= 0
    BY <1>1, <1>3, MessageText DEF Starts
  <2> QED
    BY <2>1, <2>2
<1> QED
  BY <1>2, <1>3 DEF LineRead

\* FirstLine reads the method and starts with the URL of the message that starts the chunk.
LEMMA LineFirst ==
  ASSUME Inv, Held, FirstLine, NEW m \in Messages, Starts(m),
         NEW b \in 1..Len(m.text), NEW d \in 1..Len(m.text), NEW e \in 1..Len(m.text),
         LineAt(m, b, d, e)
  PROVE  /\ method' = m.method /\ Decoding(m)'
         /\ pos = 1 /\ e \in pos..Size /\ Cut(e)
         /\ \A j \in 1..Len(m.text) : request[j] = m.text[j]
<1>1. place = "line" /\ Size \in Nat
  BY SizeType DEF FirstLine, At
<1>2. pos = 1 /\ Len(chunk) < Size /\ \A j \in 1..Len(chunk) : request[j] = chunk[j]
  BY <1>1 DEF Held
<1>3. /\ Len(m.text) <= Len(chunk) /\ Len(chunk) \in Nat /\ Len(m.text) \in Nat
      /\ \A j \in 1..Len(m.text) : chunk[j] = m.text[j]
  BY StartIs, MessageText
<1>4. Len(m.text) < Size /\ \A j \in 1..Len(m.text) : request[j] = m.text[j]
  <2>1. \A j \in 1..Len(m.text) : j \in 1..Len(chunk)
    BY <1>3
  <2> QED
    BY <1>1, <1>2, <1>3, <2>1
<1>5. ~NoToken /\ \A s, x \in pos..Size : Token(s, x) => s = 1 /\ x = e
  BY <1>2, <1>4, FirstToken
<1>6. PICK s, x \in pos..Size :
        Token(s, x) /\ RequestLine(SubSeq(request, s, x - 1)) /\ Cut(x)
  BY <1>5 DEF FirstLine
<1>7. s = 1 /\ x = e
  BY <1>5, <1>6
<1>8. /\ b \in Nat /\ d \in Nat /\ e \in Nat /\ 1 < b /\ b + 1 < d /\ d < e
      /\ e <= Len(m.text) /\ \A j \in 1..(e - 1) : m.text[j] \in Chars
  BY LineOf
<1> DEFINE t == SubSeq(request, 1, e - 1)
<1>9. \A j \in 1..(e - 1) : j \in 1..Len(m.text)
  BY <1>3, <1>8
<1>10. t \in Seq(Chars) /\ Len(t) = e - 1 /\ \A j \in 1..(e - 1) : t[j] = m.text[j]
  <2>1. /\ 1 \in Int /\ e - 1 \in Int /\ 1 <= (e - 1) + 1
        /\ \A j \in 1..(e - 1) : request[j] \in Chars
    BY <1>4, <1>8, <1>9
  <2>2. /\ t \in Seq(Chars) /\ Len(t) = (e - 1) - 1 + 1
        /\ \A j \in 1..((e - 1) - 1 + 1) : t[j] = request[1 + j - 1]
    BY <2>1, PartIs
  <2> HIDE DEF t
  <2>3. \A j \in 1..(e - 1) : t[j] = request[j]
    BY <1>8, <2>2
  <2> QED
    BY <1>4, <1>8, <1>9, <2>2, <2>3
<1>11. RequestLine(t)
  BY <1>6, <1>7
<1> HIDE DEF t
<1>12. /\ method' = m.method /\ url' = SubSeq(m.text, b + 1, d - 1)
       /\ i' = 1 /\ decodedUrl' = <<>>
  BY <1>10, <1>11, RequestLineIs
<1>13. Decoding(m)'
  BY <1>12, DecodingStarts
<1> QED
  BY <1>2, <1>4, <1>6, <1>7, <1>12, <1>13

LEMMA LineSame ==
  ASSUME LineRead, UrlDone, Alive, UNCHANGED <<urlVars, method, chunk, up>>,
         up \/ UNCHANGED <<content, place>>, place' = "line" <=> place = "line",
         place' \in {"read", "out", "idle"} => place \in {"read", "out", "idle"}
  PROVE  LineRead' /\ UrlDone' /\ Alive'
<1>1. url' = url /\ i' = i /\ decodedUrl' = decodedUrl
  BY DEF urlVars
<1>2. \A m : (Starts(m)' <=> Starts(m)) /\ (Decoding(m)' <=> Decoding(m))
  BY <1>1 DEF Starts, Decoding
<1>3. UrlRead' <=> UrlRead
  BY <1>1 DEF UrlRead
<1> QED
  BY <1>2, <1>3 DEF LineRead, UrlDone, Alive

LEMMA StepLine ==
  Inv /\ Held /\ LineRead /\ UrlDone /\ Alive /\ [Next]_vars => LineRead' /\ UrlDone' /\ Alive'
<1> SUFFICES ASSUME Inv, Held, LineRead, UrlDone, Alive, [Next]_vars
             PROVE  LineRead' /\ UrlDone' /\ Alive'
  OBVIOUS
<1>1. CASE UNCHANGED vars
  BY <1>1, LineSame DEF vars, readVars, parsedVars
<1>2. CASE Send \/ SendRest
  BY <1>2, LineSame DEF Send, SendRest, clientKeeps, readVars, parsedVars
<1>3. CASE Event \/ ReadEAGAIN \/ FileSent
  BY <1>3, LineSame DEF Event, ReadEAGAIN, FileSent, At, readVars, parsedVars
<1>4. CASE HeaderLine \/ ContentLine \/ LinesEnd
  BY <1>4, LineSame DEF HeaderLine, ContentLine, LinesEnd, At, parseKeeps, readVars, parsedVars
<1>5. CASE Read
  <2>1. place' = "line" /\ up' = up /\ up
    BY <1>5 DEF Read, At
  <2> QED
    BY <2>1 DEF LineRead, UrlDone, Alive
<1>6. CASE FirstLine
  <2>1. UNCHANGED <<chunk, up>> /\ up /\ place' = "lines"
    BY <1>6 DEF FirstLine, At, parseKeeps, readVars
  <2>2. ASSUME NEW m \in Messages, Starts(m) PROVE method' = m.method /\ Decoding(m)'
    <3>1. PICK b, d, e \in 1..Len(m.text) : LineAt(m, b, d, e)
      BY MessagesAssumption
    <3> QED
      BY <1>6, <2>2, <3>1, LineFirst
  <2>3. \A m : Starts(m)' <=> Starts(m)
    BY <2>1 DEF Starts
  <2> QED
    BY <2>1, <2>2, <2>3 DEF LineRead, UrlDone, Alive
<1>7. CASE Decode
  <2>1. UNCHANGED <<chunk, up, method>> /\ up /\ place = "url" /\ place' = "url" /\ UrlStep
    BY <1>7 DEF Decode, At, readVars, parsedVars
  <2>2. \A m : Starts(m)' <=> Starts(m)
    BY <2>1 DEF Starts
  <2>3. \A m \in Messages : Starts(m) => method = m.method /\ Decoding(m)
    BY <2>1 DEF LineRead
  <2>4. \A m \in Messages : Starts(m) => Decoding(m)'
    BY <2>1, <2>3, DecodingSteps DEF Inv
  <2> QED
    BY <2>1, <2>2, <2>3, <2>4 DEF LineRead, UrlDone, Alive
<1>8. CASE Respond
  <2>1. /\ UNCHANGED <<chunk, method, content, url, i, decodedUrl>>
        /\ place = "url" /\ place' = "read" /\ UrlRead
        /\ up' \in IF decodedUrl = <<>> THEN {FALSE}
                   ELSE IF method = <<80>> /\ Braced(content) THEN BOOLEAN ELSE {TRUE}
    BY <1>8 DEF Respond, At, readVars, parsedVars, urlVars
  <2>2. \A m : (Starts(m)' <=> Starts(m)) /\ (Decoding(m)' <=> Decoding(m))
    BY <2>1 DEF Starts, Decoding
  <2>3. \A m \in Messages : Starts(m) => method = m.method /\ Decoding(m)
    BY <2>1 DEF LineRead
  <2>4. LineRead' /\ UrlDone'
    BY <2>1, <2>2, <2>3 DEF LineRead, UrlDone, UrlRead
  <2>5. ASSUME NEW m \in Messages, Starts(m) PROVE decodedUrl # <<>>
    BY <2>1, <2>3, <2>5, DecodingEnds, UrlNotEmpty DEF Inv
  <2>6. CASE up'
    BY <2>4, <2>6 DEF Alive
  <2>7. CASE ~up'
    <3>1. ASSUME NEW m \in Messages, Starts(m) PROVE m.method = <<80>> /\ Braced(content)
      BY <2>1, <2>3, <2>5, <2>7, <3>1
    <3> QED
      BY <2>1, <2>2, <2>4, <3>1 DEF Alive, Braced
  <2> QED
    BY <2>6, <2>7
<1> QED
  BY <1>1, <1>2, <1>3, <1>4, <1>5, <1>6, <1>7, <1>8 DEF Next, Parse

\* Every variable of the request's parsing keeps its type, whatever the messages are, however
\* they arrive and whatever Size is: strtok always finds the NUL that ends the buffer
\* (main's read of BUFSIZE - 1 bytes, prase, reset).
THEOREM TypeCorrect == Spec => []TypeOK
BY InvHolds, InvTyped, PTL

\* A URL without escapes is decoded to itself in lower case (prase_url).
THEOREM LoweredCorrect == Spec => []Lowered
<1>1. Inv => Lowered
  BY DEF Inv, UrlInv
<1> QED
  BY <1>1, InvHolds, PTL

\* An upper-case letter that is left in a decoded URL was escaped (prase_url).
THEOREM UpperCorrect == Spec => []UpperEscaped
<1>1. Inv => UpperEscaped
  BY DEF Inv, UrlInv
<1> QED
  BY <1>1, InvHolds, PTL

(***************************************************************************)
(* The headers and the body.                                               *)
(***************************************************************************)
LEMMA TrimIs ==
  ASSUME NEW v \in Seq(Chars), NEW a \in 1..Len(v), NEW b \in 1..Len(v),
         v[a] # SP, v[b] # SP, \A j \in 1..Len(v) : v[j] # SP => j \in a..b
  PROVE  Trim(v) = SubSeq(v, a, b)
<1> DEFINE seen == {j \in 1..Len(v) : v[j] # SP}
           lo == CHOOSE j \in seen : \A k \in seen : j <= k
           hi == CHOOSE j \in seen : \A k \in seen : k <= j
<1>1. Len(v) \in Nat
  BY LenProperties
<1>2. a \in seen /\ b \in seen /\ seen \subseteq Int /\ \A k \in seen : a <= k /\ k <= b
  BY <1>1
<1>3. Trim(v) = IF seen = {} THEN <<SP>> \o v ELSE SubSeq(v, lo, hi)
  BY DEF Trim
<1> HIDE DEF seen
<1>4. \A j \in seen : (\A k \in seen : j <= k) => j = a
  BY <1>2
<1>5. \A j \in seen : (\A k \in seen : k <= j) => j = b
  BY <1>2
<1>6. lo = a
  BY <1>2, <1>4
<1>7. hi = b
  BY <1>2, <1>5
<1> HIDE DEF lo, hi
<1> QED
  BY <1>2, <1>3, <1>6, <1>7

\* A line that is a header is parsed into it.
LEMMA SaysParsed ==
  ASSUME NEW t \in Seq(Chars), NEW h \in Seq(Chars) \X Seq(Chars), Says(t, h)
  PROVE  /\ Until(t, 1, {SEP}) \in 1..Len(t)
         /\ h = <<SubSeq(t, 1, Until(t, 1, {SEP}) - 1),
                  Trim(SubSeq(t, Until(t, 1, {SEP}) + 1, Len(t)))>>
<1>1. Len(t) \in Nat
  BY LenProperties
<1>2. PICK c \in 1..Len(t) :
    /\ t[c] = SEP /\ \A j \in 1..(c - 1) : t[j] # SEP
    /\ h[1] = SubSeq(t, 1, c - 1)
    /\ LET v == SubSeq(t, c + 1, Len(t)) IN
       \/ (\A j \in 1..Len(v) : v[j] = SP) /\ h[2] = <<SP>> \o v
       \/ \E a, b \in 1..Len(v) :
            /\ v[a] # SP /\ v[b] # SP /\ \A j \in 1..Len(v) : v[j] # SP => j \in a..b
            /\ h[2] = SubSeq(v, a, b)
  BY DEF Says
<1>3. Until(t, 1, {SEP}) = c
  <2>1. 1 \in 1..(Len(t) + 1) /\ c \in 1..(Len(t) + 1)
    BY <1>1
  <2>2. t[c] \in {SEP} /\ \A k \in 1..(c - 1) : t[k] \notin {SEP}
    BY <1>2
  <2> QED
    BY <2>1, <2>2, UntilIs
<1> DEFINE v == SubSeq(t, c + 1, Len(t))
<1>4. v \in Seq(Chars)
  BY <1>1, PartOfText
<1>5. h[2] = Trim(v)
  <2>1. CASE (\A j \in 1..Len(v) : v[j] = SP) /\ h[2] = <<SP>> \o v
    <3> HIDE DEF v
    <3>1. {j \in 1..Len(v) : v[j] # SP} = {}
      BY <2>1
    <3> QED
      BY <2>1, <3>1 DEF Trim
  <2>2. CASE \E a, b \in 1..Len(v) :
               /\ v[a] # SP /\ v[b] # SP /\ \A j \in 1..Len(v) : v[j] # SP => j \in a..b
               /\ h[2] = SubSeq(v, a, b)
    <3> HIDE DEF v
    <3> QED
      BY <1>4, <2>2, TrimIs
  <2> QED
    BY <1>2, <2>1, <2>2
<1>6. h = <<h[1], h[2]>>
  OBVIOUS
<1> HIDE DEF v
<1> QED
  BY <1>2, <1>3, <1>5, <1>6 DEF v

\* The headers that the lines of m before p say.
HeadersBefore(m, z, p) ==
  {h \in m.headers : \E l \in LinesBefore(m, z) : l[2] < p /\ Says(Line(m, l), h)}

\* The lines of m are parsed up to pos; z is where the empty one is.
Through(m, z) ==
  /\ PlainAt(m, z) /\ pos \in 2..z /\ m.text[pos - 1] = EOL
  /\ \A j \in pos..Len(chunk) : request[j] = chunk[j]
  /\ \A j \in (Len(chunk) + 1)..Size : request[j] = NUL
  /\ m_map = HeadersBefore(m, z, pos) /\ content = <<>>

\* What Followed says of the messages sent, of any.
Joined(m) ==
  \E n \in Messages : \A j \in 1..Len(n.text) :
    Len(m.text) + j <= Len(chunk) => chunk[Len(m.text) + j] = n.text[j]

Parsed ==
  \A m \in Messages : Starts(m) /\ Joined(m) /\ alone /\ m.plain =>
    \/ place = "line"
    \/ place = "lines" /\ \E z \in 2..Len(m.text) : Through(m, z)
    \/ /\ place \notin {"line", "lines"} /\ m_map = m.headers
       /\ chunk = m.text => content = m.body

\* What PlainAt says of the places of line ends.
LEMMA PlainIs ==
  ASSUME NEW m \in Messages, NEW z \in 2..Len(m.text), PlainAt(m, z)
  PROVE  /\ m.text[z - 1] = EOL /\ m.text[z] = EOL
         /\ \A j \in 2..(z - 1) : m.text[j - 1] = EOL => m.text[j] # EOL
         /\ \A j \in (z + 1)..Len(m.text) : m.text[j] \notin {EOL, SEP}
         /\ z \in Nat /\ Len(m.text) \in Nat /\ Size \in Nat /\ 2 <= z /\ z <= Len(m.text)
<1>1. z \in Nat /\ Len(m.text) \in Nat /\ Size \in Nat /\ 2 <= z /\ z <= Len(m.text)
  BY MessageText, SizeType
<1>2. /\ m.text[z - 1] = EOL /\ m.text[z] = EOL
      /\ \A j \in 2..(z - 1) : m.text[j - 1] = EOL => m.text[j] # EOL
      /\ \A j \in (z + 1)..Len(m.text) : m.text[j] \notin {EOL, SEP}
  BY Zenon DEF PlainAt
<1> QED
  BY <1>1, <1>2

\* A line is in m whole, and one that ends where another does is that one.
LEMMA LinesAre ==
  ASSUME NEW m \in Messages, NEW z \in 2..Len(m.text), PlainAt(m, z),
         NEW l \in LinesBefore(m, z)
  PROVE  /\ l = <<l[1], l[2]>> /\ l[1] \in 2..z /\ l[2] \in 2..z /\ l[1] < l[2] /\ l[2] < z
         /\ m.text[l[1] - 1] = EOL /\ m.text[l[2]] = EOL
         /\ \A j \in l[1]..(l[2] - 1) : m.text[j] # EOL
<1>1. /\ l \in (2..z) \X (2..z) /\ l[1] < l[2]
      /\ m.text[l[1] - 1] = EOL /\ m.text[l[2]] = EOL
      /\ \A j \in l[1]..(l[2] - 1) : m.text[j] # EOL
  BY DEF LinesBefore
<1>2. l = <<l[1], l[2]>> /\ l[1] \in 2..z /\ l[2] \in 2..z
  BY <1>1
<1>3. l[2] # z
  <2>1. m.text[z - 1] = EOL /\ z \in Nat
    BY PlainIs
  <2>2. l[2] = z => z - 1 \in l[1]..(l[2] - 1)
    BY <1>1, <1>2, <2>1
  <2> QED
    BY <1>1, <2>1, <2>2
<1>4. l[2] < z
  <2>1. z \in Nat
    BY PlainIs
  <2> QED
    BY <1>2, <1>3, <2>1
<1> QED
  BY <1>1, <1>2, <1>4

\* What is left of m in the buffer.
LEMMA LeftOf ==
  ASSUME Inv, Held, NEW m \in Messages, Starts(m), NEW z \in 2..Len(m.text), Through(m, z)
  PROVE  /\ Len(chunk) \in Nat /\ Len(m.text) <= Len(chunk) /\ Len(chunk) < Size
         /\ \A j \in pos..Len(m.text) : request[j] = m.text[j]
<1>1. /\ Len(m.text) <= Len(chunk) /\ Len(chunk) \in Nat /\ Len(m.text) \in Nat
      /\ \A j \in 1..Len(m.text) : chunk[j] = m.text[j]
  BY StartIs, MessageText
<1>2. pos \in 2..z /\ z \in Nat /\ \A j \in pos..Len(chunk) : request[j] = chunk[j]
  BY PlainIs DEF Through
<1>3. \A j \in pos..Len(m.text) : j \in 1..Len(m.text) /\ j \in pos..Len(chunk)
  BY <1>1, <1>2
<1> QED
  BY <1>1, <1>2, <1>3 DEF Held

\* Before the empty line strtok finds the next line of m.
LEMMA NextToken ==
  ASSUME NEW m \in Messages, NEW z \in 2..Len(m.text), Through(m, z), pos < z,
         Len(m.text) < Size, \A j \in pos..Len(m.text) : request[j] = m.text[j]
  PROVE  /\ ~NoToken
         /\ \A s, e \in pos..Size : Token(s, e) =>
              /\ s = pos /\ e < z /\ <<s, e>> \in LinesBefore(m, z)
              /\ SubSeq(request, s, e - 1) = Line(m, <<s, e>>)
              /\ SubSeq(request, s, e - 1) \in Seq(Chars)
<1>1. /\ m.text[z - 1] = EOL /\ z \in Nat /\ Len(m.text) \in Nat /\ Size \in Nat
      /\ 2 <= z /\ z <= Len(m.text)
      /\ \A j \in 2..(z - 1) : m.text[j - 1] = EOL => m.text[j] # EOL
  BY PlainIs DEF Through
<1>2. pos \in 2..z /\ m.text[pos - 1] = EOL
  BY DEF Through
<1>3. \A j \in 1..Len(m.text) : m.text[j] \in Chars /\ m.text[j] # NUL
  BY MessageText
<1>4. request[pos] \notin {EOL, NUL}
  <2>1. pos \in 2..(z - 1) /\ pos \in 1..Len(m.text) /\ pos \in pos..Len(m.text)
    BY <1>1, <1>2
  <2> QED
    BY <1>1, <1>2, <1>3, <2>1
<1>5. ASSUME NEW s \in pos..Size, \A j \in pos..(s - 1) : request[j] = EOL PROVE s = pos
  <2>1. s # pos => pos \in pos..(s - 1)
    BY <1>1, <1>2
  <2> QED
    BY <1>4, <1>5, <2>1
<1>6. ~NoToken
  BY <1>4, <1>5 DEF NoToken
<1>7. ASSUME NEW s \in pos..Size, NEW e \in pos..Size, Token(s, e)
      PROVE  /\ s = pos /\ e < z /\ <<s, e>> \in LinesBefore(m, z)
             /\ SubSeq(request, s, e - 1) = Line(m, <<s, e>>)
             /\ SubSeq(request, s, e - 1) \in Seq(Chars)
  <2>1. /\ s = pos /\ e \in (s + 1)..Size /\ request[e] \in {EOL, NUL}
        /\ \A j \in s..(e - 1) : request[j] \notin {EOL, NUL}
    BY <1>5, <1>7 DEF Token
  <2>2. e < z
    <3>1. ~(e < z) => z - 1 \in s..(e - 1) /\ z - 1 \in pos..Len(m.text)
      BY <1>1, <1>2, <2>1
    <3> QED
      BY <1>1, <1>2, <2>1, <3>1
  <2>3. \A j \in s..e : j \in pos..Len(m.text) /\ j \in 1..Len(m.text)
    BY <1>1, <1>2, <2>1, <2>2
  <2>4. /\ m.text[e] = EOL /\ e \in s..e
        /\ \A j \in s..(e - 1) : m.text[j] # EOL /\ request[j] \in Chars /\ request[j] = m.text[j]
    <3>1. e \in s..e /\ \A j \in s..(e - 1) : j \in s..e
      BY <1>2, <2>1
    <3> QED
      BY <1>2, <1>3, <2>1, <2>3, <3>1
  <2>5. <<s, e>> \in LinesBefore(m, z)
    <3> DEFINE l == <<s, e>>
    <3>1. s \in 2..z /\ e \in 2..z /\ s < e /\ m.text[s - 1] = EOL
      BY <1>1, <1>2, <2>1, <2>2
    <3>2. l[1] = s /\ l[2] = e /\ l \in (2..z) \X (2..z)
      BY <3>1
    <3> HIDE DEF l
    <3>3. l \in LinesBefore(m, z)
      BY <2>4, <3>1, <3>2 DEF LinesBefore
    <3> QED
      BY <3>3 DEF l
  <2>6. s \in Int /\ e - 1 \in Int /\ s <= (e - 1) + 1
    BY <1>2, <2>1
  <2>7. SubSeq(request, s, e - 1) = Line(m, <<s, e>>)
    <3>1. SubSeq(request, s, e - 1) = SubSeq(m.text, s, e - 1)
      BY <2>4, <2>6, SamePart
    <3> QED
      BY <3>1 DEF Line
  <2>8. SubSeq(request, s, e - 1) \in Seq(Chars)
    BY <2>4, <2>6, PartIs
  <2> QED
    BY <2>1, <2>2, <2>5, <2>7, <2>8
<1> QED
  BY <1>6, <1>7

\* At the empty line only the body and what follows m are left: up to its end the next line
\* has no colon and space.
LEMMA LastToken ==
  ASSUME Inv, Held, NEW m \in Messages, Starts(m), Joined(m),
         NEW z \in 2..Len(m.text), Through(m, z), pos = z
  PROVE  /\ NoToken /\ chunk = m.text => m.body = <<>>
         /\ \A s, e \in pos..Size : Token(s, e) =>
              /\ SubSeq(request, s, e - 1) \in Seq(Chars)
              /\ Until(SubSeq(request, s, e - 1), 1, {SEP}) > Len(SubSeq(request, s, e - 1))
              /\ chunk = m.text => SubSeq(request, s, e - 1) = m.body
<1> DEFINE n == Len(m.text)
           k == Len(chunk)
<1>1. /\ z \in Nat /\ n \in Nat /\ k \in Nat /\ Size \in Nat
      /\ 2 <= z /\ z <= n /\ n <= k /\ k < Size
      /\ m.text[z] = EOL /\ \A j \in (z + 1)..n : m.text[j] \notin {EOL, SEP}
  BY PlainIs, LeftOf DEF Through
<1>2. /\ \A j \in z..n : request[j] = m.text[j]
      /\ \A j \in z..k : request[j] = chunk[j]
      /\ \A j \in (k + 1)..Size : request[j] = NUL
      /\ m.body = SubSeq(m.text, z + 1, n)
  <2>1. \A j \in pos..n : request[j] = m.text[j]
    BY LeftOf
  <2> QED
    BY <2>1 DEF Through, PlainAt
<1>3. \A j \in 1..n : m.text[j] \in Chars /\ m.text[j] # NUL
  BY MessageText
<1>4. PICK f \in Messages : \A j \in 1..Len(f.text) : n + j <= k => chunk[n + j] = f.text[j]
  BY DEF Joined
<1>5. PICK b, d, x \in 1..Len(f.text) : LineAt(f, b, d, x)
  BY MessagesAssumption
<1>6. /\ x \in Nat /\ 2 <= x /\ Len(f.text) \in Nat /\ x <= Len(f.text) /\ f.text[x] = EOL
      /\ \A j \in 1..(x - 1) : f.text[j] \in Chars \ {EOL, NUL, SEP}
  <2>1. /\ b \in Nat /\ d \in Nat /\ x \in Nat /\ 1 < b /\ b + 1 < d /\ d < x
        /\ x <= Len(f.text) /\ f.text[x] = EOL
        /\ \A j \in 1..(x - 1) : f.text[j] \in Chars \ {EOL, NUL}
    BY <1>5, LineOf
  <2>2. \A j \in 1..(x - 1) : f.text[j] # SEP
    BY <1>5 DEF LineAt
  <2>3. 2 <= x /\ Len(f.text) \in Nat
    BY <2>1, MessageText
  <2> QED
    BY <2>1, <2>2, <2>3
<1> HIDE DEF n, k
<1>7. request[z] = EOL
  BY <1>1, <1>2
<1>8. \A j \in (z + 1)..k : j < n + x => request[j] \in Chars \ {EOL, NUL, SEP}
  <2> SUFFICES ASSUME NEW j \in (z + 1)..k, j < n + x
               PROVE  request[j] \in Chars \ {EOL, NUL, SEP}
    OBVIOUS
  <2>1. CASE j <= n
    <3>1. j \in z..n /\ j \in 1..n /\ j \in (z + 1)..n
      BY <1>1, <2>1
    <3> QED
      BY <1>1, <1>2, <1>3, <3>1
  <2>2. CASE ~(j <= n)
    <3>1. /\ j - n \in 1..(x - 1) /\ j - n \in 1..Len(f.text) /\ n + (j - n) = j
          /\ j <= k /\ j \in z..k
      BY <1>1, <1>6, <2>2
    <3>2. request[j] = f.text[j - n]
      BY <1>2, <1>4, <3>1
    <3> QED
      BY <1>6, <3>1, <3>2
  <2> QED
    BY <2>1, <2>2
<1>9. n + x <= k => request[n + x] = EOL
  <2>1. n + x <= k => x \in 1..Len(f.text) /\ n + x \in z..k
    BY <1>1, <1>6
  <2> QED
    BY <1>2, <1>4, <1>6, <2>1
<1>10. request[z + 1] # EOL
  <2>1. z + 1 < n + x /\ (z + 1 \in (z + 1)..k \/ z + 1 \in (k + 1)..Size)
    BY <1>1, <1>6
  <2> QED
    BY <1>2, <1>8, <2>1 DEF NUL, EOL
<1>11. request[k + 1] = NUL
  <2>1. k + 1 \in (k + 1)..Size
    BY <1>1
  <2> QED
    BY <1>2, <2>1
<1>12. ASSUME NoToken, chunk = m.text PROVE m.body = <<>>
  <2>1. PICK s \in pos..Size : request[s] = NUL /\ \A j \in pos..(s - 1) : request[j] = EOL
    BY <1>12 DEF NoToken
  <2>2. s = z + 1
    <3>1. s # z
      BY <1>7, <2>1 DEF NUL, EOL
    <3>2. s > z + 1 => z + 1 \in pos..(s - 1)
      BY <1>1, <2>1
    <3> QED
      BY <1>1, <1>10, <2>1, <3>1, <3>2
  <2>3. k = n
    BY <1>12 DEF k, n
  <2>4. ~(z + 1 <= n)
    <3>1. z + 1 <= n => z + 1 \in (z + 1)..k /\ z + 1 < n + x
      BY <1>1, <1>6, <2>3
    <3> QED
      BY <1>8, <2>1, <2>2, <3>1
  <2> QED
    BY <1>1, <1>2, <2>4, SubSeqEmpty
<1>13. ASSUME NEW s \in pos..Size, NEW e \in pos..Size, Token(s, e)
       PROVE  /\ SubSeq(request, s, e - 1) \in Seq(Chars)
              /\ Until(SubSeq(request, s, e - 1), 1, {SEP}) > Len(SubSeq(request, s, e - 1))
              /\ chunk = m.text => SubSeq(request, s, e - 1) = m.body
  <2> DEFINE t == SubSeq(request, s, e - 1)
  <2>1. /\ e \in (s + 1)..Size /\ request[e] \in {EOL, NUL}
        /\ \A j \in pos..(s - 1) : request[j] = EOL
        /\ \A j \in s..(e - 1) : request[j] \notin {EOL, NUL}
    BY <1>13 DEF Token
  <2>2. s = z + 1
    <3>1. s # z
      <4>1. s \in s..(e - 1)
        BY <1>1, <2>1
      <4> QED
        BY <1>7, <2>1, <4>1
    <3>2. s > z + 1 => z + 1 \in pos..(s - 1)
      BY <1>1, <2>1
    <3> QED
      BY <1>1, <1>10, <2>1, <3>1, <3>2
  <2>3. e <= k + 1
    <3>1. e > k + 1 => k + 1 \in s..(e - 1)
      <4>1. e > k + 1 => z + 1 <= k + 1
        BY <1>1
      <4> QED
        BY <1>1, <2>1, <2>2, <4>1
    <3> QED
      BY <1>1, <1>11, <2>1, <3>1
  <2>4. e <= n + x
    <3> SUFFICES ASSUME e > n + x PROVE FALSE
      BY <1>1, <1>6
    <3>1. n + x \in s..(e - 1) /\ n + x <= k
      BY <1>1, <1>6, <2>1, <2>2, <2>3
    <3> QED
      BY <1>9, <2>1, <3>1
  <2>5. \A j \in s..(e - 1) : request[j] \in Chars \ {EOL, NUL, SEP}
    <3>1. \A j \in s..(e - 1) : j \in (z + 1)..k /\ j < n + x
      BY <1>1, <1>6, <2>1, <2>2, <2>3, <2>4
    <3> QED
      BY <1>8, <3>1
  <2>6. s \in Int /\ e - 1 \in Int /\ s <= (e - 1) + 1 /\ s < e
    BY <1>1, <2>1, <2>2
  <2>7. /\ t \in Seq(Chars) /\ Len(t) = (e - 1) - s + 1
        /\ \A j \in 1..((e - 1) - s + 1) : t[j] = request[s + j - 1]
    BY <2>5, <2>6, PartIs
  <2>8. chunk = m.text => t = m.body
    <3> SUFFICES ASSUME chunk = m.text PROVE t = m.body
      OBVIOUS
    <3>1. k = n
      BY DEF k, n
    <3>2. e = n + 1
      <4>1. e <= n => e \in (z + 1)..k /\ e < n + x
        BY <1>1, <1>6, <2>1, <2>2, <3>1
      <4> QED
        BY <1>1, <1>8, <2>1, <2>3, <3>1, <4>1
    <3>3. \A j \in (z + 1)..n : request[j] \in Chars /\ request[j] = m.text[j]
      <4>1. \A j \in (z + 1)..n : j \in s..(e - 1) /\ j \in z..n
        BY <1>1, <2>2, <3>2
      <4> QED
        BY <1>2, <2>5, <4>1
    <3>4. z + 1 \in Int /\ n \in Int
      BY <1>1
    <3>5. s = z + 1 /\ e - 1 = n
      BY <1>1, <2>2, <3>2
    <3>6. SubSeq(request, z + 1, n) = SubSeq(m.text, z + 1, n)
      BY <3>3, <3>4, SamePart, Zenon
    <3> QED
      BY <1>2, <3>5, <3>6
  <2> HIDE DEF t
  <2>9. \A j \in 1..Len(t) : t[j] \notin {SEP}
    <3> SUFFICES ASSUME NEW j \in 1..Len(t) PROVE t[j] \notin {SEP}
      OBVIOUS
    <3>1. s + j - 1 \in s..(e - 1) /\ j \in 1..((e - 1) - s + 1)
      BY <2>6, <2>7
    <3> QED
      BY <2>5, <2>7, <3>1
  <2>10. Until(t, 1, {SEP}) = Len(t) + 1
    <3>1. /\ Len(t) \in Nat /\ 1 \in 1..(Len(t) + 1)
          /\ Len(t) + 1 \in 1..(Len(t) + 1) /\ ~(Len(t) + 1 <= Len(t))
          /\ 1..((Len(t) + 1) - 1) = 1..Len(t)
      BY <2>6, <2>7
    <3> QED
      BY <2>7, <2>9, <3>1, UntilIs
  <2>11. Until(t, 1, {SEP}) > Len(t)
    BY <2>6, <2>7, <2>10
  <2> QED
    BY <2>7, <2>8, <2>11 DEF t
<1> QED
  BY <1>12, <1>13

\* One more line, one more header: no other line has its key.
LEMMA HeaderParsed ==
  ASSUME NEW m \in Messages, NEW z \in 2..Len(m.text), Through(m, z), pos < z,
         Len(m.text) < Size, \A j \in pos..Len(m.text) : request[j] = m.text[j],
         NEW s \in pos..Size, NEW e \in pos..Size, Token(s, e),
         Header(SubSeq(request, s, e - 1))
  PROVE  m_map' = HeadersBefore(m, z, e + 1)
<1> DEFINE l == <<s, e>>
           t == SubSeq(request, s, e - 1)
           c == Until(t, 1, {SEP})
           key == SubSeq(t, 1, c - 1)
           g == <<key, Trim(SubSeq(t, c + 1, Len(t)))>>
<1>1. /\ s = pos /\ e < z /\ l \in LinesBefore(m, z) /\ t = Line(m, l) /\ t \in Seq(Chars)
  BY NextToken
<1>2. /\ PlainAt(m, z) /\ m.text[pos - 1] = EOL /\ pos \in 2..z
      /\ m_map = HeadersBefore(m, z, pos)
      /\ m.headers \subseteq Seq(Chars) \X Seq(Chars)
  BY MessagesAssumption DEF Through
<1>3. l[1] = s /\ l[2] = e /\ s \in Nat /\ e \in Nat /\ z \in Nat /\ 2 <= s /\ s < e
  <2>1. l[1] = s /\ l[2] = e
    OBVIOUS
  <2>2. z \in Nat /\ Size \in Nat
    BY <1>2, PlainIs
  <2>3. s < e
    <3>1. e \in (s + 1)..Size
      BY DEF Token
    <3> QED
      BY <1>1, <1>2, <2>2, <3>1
  <2> QED
    BY <1>1, <1>2, <2>1, <2>2, <2>3
<1>4. m_map' = {h \in m_map : h[1] # key} \cup {g}
  BY DEF Header
<1>5. \A h \in m.headers : Says(t, h) => h = g
  <2> SUFFICES ASSUME NEW h \in m.headers, Says(t, h) PROVE h = g
    OBVIOUS
  <2>1. h \in Seq(Chars) \X Seq(Chars)
    BY <1>2
  <2> HIDE DEF t
  <2> QED
    BY <1>1, <2>1, SaysParsed
<1> HIDE DEF c
<1>6. g[1] = key
  OBVIOUS
<1> HIDE DEF t, g, key
<1>7. g \in m.headers /\ Says(Line(m, l), g)
  <2>1. \E h \in m.headers : Says(Line(m, l), h)
    BY <1>1, <1>2 DEF PlainAt
  <2> QED
    BY <1>1, <1>5, <2>1
<1> HIDE DEF l
\* The headers before have other keys.
<1>8. ASSUME NEW h \in m_map PROVE h[1] # key
  <2>1. PICK k \in LinesBefore(m, z) : k[2] < pos /\ Says(Line(m, k), h)
    BY <1>2 DEF HeadersBefore
  <2>2. h \in m.headers
    BY <1>2 DEF HeadersBefore
  <2>3. k # l
    <3>1. ~(e < pos)
      BY <1>1, <1>3
    <3> QED
      BY <1>3, <2>1, <3>1
  <2>4. Says(Line(m, k), h) /\ Says(Line(m, l), g) /\ h[1] = g[1] => k = l
    BY <1>1, <1>2, <1>7, <2>2 DEF PlainAt
  <2> QED
    BY <1>6, <1>7, <2>1, <2>3, <2>4
\* A line that ends by e and not before pos is this one.
<1>9. ASSUME NEW k \in LinesBefore(m, z), k[2] < e + 1, ~(k[2] < pos) PROVE k = l
  <2>1. /\ k = <<k[1], k[2]>> /\ k[1] \in 2..z /\ k[2] \in 2..z /\ k[1] < k[2]
        /\ m.text[k[1] - 1] = EOL /\ m.text[k[2]] = EOL
        /\ \A j \in k[1]..(k[2] - 1) : m.text[j] # EOL
    BY <1>2, LinesAre
  <2>2. \A j \in s..(e - 1) : m.text[j] # EOL
    <3>1. \A j \in l[1]..(l[2] - 1) : m.text[j] # EOL
      BY <1>1, <1>2, LinesAre
    <3> QED
      BY <1>3, <3>1
  <2>3. k[2] = e
    <3>1. k[2] # e => k[2] \in s..(e - 1)
      BY <1>1, <1>3, <1>9, <2>1
    <3> QED
      BY <2>1, <2>2, <3>1
  <2>4. k[1] = s
    <3>1. ASSUME k[1] > s PROVE FALSE
      <4>1. k[1] - 1 \in s..(e - 1)
        BY <1>3, <2>1, <2>3, <3>1
      <4> QED
        BY <2>1, <2>2, <4>1
    <3>2. ASSUME k[1] < s PROVE FALSE
      <4>1. pos - 1 \in k[1]..(k[2] - 1)
        BY <1>1, <1>3, <2>1, <2>3, <3>2
      <4> QED
        BY <1>2, <2>1, <4>1
    <3> QED
      BY <1>3, <2>1, <3>1, <3>2
  <2> QED
    BY <2>1, <2>3, <2>4 DEF l
<1>10. ASSUME NEW h \in m_map' PROVE h \in HeadersBefore(m, z, e + 1)
  <2>1. CASE h \in m_map
    <3>1. PICK k \in LinesBefore(m, z) : k[2] < pos /\ Says(Line(m, k), h)
      BY <1>2, <2>1 DEF HeadersBefore
    <3>2. h \in m.headers
      BY <1>2, <2>1 DEF HeadersBefore
    <3>3. k[2] < e + 1
      <4>1. k[2] \in 2..z
        BY <1>2, LinesAre
      <4> QED
        BY <1>1, <1>3, <3>1, <4>1
    <3> QED
      BY <3>1, <3>2, <3>3 DEF HeadersBefore
  <2>2. CASE h = g
    <3>1. l[2] < e + 1
      BY <1>3
    <3> QED
      BY <1>1, <1>7, <2>2, <3>1 DEF HeadersBefore
  <2> QED
    BY <1>4, <1>10, <2>1, <2>2
<1>11. ASSUME NEW h \in HeadersBefore(m, z, e + 1) PROVE h \in m_map'
  <2>1. PICK k \in LinesBefore(m, z) : k[2] < e + 1 /\ Says(Line(m, k), h)
    BY <1>11 DEF HeadersBefore
  <2>2. h \in m.headers
    BY <1>11 DEF HeadersBefore
  <2>3. CASE k[2] < pos
    <3>1. h \in m_map
      BY <1>2, <2>1, <2>2, <2>3 DEF HeadersBefore
    <3> QED
      BY <1>4, <1>8, <3>1
  <2>4. CASE ~(k[2] < pos)
    <3>1. h = g
      BY <1>1, <1>5, <1>9, <2>1, <2>2, <2>4
    <3> QED
      BY <1>4, <3>1
  <2> QED
    BY <2>3, <2>4
<1> QED
  BY <1>10, <1>11

LEMMA AllHeaders ==
  ASSUME NEW m \in Messages, NEW z \in 2..Len(m.text), PlainAt(m, z)
  PROVE  HeadersBefore(m, z, z) = m.headers
<1>1. ASSUME NEW h \in m.headers PROVE h \in HeadersBefore(m, z, z)
  <2>1. PICK l \in LinesBefore(m, z) : Says(Line(m, l), h)
    BY <1>1 DEF PlainAt
  <2>2. l[2] < z
    BY LinesAre
  <2> QED
    BY <1>1, <2>1, <2>2 DEF HeadersBefore
<1> QED
  BY <1>1 DEF HeadersBefore

\* What is behind the line end that strtok overwrites stays.
LEMMA CutThrough ==
  ASSUME BufferOK(request, pos), NEW m \in Messages, NEW z \in 2..Len(m.text), PlainAt(m, z),
         Len(chunk) \in Nat, Len(m.text) <= Len(chunk), Len(chunk) < Size,
         NEW e \in pos..Size, 2 <= e, e < z, m.text[e] = EOL, Cut(e),
         \A j \in pos..Len(m.text) : request[j] = m.text[j],
         \A j \in pos..Len(chunk) : request[j] = chunk[j],
         \A j \in (Len(chunk) + 1)..Size : request[j] = NUL
  PROVE  /\ pos' = e + 1 /\ pos' \in 2..z /\ m.text[pos' - 1] = EOL
         /\ \A j \in pos'..Len(chunk) : request'[j] = chunk[j]
         /\ \A j \in (Len(chunk) + 1)..Size : request'[j] = NUL
<1>1. z \in Nat /\ Len(m.text) \in Nat /\ Size \in Nat /\ z <= Len(m.text)
  BY PlainIs
<1>2. request \in [1..Size -> Chars] /\ pos \in 1..Size
  BY DEF BufferOK
<1>3. request[e] = EOL
  <2>1. e \in pos..Len(m.text)
    BY <1>1, <1>2
  <2> QED
    BY <2>1
<1>4. request' = [request EXCEPT ![e] = NUL] /\ pos' = e + 1
  BY <1>3 DEF Cut
<1>5. \A j \in 1..Size : j # e => request'[j] = request[j]
  BY <1>2, <1>4
<1>6. \A j \in pos'..Len(chunk) : j \in 1..Size /\ j # e /\ j \in pos..Len(chunk)
  BY <1>1, <1>2, <1>4
<1>7. \A j \in (Len(chunk) + 1)..Size : j \in 1..Size /\ j # e
  BY <1>1, <1>2
<1>8. pos' \in 2..z /\ pos' - 1 = e
  BY <1>1, <1>2, <1>4
<1> QED
  BY <1>4, <1>5, <1>6, <1>7, <1>8

LEMMA InitParsed == Init => Parsed
<1> SUFFICES ASSUME Init, NEW m \in Messages, Starts(m) PROVE FALSE
  BY DEF Parsed
<1>1. PICK b, d, e \in 1..Len(m.text) : LineAt(m, b, d, e)
  BY MessagesAssumption
<1>2. chunk = <<>> /\ Len(m.text) <= Len(chunk) /\ Len(m.text) \in Nat
  BY MessageText DEF Init, Starts
<1> QED
  BY <1>1, <1>2

LEMMA SameChunk ==
  ASSUME UNCHANGED chunk
  PROVE  \A m : (Starts(m)' <=> Starts(m)) /\ (Joined(m)' <=> Joined(m))
BY DEF Starts, Joined

LEMMA ParsedSame ==
  ASSUME Parsed, UNCHANGED <<chunk, alone, m_map, content>>,
         place \notin {"line", "lines"}, place' \notin {"line", "lines"}
  PROVE  Parsed'
BY SameChunk DEF Parsed

\* After its request line a message is parsed as far as its first header or the empty line.
LEMMA ParsedFirst ==
  ASSUME Inv, Held, FirstLine, NEW m \in Messages, Starts(m), alone, m.plain
  PROVE  \E z \in 2..Len(m.text) : Through(m, z)'
<1>1. PICK b, d, e \in 1..Len(m.text) : LineAt(m, b, d, e)
  BY MessagesAssumption
<1>2. PICK z \in 2..Len(m.text) : PlainAt(m, z)
  BY MessagesAssumption
<1>3. Len(m.text) <= Len(chunk) /\ Len(chunk) \in Nat /\ chunk' = chunk
  BY StartIs DEF FirstLine, parseKeeps, readVars
<1>4. /\ pos = 1 /\ e \in pos..Size /\ Cut(e)
      /\ \A j \in 1..Len(m.text) : request[j] = m.text[j]
  BY <1>1, LineFirst
<1>5. /\ e \in Nat /\ 1 < e /\ m.text[e] = EOL
      /\ \A j \in 1..(e - 1) : m.text[j] # EOL
  <2>1. /\ b \in Nat /\ d \in Nat /\ e \in Nat /\ 1 < b /\ b + 1 < d /\ d < e
        /\ m.text[e] = EOL /\ \A j \in 1..(e - 1) : m.text[j] \in Chars \ {EOL, NUL}
    BY <1>1, LineOf
  <2> QED
    BY <2>1
<1>6. /\ m.text[z - 1] = EOL /\ z \in Nat /\ Len(m.text) \in Nat /\ Size \in Nat
      /\ 2 <= z /\ z <= Len(m.text)
  BY <1>2, PlainIs
<1>7. e < z
  <2>1. ~(e < z) => z - 1 \in 1..(e - 1)
    BY <1>5, <1>6
  <2> QED
    BY <1>5, <1>6, <2>1
<1>8. /\ Len(chunk) < Size /\ BufferOK(request, pos)
      /\ \A j \in 1..Len(chunk) : request[j] = chunk[j]
      /\ \A j \in (Len(chunk) + 1)..Size : request[j] = NUL
  <2>1. place = "line" /\ Len(chunk) < Size /\ high = Len(chunk)
    BY DEF FirstLine, At, Held
  <2>2. \A j \in (Len(chunk) + 1)..Size : j \in 1..Size /\ j > high
    BY <1>3, <1>6, <2>1
  <2> QED
    BY <2>1, <2>2 DEF Held, Inv, SlotOK
<1>9. /\ pos' = e + 1 /\ pos' \in 2..z /\ m.text[pos' - 1] = EOL
      /\ \A j \in pos'..Len(chunk) : request'[j] = chunk[j]
      /\ \A j \in (Len(chunk) + 1)..Size : request'[j] = NUL
  <2>1. /\ 2 <= e /\ \A j \in pos..Len(m.text) : request[j] = m.text[j]
        /\ \A j \in pos..Len(chunk) : request[j] = chunk[j]
    BY <1>4, <1>5, <1>8
  <2> QED
    BY <1>2, <1>3, <1>4, <1>5, <1>7, <1>8, <2>1, CutThrough
<1>10. HeadersBefore(m, z, e + 1) = {}
  <2> SUFFICES ASSUME NEW l \in LinesBefore(m, z), l[2] < e + 1 PROVE FALSE
    BY DEF HeadersBefore
  <2>1. /\ l[1] \in 2..z /\ l[2] \in 2..z /\ l[1] < l[2] /\ m.text[l[1] - 1] = EOL
    BY <1>2, LinesAre
  <2>2. l[1] - 1 \in 1..(e - 1)
    BY <1>5, <1>6, <2>1
  <2> QED
    BY <1>5, <2>1, <2>2
<1>11. m_map' = {} /\ content' = <<>>
  BY DEF FirstLine, At, Held
<1> QED
  BY <1>2, <1>3, <1>9, <1>10, <1>11 DEF Through

LEMMA ParsedHeader ==
  ASSUME Inv, Held, NEW m \in Messages, Starts(m), Joined(m),
         NEW z \in 2..Len(m.text), Through(m, z), HeaderLine
  PROVE  Through(m, z)'
<1>1. PICK s, e \in pos..Size :
        Token(s, e) /\ Header(SubSeq(request, s, e - 1)) /\ Cut(e)
  BY DEF HeaderLine
<1>2. /\ PlainAt(m, z) /\ pos \in 2..z /\ z \in Nat
      /\ \A j \in pos..Len(chunk) : request[j] = chunk[j]
      /\ \A j \in (Len(chunk) + 1)..Size : request[j] = NUL
      /\ content' = <<>> /\ chunk' = chunk
  BY PlainIs DEF Through, HeaderLine, parseKeeps, readVars
<1>3. /\ Len(chunk) \in Nat /\ Len(m.text) <= Len(chunk) /\ Len(chunk) < Size
      /\ Len(m.text) < Size /\ \A j \in pos..Len(m.text) : request[j] = m.text[j]
  BY LeftOf, MessageText, SizeType
<1>4. pos < z
  <2>1. ASSUME pos = z PROVE FALSE
    <3> DEFINE t == SubSeq(request, s, e - 1)
    <3>1. t \in Seq(Chars) /\ Until(t, 1, {SEP}) > Len(t)
      BY <1>1, <2>1, LastToken
    <3>2. Until(t, 1, {SEP}) <= Len(t)
      BY <1>1 DEF Header
    <3> HIDE DEF t
    <3>3. Len(t) \in Nat /\ 1 \in 1..(Len(t) + 1)
      BY <3>1, LenProperties
    <3>4. Until(t, 1, {SEP}) \in 1..(Len(t) + 1)
      BY <3>1, <3>3, UntilWithin
    <3> QED
      BY <3>1, <3>2, <3>3, <3>4
  <2> QED
    BY <1>2, <2>1
<1>5. s = pos /\ e < z /\ <<s, e>> \in LinesBefore(m, z)
  BY <1>1, <1>3, <1>4, NextToken
<1>6. m.text[e] = EOL /\ 2 <= e
  <2> DEFINE l == <<s, e>>
  <2>1. l \in LinesBefore(m, z) /\ l[2] = e
    BY <1>5
  <2> HIDE DEF l
  <2>2. l[2] \in 2..z /\ m.text[l[2]] = EOL
    BY <1>2, <2>1, LinesAre
  <2> QED
    BY <1>2, <2>1, <2>2
<1>7. /\ pos' = e + 1 /\ pos' \in 2..z /\ m.text[pos' - 1] = EOL
      /\ \A j \in pos'..Len(chunk) : request'[j] = chunk[j]
      /\ \A j \in (Len(chunk) + 1)..Size : request'[j] = NUL
  BY <1>1, <1>2, <1>3, <1>5, <1>6, CutThrough DEF Inv, SlotOK
<1>8. m_map' = HeadersBefore(m, z, e + 1)
  BY <1>1, <1>3, <1>4, HeaderParsed
<1> QED
  BY <1>2, <1>7, <1>8 DEF Through

LEMMA ParsedLast ==
  ASSUME Inv, Held, NEW m \in Messages, Starts(m), Joined(m),
         NEW z \in 2..Len(m.text), Through(m, z), ContentLine \/ LinesEnd
  PROVE  m_map' = m.headers /\ (chunk = m.text => content' = m.body)
<1>1. /\ PlainAt(m, z) /\ pos \in 2..z /\ z \in Nat /\ content = <<>>
      /\ m_map = HeadersBefore(m, z, pos)
  BY PlainIs DEF Through
<1>2. pos = z
  <2> SUFFICES ASSUME pos < z PROVE FALSE
    BY <1>1
  <2>1. Len(m.text) < Size /\ \A j \in pos..Len(m.text) : request[j] = m.text[j]
    BY LeftOf, MessageText, SizeType
  <2>2. ~NoToken
    BY <2>1, NextToken
  <2>3. PICK s, e \in pos..Size : Token(s, e) /\ Content(SubSeq(request, s, e - 1))
    BY <2>2 DEF ContentLine, LinesEnd
  <2> DEFINE t == SubSeq(request, s, e - 1)
  <2>4. <<s, e>> \in LinesBefore(m, z) /\ t = Line(m, <<s, e>>) /\ t \in Seq(Chars)
    BY <2>1, <2>3, NextToken
  <2>5. Until(t, 1, {SEP}) > Len(t)
    BY <2>3 DEF Content
  <2> HIDE DEF t
  <2>6. PICK h \in m.headers : Says(t, h)
    BY <1>1, <2>4 DEF PlainAt
  <2>7. h \in Seq(Chars) \X Seq(Chars)
    BY MessagesAssumption
  <2>8. Until(t, 1, {SEP}) \in 1..Len(t) /\ Len(t) \in Nat
    BY <2>4, <2>6, <2>7, SaysParsed, LenProperties
  <2> QED
    BY <2>5, <2>8
<1>3. m_map' = m.headers
  BY <1>1, <1>2, AllHeaders DEF ContentLine, LinesEnd, parsedVars
<1>4. chunk = m.text => content' = m.body
  <2>1. CASE LinesEnd
    BY <1>1, <1>2, <2>1, LastToken DEF LinesEnd, parsedVars
  <2>2. CASE ContentLine
    BY <1>2, <2>2, LastToken DEF ContentLine, Content
  <2> QED
    BY <2>1, <2>2
<1> QED
  BY <1>3, <1>4

LEMMA StepParsed == Inv /\ Held /\ Parsed /\ [Next]_vars => Parsed'
<1> SUFFICES ASSUME Inv, Held, Parsed, [Next]_vars PROVE Parsed'
  OBVIOUS
<1>1. CASE UNCHANGED vars
  BY <1>1, SameChunk DEF vars, slotVars, readVars, parsedVars, Parsed, Through
<1>2. CASE Send \/ SendRest
  BY <1>2, ParsedSame DEF Send, SendRest, clientKeeps, readVars, parsedVars
<1>3. CASE Event \/ ReadEAGAIN \/ FileSent \/ Decode \/ Respond
  BY <1>3, ParsedSame
     DEF Event, ReadEAGAIN, FileSent, Decode, Respond, At, readVars, parsedVars
<1>4. CASE Read
  BY <1>4 DEF Read, Parsed
<1>5. CASE FirstLine
  <2>1. place' = "lines" /\ UNCHANGED <<chunk, alone>>
    BY <1>5 DEF FirstLine, parseKeeps, readVars
  <2>2. \A m \in Messages : Starts(m) /\ Joined(m) /\ alone /\ m.plain =>
          \E z \in 2..Len(m.text) : Through(m, z)'
    BY <1>5, ParsedFirst
  <2> QED
    BY <2>1, <2>2, SameChunk DEF Parsed
<1>6. CASE HeaderLine \/ ContentLine \/ LinesEnd
  <2>1. place = "lines" /\ UNCHANGED <<chunk, alone>>
    BY <1>6 DEF HeaderLine, ContentLine, LinesEnd, At, parseKeeps, readVars
  <2>2. \A m \in Messages : Starts(m) /\ Joined(m) /\ alone /\ m.plain =>
          \E z \in 2..Len(m.text) : Through(m, z)
    BY <2>1 DEF Parsed
  <2>3. CASE HeaderLine
    <3>1. place' = "lines"
      BY <2>1, <2>3 DEF HeaderLine
    <3>2. \A m \in Messages : Starts(m) /\ Joined(m) /\ alone /\ m.plain =>
            \E z \in 2..Len(m.text) : Through(m, z)'
      BY <2>2, <2>3, ParsedHeader
    <3> QED
      BY <2>1, <3>1, <3>2, SameChunk DEF Parsed
  <2>4. CASE ContentLine \/ LinesEnd
    <3>1. place' = "url"
      BY <2>4 DEF ContentLine, LinesEnd
    <3>2. \A m \in Messages : Starts(m) /\ Joined(m) /\ alone /\ m.plain =>
            m_map' = m.headers /\ (chunk = m.text => content' = m.body)
      BY <2>2, <2>4, ParsedLast
    <3> QED
      BY <2>1, <3>1, <3>2, SameChunk DEF Parsed
  <2> QED
    BY <1>6, <2>3, <2>4
<1> QED
  BY <1>1, <1>2, <1>3, <1>4, <1>5, <1>6 DEF Next, Parse

(***************************************************************************)
(* What the requests say is what was sent.                                 *)
(***************************************************************************)
RequestInv == Inv /\ Held /\ LineRead /\ UrlDone /\ Alive /\ Parsed

LEMMA RequestInvHolds == Spec => []RequestInv
<1>1. Init => RequestInv
  BY InitInv, InitHeld, InitLine, InitParsed DEF RequestInv
<1>2. RequestInv /\ [Next]_vars => RequestInv'
  BY StepInv, StepHeld, StepLine, StepParsed DEF RequestInv
<1> QED
  BY <1>1, <1>2, PTL DEF Spec

LEMMA SentMessages == Inv => Sent \subseteq Messages
<1> SUFFICES ASSUME Inv, NEW k \in 1..Len(stream) PROVE stream[k] \in Messages
  BY DEF Sent
<1>1. stream \in Seq(Messages)
  BY StreamsAssumption DEF Inv, ClientOK
<1> QED
  BY <1>1, ElementOfSeq

LEMMA HandledLine ==
  ASSUME RequestInv, Handled, NEW m \in Messages, Starts(m)
  PROVE  method = m.method /\ decodedUrl = m.url
<1>1. place \in {"read", "out", "idle"}
  BY DEF Handled
<1>2. method = m.method /\ Decoding(m) /\ UrlRead /\ UrlInv
  BY <1>1 DEF RequestInv, LineRead, UrlDone, Inv
<1> QED
  BY <1>2, DecodingEnds

\* The method and the URL of a message that starts what one read returns are parsed as its own,
\* whatever follows it or is left in the buffer (main's read, prase, prase_url).
THEOREM LineCorrect == Spec => []LineOwn
<1>1. RequestInv => LineOwn
  BY SentMessages, HandledLine DEF RequestInv, LineOwn
<1> QED
  BY <1>1, RequestInvHolds, PTL

\* A plain message that one read returns, not shorter than those before it, is parsed into what
\* it says: nothing of an earlier request is left in it (main's strncpy over the buffer, prase,
\* reset).
THEOREM ParsedCorrect == Spec => []ParsedAsSent
<1>1. ASSUME RequestInv, NEW m \in Messages, Handled, alone, chunk = m.text, m.plain
      PROVE  method = m.method /\ decodedUrl = m.url /\ m_map = m.headers /\ content = m.body
  <2>1. Starts(m)
    <3>1. m.text \in Seq(Chars) /\ Len(m.text) \in Nat
      BY MessageText
    <3> QED
      BY <1>1, <3>1, SubSeqFull DEF Starts
  <2>2. method = m.method /\ decodedUrl = m.url
    BY <1>1, <2>1, HandledLine
  <2>3. Joined(m)
    BY <1>1, MessageText DEF Joined
  <2>4. m_map = m.headers /\ content = m.body
    <3>1. place \notin {"line", "lines"}
      BY <1>1 DEF Handled
    <3> QED
      BY <1>1, <2>1, <2>3, <3>1 DEF RequestInv, Parsed
  <2> QED
    BY <2>2, <2>4
<1>2. RequestInv => ParsedAsSent
  BY <1>1, SentMessages DEF RequestInv, ParsedAsSent
<1> QED
  BY <1>2, RequestInvHolds, PTL

\* The process ends by a request that read returns in pieces or, if what it returns starts with
\* a message, only by a POST, whose own body has a brace if it is all there is to read: of every
\* other message return_res finds a character to erase from the decoded URL, and no JSON to read
\* (prase, prase_url, return_res).
THEOREM EndedCorrect == Spec => []EndedBySplitOrBody
<1>1. ASSUME RequestInv, NEW m \in Messages, ~up, Starts(m)
      PROVE  m.method = <<80>> /\ (alone /\ chunk = m.text /\ m.plain => Braced(m.body))
  <2>1. place = "read" /\ m.method = <<80>> /\ Braced(content)
    BY <1>1 DEF RequestInv, Alive
  <2>2. ASSUME alone, chunk = m.text, m.plain PROVE content = m.body
    <3>1. Joined(m)
      BY <1>1, <2>2, MessageText DEF Joined
    <3> QED
      BY <1>1, <2>1, <2>2, <3>1 DEF RequestInv, Parsed
  <2>3. CASE alone /\ chunk = m.text /\ m.plain
    BY <2>1, <2>2, <2>3
  <2> QED
    BY <2>1, <2>3
<1>2. RequestInv => EndedBySplitOrBody
  BY <1>1, SentMessages DEF RequestInv, EndedBySplitOrBody
<1> QED
  BY <1>2, RequestInvHolds, PTL

\* A plain message's headers are parsed as its own and no others when messages follow it in the
\* same read: the next one's line ends the headers (prase, which stops at the first line without
\* a colon and space).
THEOREM HeadersCorrect == Spec => []HeadersOwn
<1>1. ASSUME RequestInv, NEW m \in Messages, Handled, Starts(m), Followed(m), alone, m.plain
      PROVE  m_map = m.headers
  <2>1. Joined(m)
    BY <1>1, SentMessages DEF Joined, Followed, RequestInv
  <2>2. place \notin {"line", "lines"}
    BY <1>1 DEF Handled
  <2> QED
    BY <1>1, <2>1, <2>2 DEF RequestInv, Parsed
<1>2. RequestInv => HeadersOwn
  BY <1>1, SentMessages DEF RequestInv, HeadersOwn
<1> QED
  BY <1>2, RequestInvHolds, PTL

=============================================================================
