--------------------------------- MODULE Url ---------------------------------
(***************************************************************************)
(* HTTP::prase_url (http.cpp): the URL's letters are put in lower case and *)
(* its percent escapes decoded, one action per round of the loop.          *)
(* Characters are their codes.                                             *)
(***************************************************************************)
EXTENDS Integers, Sequences

VARIABLES
  url,          \* the URL of the request line
  i,            \* the round of the loop, from 1
  decodedUrl    \* what has been decoded

urlVars == <<url, i, decodedUrl>>

Chars == 0..255
Percent == 37
Upper == 65..90

Lower(c) == IF c \in Upper THEN c + 32 ELSE c

\* The value of a hexadecimal digit, or -1.
HexValue(c) ==
  IF c \in 48..57 THEN c - 48
  ELSE IF c \in 65..70 THEN c - 55
  ELSE IF c \in 97..102 THEN c - 87
  ELSE -1

\* Mutant of Decoded: the digits are swapped.
DigitsSwapped(a, b) == (16 * HexValue(b) + HexValue(a)) % 256

\* Two characters read by istream >> hex, as a char: a sign, then digits, as far as they go.
Decoded(a, b) ==
  LET high == HexValue(a)
      low == HexValue(b)
  IN IF high >= 0 THEN IF low >= 0 THEN 16 * high + low ELSE high
     ELSE IF low < 0 THEN 0
     ELSE IF a = 43 THEN low
     ELSE IF a = 45 THEN (256 - low) % 256
     ELSE 0

\* An escape has two characters behind it.
Escape == url[i] = Percent /\ i + 2 <= Len(url)

\* Mutant of PlainChar: the letter keeps its case.
CharKept ==
  /\ i <= Len(url) /\ ~Escape
  /\ decodedUrl' = Append(decodedUrl, url[i])
  /\ i' = i + 1 /\ url' = url

PlainChar ==
  /\ i <= Len(url) /\ ~Escape
  /\ decodedUrl' = Append(decodedUrl, Lower(url[i]))
  /\ i' = i + 1 /\ url' = url

\* Mutant of EscapedChar: the character is passed over.
EscapeDropped ==
  /\ i <= Len(url) /\ Escape
  /\ i' = i + 3 /\ UNCHANGED <<url, decodedUrl>>

EscapedChar ==
  /\ i <= Len(url) /\ Escape
  /\ decodedUrl' = Append(decodedUrl, Decoded(url[i + 1], url[i + 2]))
  /\ i' = i + 3 /\ url' = url

UrlStep == PlainChar \/ EscapedChar

UrlRead == i > Len(url)

\* Decoding starts over with u.
UrlStart(u) == url' = u /\ i' = 1 /\ decodedUrl' = <<>>

UrlTypeOK == url \in Seq(Chars) /\ i \in Nat \ {0} /\ decodedUrl \in Seq(Chars)

\* A URL without escapes is decoded to itself in lower case.
Lowered ==
  (\A k \in 1..Len(url) : url[k] # Percent) =>
    /\ Len(decodedUrl) = i - 1 /\ i <= Len(url) + 1
    /\ \A k \in 1..(i - 1) : decodedUrl[k] = Lower(url[k])

\* An upper-case letter that is left, so that the name is another than the one the letter
\* itself asks for, was escaped.
UpperEscaped ==
  \A k \in 1..Len(decodedUrl) : decodedUrl[k] \in Upper =>
    \E j \in 1..(Len(url) - 2) :
      url[j] = Percent /\ decodedUrl[k] = Decoded(url[j + 1], url[j + 2])

=============================================================================
