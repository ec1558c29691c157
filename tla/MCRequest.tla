------------------------------ MODULE MCRequest ------------------------------
(***************************************************************************)
(* Request with short messages.  Streams of two mix all shapes of them;    *)
(* streams of one spell short URLs in every way.                           *)
(***************************************************************************)
EXTENDS Request, SequencesExt, FiniteSets

GET == <<71>>
HEAD == <<72>>
POST == <<80>>

Message(verb, address, means, lines, body, plain, headers) ==
  [text |-> verb \o <<SP>> \o address \o <<SP, 118, EOL>> \o FlattenSeq(lines) \o <<EOL>> \o body,
   method |-> verb, url |-> means, headers |-> headers, body |-> body, plain |-> plain]

Root == <<47>>
Cookie == <<99, SEP, 120, EOL>>
Other == <<99, SEP, 121, EOL>>
Empty == <<100, SEP, EOL>>
Bare == <<98, EOL>>

\* All shapes: without headers, with one, with two of them, with a header without its blank, with a
\* body, and with a body that has a colon and a space.
Shapes ==
  { Message(GET, Root, Root, <<>>, <<>>, TRUE, {}),
    Message(HEAD, Root, Root, <<Other>>, <<>>, TRUE, {<<<<99>>, <<121>>>>}),
    Message(GET, Root, Root, <<Cookie, Empty>>, <<>>, TRUE,
            {<<<<99>>, <<120>>>>, <<<<100>>, <<SP>>>>}),
    Message(GET, Root, Root, <<Bare, Cookie>>, <<>>, FALSE, {<<<<99>>, <<120>>>>}),
    Message(POST, Root, Root, <<Cookie>>, <<123, 125>>, TRUE, {<<<<99>>, <<120>>>>}),
    Message(POST, Root, Root, <<>>, <<123, SEP, 125>>, FALSE, {}) }

\* The characters of a URL: /, A, a, ~, % and N; those in escaped are written as escapes.
Letters == {47, 65, 97, 126, 37, 78}
Digit(n) == IF n < 10 THEN 48 + n ELSE 55 + n
Spelling(w, escaped) ==
  FlattenSeq([k \in 1..Len(w) |-> IF k \in escaped
                THEN <<Percent, Digit(w[k] \div 16), Digit(w[k] % 16)>> ELSE <<w[k]>>])
Meaning(w, escaped) == [k \in 1..Len(w) |-> IF k \in escaped THEN w[k] ELSE Lower(w[k])]

\* A percent sign is written as one only where it cannot start an escape.
Spellable(w, escaped) ==
  \A k \in 1..Len(w) : w[k] = Percent /\ k \notin escaped => k >= Len(Spelling(w, escaped)) - 1

Words == UNION {[1..n -> Letters] : n \in 1..2}
Spelled ==
  { Message(GET, Spelling(w[1], w[2]), Meaning(w[1], w[2]), <<>>, <<>>, TRUE, {}) :
      w \in {v \in Words \X SUBSET (1..2) : /\ v[2] \subseteq DOMAIN v[1]
                                            /\ Spellable(v[1], v[2])} }

AllMessages == Shapes \cup Spelled
AllStreams == {<<m>> : m \in Spelled} \cup (Shapes \X Shapes)

=============================================================================
