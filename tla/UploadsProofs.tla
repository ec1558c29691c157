---------------------------- MODULE UploadsProofs ----------------------------
(***************************************************************************)
(* Theorems about Uploads, for every number of uploads, downloads and      *)
(* restarts, and for all names and contents.                               *)
(***************************************************************************)
EXTENDS Uploads, TLAPS, SequenceTheorems, WellFoundedInduction

(***************************************************************************)
(* Names.                                                                  *)
(***************************************************************************)
LEMMA Least ==
  ASSUME NEW T \in SUBSET Nat, T # {} PROVE \E x \in T : \A y \in T : x <= y
<1>1. PICK x \in T : \A y \in T : ~(<<y, x>> \in OpToRel(<, Nat))
  BY WFMin, NatLessThanWellFounded
<1>2. \A y \in T : ~(y < x)
  BY <1>1 DEF OpToRel
<1> QED
  BY <1>2

LEMMA BaseOfName ==
  ASSUME NEW n \in Seq(0..255) PROVE Base(n) \in Seq(0..255)
<1> DEFINE Last(j) == /\ j > 0 => n[j] \in Slashes
                      /\ \A k \in (j + 1)..Len(n) : n[k] \notin Slashes
           T == {d \in 0..Len(n) : Len(n) - d > 0 => n[Len(n) - d] \in Slashes}
<1>1. Len(n) \in Nat
  BY LenProperties
<1>2. \E j \in 0..Len(n) : Last(j)
  <2>1. Len(n) \in T /\ T \in SUBSET Nat
    BY <1>1
  <2>2. PICK d \in T : \A e \in T : d <= e
    BY <2>1, Least
  <2> DEFINE j == Len(n) - d
  <2>3. j \in 0..Len(n) /\ (j > 0 => n[j] \in Slashes)
    BY <1>1, <2>2
  <2>4. ASSUME NEW k \in (j + 1)..Len(n), n[k] \in Slashes PROVE FALSE
    <3>1. Len(n) - k \in 0..Len(n) /\ Len(n) - (Len(n) - k) = k /\ Len(n) - k < d
      BY <1>1, <2>3, <2>4
    <3>2. Len(n) - k \in T
      BY <3>1, <2>4
    <3> QED
      BY <3>1, <3>2, <2>2
  <2> QED
    BY <2>3, <2>4
<1>3. PICK l \in 0..Len(n) : Base(n) = SubSeq(n, l + 1, Len(n))
  BY <1>2 DEF Base
<1>4. \A k \in (l + 1)..Len(n) : n[k] \in 0..255
  <2>1. n \in [1..Len(n) -> 0..255]
    BY LenProperties
  <2>2. (l + 1)..Len(n) \subseteq 1..Len(n)
    BY <1>1, <1>3
  <2> QED
    BY <2>1, <2>2
<1> QED
  BY <1>1, <1>3, <1>4, SubSeqProperties

\* sanitize_filename: whatever the name, what is left of it is short and plain.
LEMMA SafeName ==
  ASSUME NEW n \in Seq(0..255) PROVE Sanitize(n) \in Seq(Safe) /\ Len(Sanitize(n)) <= MaxName
<1> DEFINE m == IF Len(n) < MaxName THEN Len(n) ELSE MaxName
<1>1. m \in Nat /\ m <= MaxName
  BY LenProperties, UploadsAssumption
<1>2. \A j \in 1..m : (IF n[j] \in Safe THEN n[j] ELSE Underscore) \in Safe
  BY DEF Safe, Underscore
<1>3. Sanitize(n) = [j \in 1..m |-> IF n[j] \in Safe THEN n[j] ELSE Underscore]
  BY DEF Sanitize
<1> HIDE DEF m
<1>4. Sanitize(n) \in Seq(Safe) /\ Len(Sanitize(n)) = m
  BY <1>1, <1>2, <1>3
<1> QED
  BY <1>1, <1>4

LEMMA KeysSafe == \A k \in Keys : Len(k) <= MaxName /\ k \in Seq(Safe)
BY UploadsAssumption, BaseOfName, SafeName DEF Keys

(***************************************************************************)
(* Contents.                                                               *)
(***************************************************************************)
LEMMA BytesType ==
  ASSUME NEW c \in Conns
  PROVE  /\ Bytes[c] \in Seq(Cells) /\ Len(Bytes[c]) \in Nat
         /\ \A a \in Nat, b \in 0..Len(Bytes[c]) :
              /\ SubSeq(Bytes[c], a + 1, b) \in Seq(Cells)
              /\ Len(SubSeq(Bytes[c], a + 1, b)) = IF a < b THEN b - a ELSE 0
              /\ \A j \in 1..(b - a) : SubSeq(Bytes[c], a + 1, b)[j] = Bytes[c][a + j]
<1> DEFINE own == {Bytes[c][j] : j \in 1..Len(Bytes[c])}
<1>1. own \subseteq Cells
  BY DEF Cells
<1>2. Bytes[c] \in Seq(own)
  BY UploadsAssumption
<1> HIDE DEF own
<1>3. Bytes[c] \in Seq(Cells) /\ Len(Bytes[c]) \in Nat
  BY <1>1, <1>2, SeqMonotonic, LenProperties
<1>4. ASSUME NEW a \in Nat, NEW b \in 0..Len(Bytes[c])
      PROVE  /\ SubSeq(Bytes[c], a + 1, b) \in Seq(Cells)
             /\ Len(SubSeq(Bytes[c], a + 1, b)) = IF a < b THEN b - a ELSE 0
             /\ \A j \in 1..(b - a) : SubSeq(Bytes[c], a + 1, b)[j] = Bytes[c][a + j]
  <2>1. Bytes[c] \in [1..Len(Bytes[c]) -> Cells]
    BY <1>3, LenProperties
  <2>2. \A j \in (a + 1)..b : Bytes[c][j] \in Cells
    BY <2>1, <1>3
  <2>3. a + 1 \in Int /\ b \in Int /\ b - (a + 1) + 1 = b - a
        /\ \A j \in 1..(b - a) : a + 1 + j - 1 = a + j
    BY <1>3
  <2> QED
    BY <1>3, <2>2, <2>3, SubSeqProperties
<1> QED
  BY <1>3, <1>4

LEMMA OverlayType ==
  ASSUME NEW t \in Seq(Cells), NEW s \in Seq(Cells), NEW p \in Nat
  PROVE  /\ Overlay(t, p, s) \in Seq(Cells)
         /\ Len(Overlay(t, p, s)) = IF p + Len(s) > Len(t) THEN p + Len(s) ELSE Len(t)
         /\ \A j \in 1..Len(Overlay(t, p, s)) : Overlay(t, p, s)[j] =
              IF j \in (p + 1)..(p + Len(s)) THEN s[j - p]
              ELSE IF j <= Len(t) THEN t[j] ELSE Zero
<1> DEFINE m == IF p + Len(s) > Len(t) THEN p + Len(s) ELSE Len(t)
           e(j) == IF j \in (p + 1)..(p + Len(s)) THEN s[j - p]
                   ELSE IF j <= Len(t) THEN t[j] ELSE Zero
<1>1. /\ Len(s) \in Nat /\ Len(t) \in Nat
      /\ s \in [1..Len(s) -> Cells] /\ t \in [1..Len(t) -> Cells]
  BY LenProperties
<1>2. m \in Nat
  BY <1>1
<1>3. ASSUME NEW j \in 1..m PROVE e(j) \in Cells
  <2>1. CASE j \in (p + 1)..(p + Len(s))
    <3>1. j - p \in 1..Len(s)
      BY <1>1, <2>1
    <3> QED
      BY <1>1, <2>1, <3>1
  <2>2. CASE j \notin (p + 1)..(p + Len(s)) /\ j <= Len(t)
    BY <1>1, <1>2, <2>2
  <2>3. CASE j \notin (p + 1)..(p + Len(s)) /\ ~(j <= Len(t))
    BY <2>3 DEF Cells
  <2> QED
    BY <2>1, <2>2, <2>3
<1>4. Overlay(t, p, s) = [j \in 1..m |-> e(j)]
  BY DEF Overlay
<1> HIDE DEF m, e
<1>5. [j \in 1..m |-> e(j)] \in Seq(Cells) /\ Len([j \in 1..m |-> e(j)]) = m
  BY <1>2, <1>3
<1>6. \A j \in 1..m : [i \in 1..m |-> e(i)][j] = e(j)
  OBVIOUS
<1> QED
  BY <1>4, <1>5, <1>6 DEF m, e

\* A stream that alone writes a file from its start appends to it.
LEMMA OverlayGrows ==
  ASSUME NEW c \in Conns, NEW m \in 0..Len(Bytes[c]), NEW p \in 0..m
  PROVE  Overlay(SubSeq(Bytes[c], 1, p), p, SubSeq(Bytes[c], p + 1, m)) = SubSeq(Bytes[c], 1, m)
<1> DEFINE t == SubSeq(Bytes[c], 1, p)
           s == SubSeq(Bytes[c], p + 1, m)
           w == SubSeq(Bytes[c], 1, m)
<1>0. Len(Bytes[c]) \in Nat /\ 0 \in Nat /\ 0 + 1 = 1 /\ p \in Nat
  BY BytesType
<1>1. /\ t \in Seq(Cells) /\ s \in Seq(Cells) /\ w \in Seq(Cells)
      /\ Len(t) = p /\ Len(s) = m - p /\ Len(w) = m
      /\ \A j \in 1..p : t[j] = Bytes[c][j]
      /\ \A j \in 1..(m - p) : s[j] = Bytes[c][p + j]
      /\ \A j \in 1..m : w[j] = Bytes[c][j]
  <2>1. p \in 0..Len(Bytes[c])
    BY <1>0
  <2>2. /\ t \in Seq(Cells) /\ Len(t) = p
        /\ \A j \in 1..p : t[j] = Bytes[c][j]
    BY <1>0, <2>1, BytesType
  <2>3. /\ w \in Seq(Cells) /\ Len(w) = m
        /\ \A j \in 1..m : w[j] = Bytes[c][j]
    BY <1>0, BytesType
  <2>4. /\ s \in Seq(Cells) /\ Len(s) = m - p
        /\ \A j \in 1..(m - p) : s[j] = Bytes[c][p + j]
    BY <1>0, BytesType
  <2> QED
    BY <2>2, <2>3, <2>4
<1> DEFINE v == Overlay(t, p, s)
<1> HIDE DEF t, s, w
<1>2. /\ v \in Seq(Cells)
      /\ Len(v) = IF p + Len(s) > Len(t) THEN p + Len(s) ELSE Len(t)
      /\ \A j \in 1..Len(v) : v[j] = IF j \in (p + 1)..(p + Len(s)) THEN s[j - p]
                                     ELSE IF j <= Len(t) THEN t[j] ELSE Zero
  BY <1>0, <1>1, OverlayType
<1> HIDE DEF v
<1>3. Len(v) = m
  BY <1>0, <1>1, <1>2
<1>4. ASSUME NEW j \in 1..m PROVE v[j] = w[j]
  <2>1. CASE j <= p
    <3>1. j \in 1..p /\ j \notin (p + 1)..(p + Len(s)) /\ j <= Len(t)
      BY <1>0, <1>1, <2>1
    <3>2. v[j] = t[j]
      BY <1>2, <1>3, <3>1
    <3> QED
      BY <1>1, <3>1, <3>2
  <2>2. CASE j > p
    <3>1. j - p \in 1..(m - p) /\ p + (j - p) = j /\ j \in (p + 1)..(p + Len(s))
      BY <1>0, <1>1, <2>2
    <3> QED
      BY <1>1, <1>2, <1>3, <3>1
  <2> QED
    BY <1>0, <2>1, <2>2
<1> QED
  BY <1>1, <1>2, <1>3, <1>4, SeqEqual DEF t, s, w, v

(***************************************************************************)
(* The inductive invariant.  A stream's offset is a place in the file only *)
(* while it is alone with it: then the file is what the stream has written *)
(* (Own).  An open stream is among its file's owners (Owned), so that a    *)
(* stream which writes a file of one owner is that owner.                  *)
(***************************************************************************)
Owned ==
  /\ \A k \in Keys : \A c \in owners[k] : key[c] = k /\ phase[c] # "idle"
  /\ \A c \in Conns : phase[c] = "open" => c \in owners[key[c]]

Own == \A c \in Conns, k \in Keys : Sole(c, k) => files[k] = SubSeq(Bytes[c], 1, flushed[c])

AckedFlushed ==
  \A c \in Conns : phase[c] = "acked" /\ ~bad[c] => flushed[c] = Len(Bytes[c])

FilesInv == TypeOK /\ Owned /\ Own /\ AckedFlushed

\* What a step that flushes c's stream, and moves it to n given and m written, does.
Flushed(c, n, m) ==
  /\ phase[c] = "open" /\ m \in flushed[c]..n /\ n \in given[c]..Len(Bytes[c])
  /\ Flush(c, m) /\ given' = [given EXCEPT ![c] = n]
  /\ bad' \in {bad, [bad EXCEPT ![c] = TRUE]}
  /\ phase' = [phase EXCEPT ![c] = phase'[c]] /\ phase'[c] \in {"open", "acked", "gone"}
  /\ phase'[c] = "acked" => bad'[c] \/ m = Len(Bytes[c])
  /\ UNCHANGED streamKeeps

LEMMA FlushFacts ==
  ASSUME FilesInv, NEW c \in Conns, NEW n, NEW m, Flushed(c, n, m)
  PROVE  /\ Len(Bytes[c]) \in Nat /\ given[c] \in Nat /\ flushed[c] \in Nat
         /\ flushed[c] <= given[c] /\ m \in 0..Len(Bytes[c]) /\ n \in 0..Len(Bytes[c])
         /\ flushed[c] \in 0..m /\ m <= n
         /\ key[c] \in Keys /\ key \in [Conns -> Keys \cup {NULL}]
         /\ flushed \in [Conns -> Nat] /\ given \in [Conns -> Nat]
         /\ bad \in [Conns -> BOOLEAN]
         /\ files \in [Keys -> Seq(Cells)]
         /\ phase \in [Conns -> {"idle", "open", "acked", "gone"}]
<1>1. Len(Bytes[c]) \in Nat
  BY BytesType
<1> QED
  BY <1>1 DEF FilesInv, TypeOK, Flushed

LEMMA FlushInv ==
  ASSUME FilesInv, NEW c \in Conns, NEW n, NEW m, Flushed(c, n, m)
  PROVE  FilesInv'
<1> USE FlushFacts
<1> DEFINE k == key[c]
           new == Overlay(files[k], flushed[c], SubSeq(Bytes[c], flushed[c] + 1, m))
<1>1. new \in Seq(Cells)
  <2>1. files[k] \in Seq(Cells) /\ SubSeq(Bytes[c], flushed[c] + 1, m) \in Seq(Cells)
    BY BytesType
  <2> QED
    BY <2>1, OverlayType
<1>2. files' = [files EXCEPT ![k] = new] /\ flushed' = [flushed EXCEPT ![c] = m]
  BY DEF Flushed, Flush
<1> HIDE DEF new
<1>3. /\ files' \in [Keys -> Seq(Cells)] /\ flushed' \in [Conns -> Nat]
      /\ given' \in [Conns -> Nat] /\ bad' \in [Conns -> BOOLEAN]
      /\ phase' \in [Conns -> {"idle", "open", "acked", "gone"}]
  <2>1. files' \in [Keys -> Seq(Cells)] /\ flushed' \in [Conns -> Nat]
    BY <1>1, <1>2
  <2>2. given' \in [Conns -> Nat] /\ bad' \in [Conns -> BOOLEAN]
    <3>0. n \in Nat
      BY FlushFacts
    <3>1. given' = [given EXCEPT ![c] = n]
      BY DEF Flushed
    <3>2. bad' = bad \/ bad' = [bad EXCEPT ![c] = TRUE]
      BY DEF Flushed
    <3>3. given' \in [Conns -> Nat]
      BY <3>0, <3>1
    <3>4. bad' \in [Conns -> BOOLEAN]
      BY <3>2, Zenon
    <3> QED
      BY <3>3, <3>4
  <2>3. phase' \in [Conns -> {"idle", "open", "acked", "gone"}]
    BY DEF Flushed
  <2> QED
    BY <2>1, <2>2, <2>3
<1>4. \A d \in Conns : /\ flushed'[d] <= given'[d] /\ given'[d] <= Len(Bytes[d])
                       /\ phase'[d] \in {"open", "acked"} => key'[d] \in Keys
  <2> TAKE d \in Conns
  <2>1. CASE d = c
    <3>1. given'[c] = n /\ flushed'[c] = m /\ key' = key
      BY <1>2 DEF Flushed, streamKeeps
    <3> QED
      BY <2>1, <3>1
  <2>2. CASE d # c
    BY <1>2, <2>2 DEF Flushed, streamKeeps, FilesInv, TypeOK
  <2> QED
    BY <2>1, <2>2
<1>5. TypeOK'
  BY <1>3, <1>4 DEF FilesInv, TypeOK, Downloads, Flushed, streamKeeps
<1>6. Owned'
  <2>1. owners' = owners /\ key' = key /\ phase[c] = "open"
    BY DEF Flushed, streamKeeps
  <2>2. \A d \in Conns : d # c => phase'[d] = phase[d]
    BY DEF Flushed
  <2>3. phase'[c] # "idle"
    BY DEF Flushed
  <2>4. owners \in [Keys -> SUBSET Conns]
    BY DEF FilesInv, TypeOK
  <2> QED
    BY <2>1, <2>2, <2>3, <2>4 DEF FilesInv, Owned
<1>7. Own'
  <2> SUFFICES ASSUME NEW d \in Conns, NEW l \in Keys, Sole(d, l)'
               PROVE  files'[l] = SubSeq(Bytes[d], 1, flushed'[d])
    BY DEF Own
  <2>1. Sole(d, l) /\ files[l] = SubSeq(Bytes[d], 1, flushed[d])
    BY DEF FilesInv, Own, Sole, Flushed, streamKeeps
  <2>2. c \in owners[k] /\ key[d] = l
    BY <2>1 DEF FilesInv, Owned, Sole, Flushed
  <2>3. CASE l = k
    <3>1. d = c
      BY <2>1, <2>2, <2>3 DEF Sole
    <3>2. new = SubSeq(Bytes[c], 1, m)
      <4>1. files[k] = SubSeq(Bytes[c], 1, flushed[c])
        BY <2>1, <2>3, <3>1
      <4> QED
        BY <4>1, OverlayGrows DEF new
    <3> QED
      BY <1>2, <2>3, <3>1, <3>2
  <2>4. CASE l # k
    BY <1>2, <2>1, <2>2, <2>4
  <2> QED
    BY <2>3, <2>4
<1>8. AckedFlushed'
  <2> SUFFICES ASSUME NEW d \in Conns, phase'[d] = "acked", ~bad'[d]
               PROVE  flushed'[d] = Len(Bytes[d])
    BY DEF AckedFlushed
  <2>1. CASE d = c
    BY <1>2, <2>1 DEF Flushed
  <2>2. CASE d # c
    BY <1>2, <2>2 DEF Flushed, FilesInv, AckedFlushed
  <2> QED
    BY <2>1, <2>2
<1> QED
  BY <1>5, <1>6, <1>7, <1>8 DEF FilesInv

LEMMA BeginInv ==
  ASSUME FilesInv, NEW c \in Conns, NEW name \in Names, Begin(c, name)
  PROVE  FilesInv'
<1> DEFINE k == Sanitize(Base(name))
<1>1. PICK n \in 0..Len(Bytes[c]) : \E m \in 0..n :
        /\ given' = [given EXCEPT ![c] = n] /\ flushed' = [flushed EXCEPT ![c] = m]
        /\ files' = [files EXCEPT ![k] = Opened(@, SubSeq(Bytes[c], 1, m))]
  BY DEF Begin
<1>2. PICK m \in 0..n :
        /\ given' = [given EXCEPT ![c] = n] /\ flushed' = [flushed EXCEPT ![c] = m]
        /\ files' = [files EXCEPT ![k] = SubSeq(Bytes[c], 1, m)]
  BY <1>1 DEF Opened
<1>3. /\ k \in Keys /\ phase[c] = "idle" /\ phase' = [phase EXCEPT ![c] = "open"]
      /\ key' = [key EXCEPT ![c] = k] /\ owners' = [owners EXCEPT ![k] = Open(k) \cup {c}]
      /\ UNCHANGED <<bad, up, restarts>>
      /\ dl' = [r \in Readers |-> [dl[r] EXCEPT !.calm = @ /\ dl[r].key # k]]
  BY DEF Begin, Becomes
<1> HIDE DEF k
<1>4. /\ files \in [Keys -> Seq(Cells)] /\ owners \in [Keys -> SUBSET Conns]
      /\ phase \in [Conns -> {"idle", "open", "acked", "gone"}]
      /\ key \in [Conns -> Keys \cup {NULL}]
      /\ given \in [Conns -> Nat] /\ flushed \in [Conns -> Nat]
      /\ bad \in [Conns -> BOOLEAN] /\ dl \in [Readers -> Downloads]
  BY DEF FilesInv, TypeOK
<1>5. Len(Bytes[c]) \in Nat /\ n \in Nat /\ m \in Nat /\ m <= n /\ n <= Len(Bytes[c])
  BY <1>2, BytesType
<1>6. SubSeq(Bytes[c], 1, m) \in Seq(Cells)
  <2>1. 0 \in Nat /\ 0 + 1 = 1 /\ m \in 0..Len(Bytes[c])
    BY <1>5
  <2> QED
    BY <2>1, BytesType
<1>7. Open(k) \in SUBSET Conns
  BY DEF Open
<1>8. TypeOK'
  <2>1. files' \in [Keys -> Seq(Cells)] /\ owners' \in [Keys -> SUBSET Conns]
    BY <1>2, <1>3, <1>4, <1>6, <1>7
  <2>2. /\ phase' \in [Conns -> {"idle", "open", "acked", "gone"}]
        /\ key' \in [Conns -> Keys \cup {NULL}]
    BY <1>3, <1>4
  <2>3. given' \in [Conns -> Nat] /\ flushed' \in [Conns -> Nat]
    BY <1>2, <1>4, <1>5
  <2>4. dl' \in [Readers -> Downloads]
    <3> SUFFICES ASSUME NEW r \in Readers
                 PROVE  [dl[r] EXCEPT !.calm = @ /\ dl[r].key # k] \in Downloads
      BY <1>3
    <3>1. dl[r] \in Downloads
      BY <1>4
    <3> QED
      BY <3>1, Zenon DEF Downloads
  <2>5. ASSUME NEW d \in Conns
        PROVE  /\ flushed'[d] <= given'[d] /\ given'[d] <= Len(Bytes[d])
               /\ phase'[d] \in {"open", "acked"} => key'[d] \in Keys
    <3>1. CASE d = c
      BY <1>2, <1>3, <1>4, <1>5, <3>1
    <3>2. CASE d # c
      BY <1>2, <1>3, <1>4, <3>2 DEF FilesInv, TypeOK
    <3> QED
      BY <3>1, <3>2
  <2> QED
    BY <1>3, <2>1, <2>2, <2>3, <2>4, <2>5 DEF FilesInv, TypeOK
<1>9. Owned'
  <2>1. ASSUME NEW l \in Keys, NEW d \in owners'[l] PROVE key'[d] = l /\ phase'[d] # "idle"
    <3>1. CASE d = c
      <4>1. l = k
        BY <1>3, <1>4, <3>1 DEF FilesInv, Owned
      <4> QED
        BY <1>3, <1>4, <3>1, <4>1
    <3>2. CASE d # c /\ l = k
      <4>1. d \in Open(k)
        BY <1>3, <1>4, <3>2
      <4> QED
        BY <1>3, <1>4, <3>2, <4>1 DEF Open
    <3>3. CASE d # c /\ l # k
      BY <1>3, <1>4, <3>3 DEF FilesInv, Owned
    <3> QED
      BY <3>1, <3>2, <3>3
  <2>2. ASSUME NEW d \in Conns, phase'[d] = "open" PROVE d \in owners'[key'[d]]
    <3>1. CASE d = c
      BY <1>3, <1>4, <3>1
    <3>2. CASE d # c /\ key[d] = k
      <4>1. d \in Open(k)
        BY <1>3, <1>4, <2>2, <3>2 DEF Open
      <4> QED
        BY <1>3, <1>4, <3>2, <4>1
    <3>3. CASE d # c /\ key[d] # k
      <4>1. d \in owners[key[d]] /\ key'[d] = key[d] /\ key[d] \in Keys
        BY <1>3, <1>4, <2>2, <3>3 DEF FilesInv, Owned, TypeOK
      <4> QED
        BY <1>3, <1>4, <3>3, <4>1
    <3> QED
      BY <3>1, <3>2, <3>3
  <2> QED
    BY <2>1, <2>2 DEF Owned
<1>10. Own'
  <2> SUFFICES ASSUME NEW d \in Conns, NEW l \in Keys, Sole(d, l)'
               PROVE  files'[l] = SubSeq(Bytes[d], 1, flushed'[d])
    BY DEF Own
  <2>1. CASE l = k
    <3>1. d = c
      <4>1. c \in owners'[k]
        BY <1>3, <1>4
      <4> QED
        BY <2>1, <4>1 DEF Sole
    <3> QED
      BY <1>2, <1>4, <2>1, <3>1
  <2>2. CASE l # k
    <3>1. Sole(d, l)
      BY <1>3, <1>4, <2>2 DEF Sole
    <3>2. d # c
      BY <1>3, <3>1 DEF FilesInv, Owned, Sole
    <3> QED
      BY <1>2, <1>4, <2>2, <3>1, <3>2 DEF FilesInv, Own
  <2> QED
    BY <2>1, <2>2
<1>11. AckedFlushed'
  BY <1>2, <1>3, <1>4 DEF FilesInv, AckedFlushed
<1> QED
  BY <1>8, <1>9, <1>10, <1>11 DEF FilesInv

LEMMA StreamStepInv ==
  ASSUME FilesInv, NEW c \in Conns, Write(c) \/ WriteFails(c) \/ Finish(c) \/ Drop(c)
  PROVE  \E n, m \in Nat : Flushed(c, n, m)
<1>1. /\ flushed[c] \in Nat /\ given[c] \in Nat /\ flushed[c] <= given[c]
      /\ given[c] <= Len(Bytes[c]) /\ Len(Bytes[c]) \in Nat
      /\ phase \in [Conns -> {"idle", "open", "acked", "gone"}]
      /\ given \in [Conns -> Nat] /\ bad \in [Conns -> BOOLEAN]
  BY BytesType DEF FilesInv, TypeOK
<1>2. CASE Write(c)
  <2>1. PICK n \in (given[c] + 1)..Len(Bytes[c]) : \E m \in flushed[c]..n :
          given' = [given EXCEPT ![c] = n] /\ Flush(c, m)
    BY <1>2 DEF Write
  <2>2. PICK m \in flushed[c]..n : given' = [given EXCEPT ![c] = n] /\ Flush(c, m)
    BY <2>1
  <2>3. phase[c] = "open" /\ UNCHANGED <<streamKeeps, phase, bad>>
    BY <1>2 DEF Write
  <2>4. n \in Nat /\ m \in Nat /\ n \in given[c]..Len(Bytes[c])
    BY <1>1, <2>1, <2>2
  <2>5. phase' = [phase EXCEPT ![c] = phase'[c]] /\ phase'[c] = "open"
    BY <1>1, <2>3
  <2>6. Flushed(c, n, m)
    BY <2>2, <2>3, <2>4, <2>5 DEF Flushed
  <2> QED
    BY <2>4, <2>6
<1>3. CASE WriteFails(c)
  <2>1. PICK m \in flushed[c]..given[c] : Flush(c, m)
    BY <1>3 DEF WriteFails
  <2>2. phase[c] = "open" /\ bad' = [bad EXCEPT ![c] = TRUE] /\ UNCHANGED <<streamKeeps, phase, given>>
    BY <1>3 DEF WriteFails
  <2>3. m \in Nat /\ given[c] \in given[c]..Len(Bytes[c])
    BY <1>1, <2>1
  <2>4. /\ phase' = [phase EXCEPT ![c] = phase'[c]] /\ phase'[c] = "open"
        /\ given' = [given EXCEPT ![c] = given[c]]
    BY <1>1, <2>2
  <2>5. Flushed(c, given[c], m)
    BY <2>1, <2>2, <2>3, <2>4 DEF Flushed
  <2> QED
    BY <1>1, <2>3, <2>5
<1>4. ASSUME NEW n \in given[c]..Len(Bytes[c]), NEW p \in {"acked", "gone"},
             phase[c] = "open", Close(c, n), Becomes(c, p), UNCHANGED streamKeeps,
             p = "acked" => bad[c] \/ n = Len(Bytes[c])
      PROVE  \E i, m \in Nat : Flushed(c, i, m)
  <2>1. phase' = [phase EXCEPT ![c] = phase'[c]] /\ phase'[c] = p /\ n \in Nat
    BY <1>1, <1>4 DEF Becomes
  <2>2. given' = [given EXCEPT ![c] = n]
    BY <1>4 DEF Close
  <2>3. CASE ~bad[c] /\ Flush(c, n) /\ UNCHANGED bad
    <3>1. n \in flushed[c]..n
      BY <1>1
    <3>2. Flushed(c, n, n)
      BY <1>4, <2>1, <2>2, <2>3, <3>1 DEF Flushed
    <3> QED
      BY <2>1, <3>2
  <2>4. CASE \E m \in flushed[c]..n : Flush(c, m) /\ bad' = [bad EXCEPT ![c] = TRUE]
    <3>1. PICK m \in flushed[c]..n : Flush(c, m) /\ bad' = [bad EXCEPT ![c] = TRUE]
      BY <2>4
    <3>2. m \in Nat /\ bad'[c]
      BY <1>1, <2>1, <3>1
    <3>3. Flushed(c, n, m)
      BY <1>4, <2>1, <2>2, <3>1, <3>2 DEF Flushed
    <3> QED
      BY <2>1, <3>2, <3>3
  <2> QED
    BY <1>4, <2>3, <2>4 DEF Close
<1>5. CASE Finish(c)
  <2> DEFINE n == IF bad[c] THEN given[c] ELSE Len(Bytes[c])
  <2>1. n \in given[c]..Len(Bytes[c]) /\ (bad[c] \/ n = Len(Bytes[c]))
    BY <1>1
  <2>2. phase[c] = "open" /\ Close(c, n) /\ Becomes(c, "acked") /\ UNCHANGED streamKeeps
    BY <1>5 DEF Finish
  <2> HIDE DEF n
  <2> QED
    BY <2>1, <2>2, <1>4
<1>6. CASE Drop(c)
  <2>1. phase[c] = "open" /\ Close(c, given[c]) /\ Becomes(c, "gone") /\ UNCHANGED streamKeeps
    BY <1>6 DEF Drop
  <2>2. given[c] \in given[c]..Len(Bytes[c])
    BY <1>1
  <2> QED
    BY <2>1, <2>2, <1>4
<1> QED
  BY <1>2, <1>3, <1>5, <1>6

\* The counts of a download, and, while no upload has begun the name and one upload has it
\* to itself, its bytes.
Sending ==
  \A r \in Readers : dl[r].phase \in {"sending", "done"} =>
    /\ dl[r].key \in Keys /\ dl[r].size = Len(dl[r].seen)
    /\ Len(dl[r].got) <= dl[r].size
    /\ dl[r].phase = "done" => Len(dl[r].got) = dl[r].size

Calm ==
  \A r \in Readers :
    /\ dl[r].phase \in {"sending", "done"} /\ dl[r].calm
    /\ \E c \in Conns : Sole(c, dl[r].key)
    => Prefix(dl[r].got, dl[r].seen) /\ Prefix(dl[r].seen, files[dl[r].key])

LEMMA DownloadStepType ==
  ASSUME FilesInv, Sending, NEW r \in Readers, DownloadStep(r)
  PROVE  dl' \in [Readers -> Downloads] /\ UNCHANGED <<files, owners, streamVars, up, restarts>>
<1>1. dl \in [Readers -> Downloads] /\ files \in [Keys -> Seq(Cells)]
  BY DEF FilesInv, TypeOK
<1>2. UNCHANGED <<files, owners, streamVars, up, restarts>>
  BY DEF DownloadStep, Ask, Send
<1>3. ASSUME NEW k \in Keys, Ask(r, k) PROVE dl' \in [Readers -> Downloads]
  <2>1. files[k] \in Seq(Cells) /\ Len(files[k]) \in Nat
    BY <1>1, LenProperties
  <2>2. <<>> \in Seq(Cells)
    BY EmptySeq
  <2>3. [Idle EXCEPT !.phase = "missing"] \in Downloads
    BY <2>2 DEF Idle, Downloads
  <2>4. [Idle EXCEPT !.phase = "sending", !.key = k, !.size = Len(files[k]), !.seen = files[k]]
           \in Downloads
    BY <2>1, <2>2 DEF Idle, Downloads
  <2> QED
    BY <1>1, <1>3, <2>3, <2>4 DEF Ask
<1>4. ASSUME Send(r) PROVE dl' \in [Readers -> Downloads]
  <2> DEFINE x == dl[r]
             p == Len(x.got)
             more(n) == SubSeq(files[x.key], p + 1, p + n)
             y(n) == [x EXCEPT !.got = @ \o more(n), !.phase = IF p + n = x.size THEN "done" ELSE @]
  <2>1. x \in Downloads
    BY <1>1
  <2>2. PICK n \in 1..(x.size - p) : p + n <= Len(files[x.key]) /\ dl' = [dl EXCEPT ![r] = y(n)]
    BY <1>4 DEF Send
  <2>3. x.got \in Seq(Cells) /\ p \in Nat /\ x.size \in Nat /\ n \in Nat
    BY <2>1, <2>2, LenProperties DEF Downloads
  <2>4. more(n) \in Seq(Cells)
    <3>1. x.key \in Keys
      BY <1>4 DEF Sending, Send
    <3>2. files[x.key] \in [1..Len(files[x.key]) -> Cells] /\ Len(files[x.key]) \in Nat
      BY <1>1, <3>1, LenProperties
    <3>3. \A j \in (p + 1)..(p + n) : files[x.key][j] \in Cells
      BY <2>2, <2>3, <3>2
    <3> QED
      BY <2>3, <3>3, SubSeqProperties
  <2> HIDE DEF more, x
  <2>5. x.got \o more(n) \in Seq(Cells)
    BY <2>3, <2>4, ConcatProperties
  <2>6. y(n) \in Downloads
    BY <2>1, <2>5 DEF Downloads
  <2> QED
    BY <1>1, <2>2, <2>6
<1> QED
  BY <1>2, <1>3, <1>4 DEF DownloadStep

DownloadsInv == Sending /\ Calm

LEMMA FlushDownloads ==
  ASSUME FilesInv, DownloadsInv, NEW c \in Conns, NEW n, NEW m, Flushed(c, n, m)
  PROVE  DownloadsInv'
<1>1. dl' = dl /\ owners' = owners /\ key' = key /\ phase[c] = "open"
  BY DEF Flushed, streamKeeps
<1>2. Sending'
  BY <1>1 DEF DownloadsInv, Sending
<1>3. FilesInv'
  BY FlushInv
<1>4. \A k \in Keys : k # key[c] => files'[k] = files[k]
  BY FlushFacts DEF Flushed, Flush
<1>5. flushed'[c] = m
  BY FlushFacts DEF Flushed, Flush
<1>6. Calm'
  <2> SUFFICES ASSUME NEW r \in Readers, dl[r].phase \in {"sending", "done"}, dl[r].calm,
                      NEW d \in Conns, Sole(d, dl[r].key)
               PROVE  Prefix(dl[r].got, dl[r].seen) /\ Prefix(dl[r].seen, files'[dl[r].key])
    BY <1>1 DEF Calm, Sole
  <2> DEFINE k == dl[r].key
             t == dl[r].seen
  <2>1. k \in Keys /\ Prefix(dl[r].got, t) /\ Prefix(t, files[k])
    BY DEF DownloadsInv, Sending, Calm
  <2>2. CASE k # key[c]
    BY <1>4, <2>1, <2>2
  <2>3. CASE k = key[c]
    <3>1. d = c
      BY <1>1, <2>3 DEF FilesInv, Owned, Sole
    <3>2. files[k] = SubSeq(Bytes[c], 1, flushed[c])
      BY <2>1, <3>1 DEF FilesInv, Own
    <3>3. files'[k] = SubSeq(Bytes[c], 1, m)
      BY <1>1, <1>3, <1>5, <2>1, <3>1 DEF FilesInv, Own, Sole
    <3>4. /\ flushed[c] \in Nat /\ m \in Nat /\ flushed[c] <= m
          /\ Len(SubSeq(Bytes[c], 1, flushed[c])) = flushed[c]
          /\ Len(SubSeq(Bytes[c], 1, m)) = m
          /\ \A j \in 1..flushed[c] : SubSeq(Bytes[c], 1, flushed[c])[j] = Bytes[c][j]
          /\ \A j \in 1..m : SubSeq(Bytes[c], 1, m)[j] = Bytes[c][j]
      <4>1. 0 \in Nat /\ 0 + 1 = 1 /\ m \in 0..Len(Bytes[c]) /\ flushed[c] \in 0..Len(Bytes[c])
        BY FlushFacts
      <4> QED
        BY <4>1, FlushFacts, BytesType
    <3>5. t \in Seq(Cells) /\ Len(t) \in Nat
      BY LenProperties DEF FilesInv, TypeOK, Downloads
    <3> QED
      BY <2>1, <3>2, <3>3, <3>4, <3>5 DEF Prefix
  <2> QED
    BY <2>2, <2>3
<1> QED
  BY <1>2, <1>6 DEF DownloadsInv

LEMMA BeginDownloads ==
  ASSUME FilesInv, DownloadsInv, NEW c \in Conns, NEW name \in Names, Begin(c, name)
  PROVE  DownloadsInv'
<1> DEFINE k == Sanitize(Base(name))
<1>1. /\ dl' = [r \in Readers |-> [dl[r] EXCEPT !.calm = @ /\ dl[r].key # k]]
      /\ k \in Keys
      /\ owners' = [owners EXCEPT ![k] = Open(k) \cup {c}]
      /\ \E s : files' = [files EXCEPT ![k] = s]
  BY DEF Begin
<1> HIDE DEF k
<1>2. dl \in [Readers -> Downloads] /\ owners \in [Keys -> SUBSET Conns] /\ files \in [Keys -> Seq(Cells)]
  BY DEF FilesInv, TypeOK
<1>3. ASSUME NEW r \in Readers
      PROVE  /\ dl'[r].phase = dl[r].phase /\ dl'[r].key = dl[r].key
             /\ dl'[r].size = dl[r].size /\ dl'[r].got = dl[r].got /\ dl'[r].seen = dl[r].seen
             /\ dl'[r].calm => dl[r].calm /\ dl[r].key # k
  <2>1. dl[r] \in Downloads /\ dl'[r] = [dl[r] EXCEPT !.calm = @ /\ dl[r].key # k]
    BY <1>1, <1>2
  <2> QED
    BY <2>1, Zenon DEF Downloads
<1>4. \A l \in Keys : l # k => files'[l] = files[l] /\ owners'[l] = owners[l]
  BY <1>1, <1>2
<1>5. Sending'
  BY <1>3 DEF DownloadsInv, Sending
<1>6. Calm'
  <2> SUFFICES ASSUME NEW r \in Readers, dl'[r].phase \in {"sending", "done"}, dl'[r].calm,
                      NEW d \in Conns, owners'[dl'[r].key] = {d}
               PROVE  Prefix(dl'[r].got, dl'[r].seen) /\ Prefix(dl'[r].seen, files'[dl'[r].key])
    BY DEF Calm, Sole
  <2>1. dl[r].key \in Keys /\ dl[r].key # k
    BY <1>3 DEF DownloadsInv, Sending
  <2>2. Sole(d, dl[r].key)
    BY <1>3, <1>4, <2>1 DEF Sole
  <2> QED
    BY <1>3, <1>4, <2>1, <2>2 DEF DownloadsInv, Calm
<1> QED
  BY <1>5, <1>6 DEF DownloadsInv

LEMMA SendDownloads ==
  ASSUME FilesInv, DownloadsInv, NEW r \in Readers, Send(r) PROVE DownloadsInv'
<1> DEFINE x == dl[r]
           p == Len(x.got)
           k == x.key
<1>1. /\ x \in Downloads /\ dl \in [Readers -> Downloads] /\ files \in [Keys -> Seq(Cells)]
      /\ UNCHANGED <<files, owners>>
  BY DEF FilesInv, TypeOK, Send
<1>2. x.phase = "sending" /\ k \in Keys /\ x.size = Len(x.seen) /\ p <= x.size
  BY DEF Send, DownloadsInv, Sending
<1>3. PICK n \in 1..(x.size - p) :
        /\ p + n <= Len(files[k])
        /\ dl' = [dl EXCEPT ![r] = [x EXCEPT !.got = @ \o SubSeq(files[k], p + 1, p + n),
                                             !.phase = IF p + n = x.size THEN "done" ELSE @]]
  BY DEF Send
<1> DEFINE s == SubSeq(files[k], p + 1, p + n)
<1>4. /\ x.got \in Seq(Cells) /\ p \in Nat /\ x.seen \in Seq(Cells) /\ x.size \in Nat
      /\ n \in Nat /\ n >= 1 /\ p + n <= x.size
      /\ files[k] \in Seq(Cells) /\ Len(files[k]) \in Nat
  BY <1>1, <1>2, <1>3, LenProperties DEF Downloads
<1>5. /\ s \in Seq(Cells) /\ Len(s) = n
      /\ \A j \in 1..n : s[j] = files[k][p + j]
  <2>1. files[k] \in [1..Len(files[k]) -> Cells]
    BY <1>4, LenProperties
  <2>2. \A j \in (p + 1)..(p + n) : files[k][j] \in Cells
    <3>1. /\ p \in Nat /\ n \in Nat /\ Len(files[k]) \in Nat /\ p + n <= Len(files[k])
          /\ \A j \in 1..Len(files[k]) : files[k][j] \in Cells
      BY <1>3, <1>4, <2>1
    <3> HIDE DEF p, k
    <3> QED
      BY <3>1
  <2>3. /\ p + 1 \in Int /\ p + n \in Int /\ p + 1 <= p + n /\ (p + n) - (p + 1) + 1 = n
        /\ \A j \in 1..n : (p + 1) + j - 1 = p + j
    <3> HIDE DEF p
    <3> QED
      BY <1>4
  <2> DEFINE a == p + 1
             b == p + n
             f == files[k]
  <2>4. a \in Int /\ b \in Int /\ a <= b /\ \A j \in a..b : f[j] \in Cells
    BY <2>2, <2>3
  <2>5. s = SubSeq(f, a, b) /\ b - a + 1 = n /\ \A j \in 1..n : f[a + j - 1] = f[p + j]
    BY <2>3
  <2> HIDE DEF a, b, f, s
  <2>6. s \in Seq(Cells) /\ Len(s) = n /\ \A j \in 1..n : s[j] = f[a + j - 1]
    BY <2>4, <2>5, SubSeqProperties
  <2> QED
    BY <2>5, <2>6 DEF f
<1> DEFINE g == x.got \o s
<1>6. /\ g \in Seq(Cells) /\ Len(g) = p + n
      /\ \A j \in 1..(p + n) : g[j] = IF j <= p THEN x.got[j] ELSE s[j - p]
  BY <1>4, <1>5, ConcatProperties
<1>7. /\ dl'[r].got = g /\ dl'[r].phase = IF p + n = x.size THEN "done" ELSE "sending"
      /\ dl'[r].key = k /\ dl'[r].size = x.size /\ dl'[r].seen = x.seen /\ dl'[r].calm = x.calm
      /\ \A q \in Readers : q # r => dl'[q] = dl[q]
  <2> HIDE DEF s
  <2>1. dl'[r] = [x EXCEPT !.got = g, !.phase = IF p + n = x.size THEN "done" ELSE @]
    BY <1>1, <1>3 DEF s
  <2> HIDE DEF g, x
  <2> QED
    BY <1>1, <1>2, <1>3, <2>1 DEF Downloads, x
<1> HIDE DEF s, g
<1>8. Sending'
  <2>1. ASSUME NEW q \in Readers, dl'[q].phase \in {"sending", "done"}
        PROVE  /\ dl'[q].key \in Keys /\ dl'[q].size = Len(dl'[q].seen)
               /\ Len(dl'[q].got) <= dl'[q].size
               /\ dl'[q].phase = "done" => Len(dl'[q].got) = dl'[q].size
    <3>1. CASE q = r
      BY <1>2, <1>4, <1>6, <1>7, <3>1
    <3>2. CASE q # r
      BY <1>7, <2>1, <3>2 DEF DownloadsInv, Sending
    <3> QED
      BY <3>1, <3>2
  <2> QED
    BY <2>1 DEF Sending
<1>9. Calm'
  <2> SUFFICES ASSUME NEW q \in Readers, dl'[q].phase \in {"sending", "done"}, dl'[q].calm,
                      NEW d \in Conns, owners'[dl'[q].key] = {d}
               PROVE  Prefix(dl'[q].got, dl'[q].seen) /\ Prefix(dl'[q].seen, files'[dl'[q].key])
    BY DEF Calm, Sole
  <2>1. CASE q = r
    <3>1. Prefix(x.got, x.seen) /\ Prefix(x.seen, files[k])
      BY <1>1, <1>2, <1>7, <2>1 DEF DownloadsInv, Calm, Sole
    <3>2. ASSUME NEW j \in 1..(p + n) PROVE g[j] = x.seen[j]
      <4>1. CASE j <= p
        BY <1>4, <1>6, <3>1, <4>1 DEF Prefix
      <4>2. CASE j > p
        <5>1. j - p \in 1..n /\ p + (j - p) = j /\ j \in 1..Len(x.seen)
          <6>1. p \in Nat /\ n \in Nat /\ p + n <= Len(x.seen) /\ j \in 1..(p + n) /\ Len(x.seen) \in Nat
            BY <1>2, <1>4
          <6> HIDE DEF p, x
          <6> QED
            BY <6>1, <4>2
        <5>2. g[j] = s[j - p]
          BY <1>4, <1>6, <4>2
        <5>3. s[j - p] = files[k][j]
          BY <1>5, <5>1
        <5>4. x.seen[j] = files[k][j]
          BY <3>1, <5>1 DEF Prefix
        <5> QED
          BY <5>2, <5>3, <5>4
      <4> QED
        BY <1>4, <4>1, <4>2
    <3>3. Prefix(g, x.seen)
      BY <1>2, <1>4, <1>6, <3>2 DEF Prefix
    <3> QED
      BY <1>1, <1>7, <2>1, <3>1, <3>3
  <2>2. CASE q # r
    BY <1>1, <1>7, <2>2 DEF DownloadsInv, Calm, Sole
  <2> QED
    BY <2>1, <2>2
<1> QED
  BY <1>8, <1>9 DEF DownloadsInv

LEMMA AskDownloads ==
  ASSUME FilesInv, DownloadsInv, NEW r \in Readers, NEW k \in Keys, Ask(r, k)
  PROVE  DownloadsInv'
<1>1. /\ dl \in [Readers -> Downloads] /\ UNCHANGED <<files, owners>>
      /\ files[k] \in Seq(Cells) /\ Len(files[k]) \in Nat
  BY LenProperties DEF FilesInv, TypeOK, Ask
<1>2. /\ \A q \in Readers : q # r => dl'[q] = dl[q]
      /\ \/ dl'[r].phase = "missing"
         \/ /\ dl'[r].phase = "sending" /\ dl'[r].key = k /\ dl'[r].size = Len(files[k])
            /\ dl'[r].seen = files[k] /\ dl'[r].got = <<>>
  BY <1>1 DEF Ask, Idle
<1>3. Len(<<>>) = 0 /\ Prefix(<<>>, files[k]) /\ Prefix(files[k], files[k])
  BY <1>1, EmptySeq DEF Prefix
<1>4. Sending'
  <2>1. ASSUME NEW q \in Readers, dl'[q].phase \in {"sending", "done"}
        PROVE  /\ dl'[q].key \in Keys /\ dl'[q].size = Len(dl'[q].seen)
               /\ Len(dl'[q].got) <= dl'[q].size
               /\ dl'[q].phase = "done" => Len(dl'[q].got) = dl'[q].size
    BY <1>1, <1>2, <1>3, <2>1 DEF DownloadsInv, Sending
  <2> QED
    BY <2>1 DEF Sending
<1>5. Calm'
  <2> SUFFICES ASSUME NEW q \in Readers, dl'[q].phase \in {"sending", "done"}, dl'[q].calm,
                      NEW d \in Conns, owners'[dl'[q].key] = {d}
               PROVE  Prefix(dl'[q].got, dl'[q].seen) /\ Prefix(dl'[q].seen, files'[dl'[q].key])
    BY DEF Calm, Sole
  <2>1. CASE q = r
    BY <1>1, <1>2, <1>3, <2>1
  <2>2. CASE q # r
    BY <1>1, <1>2, <2>2 DEF DownloadsInv, Calm, Sole
  <2> QED
    BY <2>1, <2>2
<1> QED
  BY <1>4, <1>5 DEF DownloadsInv

(***************************************************************************)
(* The theorems.                                                           *)
(***************************************************************************)
Inv == FilesInv /\ DownloadsInv

LEMMA InitInv == Init => Inv
<1> SUFFICES ASSUME Init PROVE Inv
  OBVIOUS
<1>1. <<>> \in Seq(Cells) /\ Len(<<>>) = 0
  BY EmptySeq
<1>2. Idle \in Downloads
  BY <1>1 DEF Idle, Downloads
<1>3. TypeOK
  <2>1. \A c \in Conns : Len(Bytes[c]) \in Nat
    BY BytesType
  <2>2. files \in [Keys -> Seq(Cells)] /\ dl \in [Readers -> Downloads]
    BY <1>1, <1>2 DEF Init
  <2>3. /\ owners \in [Keys -> SUBSET Conns] /\ key \in [Conns -> Keys \cup {NULL}]
        /\ phase \in [Conns -> {"idle", "open", "acked", "gone"}] /\ bad \in [Conns -> BOOLEAN]
    BY DEF Init
  <2>4. given \in [Conns -> Nat] /\ flushed \in [Conns -> Nat] /\ up \in BOOLEAN
        /\ restarts \in 0..MaxRestarts
    BY UploadsAssumption DEF Init
  <2>5. \A c \in Conns : /\ flushed[c] <= given[c] /\ given[c] <= Len(Bytes[c])
                         /\ phase[c] \in {"open", "acked"} => key[c] \in Keys
    <3> TAKE c \in Conns
    <3>1. flushed[c] = 0 /\ given[c] = 0 /\ phase[c] = "idle"
      BY DEF Init
    <3> QED
      BY <2>1, <3>1
  <2> QED
    BY <2>2, <2>3, <2>4, <2>5, KeysSafe DEF TypeOK
<1>4. Owned /\ Own /\ AckedFlushed
  BY DEF Init, Owned, Own, AckedFlushed, Sole
<1>5. Sending /\ Calm
  BY DEF Init, Idle, Sending, Calm
<1> QED
  BY <1>3, <1>4, <1>5 DEF Inv, FilesInv, DownloadsInv

LEMMA CrashInv == ASSUME Inv, Crash PROVE Inv'
<1>1. /\ UNCHANGED <<files, owners, key, given, flushed, bad, restarts>> /\ up' = FALSE
      /\ phase' = [c \in Conns |-> IF phase[c] = "open" THEN "gone" ELSE phase[c]]
      /\ dl' = [r \in Readers |-> IF dl[r].phase = "sending" THEN [dl[r] EXCEPT !.phase = "cut"]
                                  ELSE dl[r]]
  BY DEF Crash
<1>2. TypeOK
  BY DEF Inv, FilesInv
<1>3. \A r \in Readers : dl'[r] \in Downloads /\ dl'[r].phase # "sending"
                         /\ (dl'[r].phase = "done" => dl'[r] = dl[r])
  <2> TAKE r \in Readers
  <2>1. dl[r] \in Downloads
    BY <1>2 DEF TypeOK
  <2> QED
    BY <1>1, <2>1 DEF Downloads
<1>4. phase' \in [Conns -> {"idle", "open", "acked", "gone"}]
  BY <1>1, <1>2 DEF TypeOK
<1>5. dl' \in [Readers -> Downloads]
  BY <1>1, <1>3
<1>6. TypeOK'
  BY <1>1, <1>2, <1>4, <1>5 DEF TypeOK, Downloads
<1>7. Owned' /\ Own' /\ AckedFlushed'
  BY <1>1, <1>2 DEF Inv, FilesInv, Owned, Own, AckedFlushed, Sole, TypeOK
<1>8. Sending'
  BY <1>3 DEF Inv, DownloadsInv, Sending
<1>9. Calm'
  BY <1>1, <1>3 DEF Inv, DownloadsInv, Calm, Sole
<1> QED
  BY <1>6, <1>7, <1>8, <1>9 DEF Inv, FilesInv, DownloadsInv

LEMMA QuietInv ==
  ASSUME Inv, UNCHANGED <<files, owners, key, given, flushed, bad, dl>>,
         \/ \E c \in Conns : phase[c] = "idle" /\ phase' = [phase EXCEPT ![c] = "gone"]
         \/ UNCHANGED phase,
         up' \in BOOLEAN, restarts' \in 0..MaxRestarts
  PROVE  Inv'
<1>1. TypeOK
  BY DEF Inv, FilesInv
<1>2. /\ phase' \in [Conns -> {"idle", "open", "acked", "gone"}]
      /\ \A c \in Conns : phase'[c] # phase[c] => phase[c] = "idle" /\ phase'[c] = "gone"
  BY <1>1 DEF TypeOK
<1>3. TypeOK'
  BY <1>1, <1>2 DEF TypeOK, Downloads
<1>4. Owned' /\ Own' /\ AckedFlushed'
  BY <1>1, <1>2 DEF Inv, FilesInv, Owned, Own, AckedFlushed, Sole, TypeOK
<1>5. Sending' /\ Calm'
  BY DEF Inv, DownloadsInv, Sending, Calm, Sole
<1> QED
  BY <1>3, <1>4, <1>5 DEF Inv, FilesInv, DownloadsInv

LEMMA DownloadStepInv ==
  ASSUME Inv, NEW r \in Readers, DownloadStep(r) PROVE Inv'
<1>1. dl' \in [Readers -> Downloads] /\ UNCHANGED <<files, owners, streamVars, up, restarts>>
  BY DownloadStepType DEF Inv, DownloadsInv
<1>2. DownloadsInv'
  BY AskDownloads, SendDownloads DEF Inv, DownloadStep
<1>3. TypeOK'
  BY <1>1 DEF Inv, FilesInv, TypeOK, streamVars, Downloads
<1>4. Owned' /\ Own' /\ AckedFlushed'
  BY <1>1 DEF Inv, FilesInv, Owned, Own, AckedFlushed, Sole, streamVars
<1> QED
  BY <1>2, <1>3, <1>4 DEF Inv, FilesInv

LEMMA UploadStepInv ==
  ASSUME Inv, NEW c \in Conns, UploadStep(c) PROVE Inv'
<1>1. ASSUME NEW name \in Names, Begin(c, name) PROVE Inv'
  BY <1>1, BeginInv, BeginDownloads DEF Inv
<1>2. CASE NotOpened(c)
  <2>1. /\ phase[c] = "idle" /\ phase' = [phase EXCEPT ![c] = "gone"]
        /\ UNCHANGED <<files, owners, key, given, flushed, bad, dl, up, restarts>>
    BY <1>2 DEF NotOpened, Becomes
  <2> QED
    BY <2>1, QuietInv DEF Inv, FilesInv, TypeOK
<1>3. CASE Write(c) \/ WriteFails(c) \/ Finish(c) \/ Drop(c)
  <2>1. PICK n, m \in Nat : Flushed(c, n, m)
    BY <1>3, StreamStepInv DEF Inv
  <2> QED
    BY <2>1, FlushInv, FlushDownloads DEF Inv
<1> QED
  BY <1>1, <1>2, <1>3 DEF UploadStep

LEMMA InvStep == Inv /\ [Next]_vars => Inv'
<1> SUFFICES ASSUME Inv, [Next]_vars PROVE Inv'
  OBVIOUS
<1>1. CASE Restart
  BY <1>1, QuietInv, UploadsAssumption DEF Restart, Inv, FilesInv, TypeOK, streamVars
<1>2. CASE UNCHANGED vars
  BY <1>2, QuietInv DEF vars, streamVars, Inv, FilesInv, TypeOK
<1> QED
  BY <1>1, <1>2, UploadStepInv, DownloadStepInv, CrashInv DEF Next

LEMMA InvHolds == Spec => []Inv
BY InitInv, InvStep, PTL DEF Spec

\* Every variable has its type; names that are stored under are short and plain.
THEOREM TypeCorrect == Spec => []TypeOK
<1>1. Inv => TypeOK
  BY DEF Inv, FilesInv
<1> QED
  BY <1>1, InvHolds, PTL

\* An acknowledged upload is stored whole and stays so until another upload of its name
\* begins, whoever leaves, and through crashes and restarts.
THEOREM AckedCorrect == Spec => []AckedWhole
<1>1. ASSUME Inv PROVE AckedWhole
  <2> SUFFICES ASSUME NEW c \in Conns, phase[c] = "acked", ~bad[c], Sole(c, key[c])
               PROVE  files[key[c]] = Bytes[c]
    BY DEF AckedWhole
  <2>1. key[c] \in Keys /\ flushed[c] = Len(Bytes[c])
    BY <1>1 DEF Inv, FilesInv, TypeOK, AckedFlushed
  <2>2. files[key[c]] = SubSeq(Bytes[c], 1, Len(Bytes[c]))
    BY <1>1, <2>1 DEF Inv, FilesInv, Own
  <2> QED
    BY <2>2, BytesType, SubSeqFull
<1> QED
  BY <1>1, InvHolds, PTL

\* A download gets the file it was answered with, unless an upload of the name begins
\* meanwhile or two were writing it.
THEOREM DownloadCorrect == Spec => []DownloadOf
<1>1. ASSUME Inv PROVE DownloadOf
  <2> SUFFICES ASSUME NEW r \in Readers, dl[r].phase \in {"sending", "done"}, dl[r].calm,
                      NEW c \in Conns, Sole(c, dl[r].key)
               PROVE  /\ Prefix(dl[r].got, dl[r].seen) /\ Prefix(dl[r].seen, files[dl[r].key])
                      /\ dl[r].phase = "done" => dl[r].got = dl[r].seen
    BY DEF DownloadOf
  <2>1. Prefix(dl[r].got, dl[r].seen) /\ Prefix(dl[r].seen, files[dl[r].key])
    BY <1>1 DEF Inv, DownloadsInv, Calm
  <2>2. ASSUME dl[r].phase = "done" PROVE dl[r].got = dl[r].seen
    <3>1. dl[r].got \in Seq(Cells) /\ dl[r].seen \in Seq(Cells)
      BY <1>1 DEF Inv, FilesInv, TypeOK, Downloads
    <3>2. Len(dl[r].got) = Len(dl[r].seen)
      BY <1>1, <2>2 DEF Inv, DownloadsInv, Sending
    <3> QED
      BY <2>1, <3>1, <3>2, SeqEqual DEF Prefix
  <2> QED
    BY <2>1, <2>2
<1> QED
  BY <1>1, InvHolds, PTL

(***************************************************************************)
(* Uploads implements FileStore: every step of an upload is a step of the  *)
(* abstract directory or leaves it as it is.                               *)
(***************************************************************************)
stored == [k \in Keys |-> Holding(files[k], owners[k])]
writers == [k \in Keys |-> Open(k)]
acked == {c \in Conns : phase[c] = "acked" /\ ~bad[c]}

PartOf(c) == [state |-> "part", by |-> c]
WholeOf(c) == [state |-> "whole", by |-> c]
Mixed == [state |-> "mixed", by |-> NULL]

\* A file with one owner holds what the owner has written of its upload.
LEMMA HoldingSole ==
  ASSUME NEW c \in Conns, NEW m \in 0..Len(Bytes[c]), NEW file, file = SubSeq(Bytes[c], 1, m)
  PROVE  Holding(file, {c}) = IF m = Len(Bytes[c]) THEN WholeOf(c) ELSE PartOf(c)
<1>1. (CHOOSE d \in Conns : {c} = {d}) = c
  OBVIOUS
<1>2. /\ Bytes[c] \in Seq(Cells) /\ Len(Bytes[c]) \in Nat /\ Len(file) = m
      /\ \A j \in 1..m : file[j] = Bytes[c][j]
  <2>1. /\ Bytes[c] \in Seq(Cells) /\ Len(Bytes[c]) \in Nat
        /\ 0 \in Nat /\ 0 + 1 = 1 /\ m \in Nat
    BY BytesType
  <2> QED
    BY <2>1, BytesType
<1>3. Prefix(file, Bytes[c])
  BY <1>2 DEF Prefix
<1>4. file = Bytes[c] <=> m = Len(Bytes[c])
  BY <1>2, SubSeqFull
<1> QED
  BY <1>1, <1>3, <1>4 DEF Holding, WholeOf, PartOf

LEMMA HoldingShared ==
  ASSUME NEW file, NEW own, own # {}, \A c \in Conns : own # {c}
  PROVE  Holding(file, own) = Mixed
BY DEF Holding, Mixed

LEMMA FlushedImplements ==
  ASSUME FilesInv, NEW c \in Conns, NEW n, NEW m, Flushed(c, n, m)
  PROVE  \/ Store!Store(c, key[c]) \/ Store!End(c, key[c])
         \/ UNCHANGED <<stored, writers, acked>>
<1> DEFINE k == key[c]
<1>1. /\ k \in Keys /\ m \in 0..Len(Bytes[c]) /\ flushed[c] \in 0..m
      /\ phase[c] = "open" /\ owners' = owners /\ key' = key
      /\ owners \in [Keys -> SUBSET Conns] /\ c \in owners[k]
  BY FlushFacts DEF Flushed, streamKeeps, FilesInv, TypeOK, Owned
<1>2. \A l \in Keys : l # k => files'[l] = files[l]
  BY FlushFacts DEF Flushed, Flush
<1>3. \A d \in Conns : d # c => phase'[d] = phase[d] /\ bad'[d] = bad[d]
  BY FlushFacts DEF Flushed
<1>4. phase'[c] \in {"open", "acked", "gone"} /\ (phase'[c] = "acked" => bad'[c] \/ m = Len(Bytes[c]))
  BY DEF Flushed
<1>5. FilesInv'
  BY FlushInv
<1> DEFINE old == Holding(files[k], owners[k])
           new == Holding(files'[k], owners[k])
<1>6. stored' = [stored EXCEPT ![k] = new] /\ stored[k] = old
  BY <1>1, <1>2 DEF stored
<1>7. \/ owners[k] # {c} /\ old = Mixed /\ new = Mixed
      \/ /\ old = IF flushed[c] = Len(Bytes[c]) THEN WholeOf(c) ELSE PartOf(c)
         /\ new = IF m = Len(Bytes[c]) THEN WholeOf(c) ELSE PartOf(c)
  <2>1. CASE owners[k] = {c}
    <3>1. files[k] = SubSeq(Bytes[c], 1, flushed[c])
      BY <1>1, <2>1 DEF FilesInv, Own, Sole
    <3>2. files'[k] = SubSeq(Bytes[c], 1, m)
      <4>1. flushed'[c] = m
        BY FlushFacts DEF Flushed, Flush
      <4> QED
        BY <1>1, <1>5, <2>1, <4>1 DEF FilesInv, Own, Sole
    <3>3. flushed[c] \in 0..Len(Bytes[c])
      BY <1>1, BytesType
    <3> QED
      BY <1>1, <2>1, <3>1, <3>2, <3>3, HoldingSole
  <2>2. CASE owners[k] # {c}
    BY <1>1, <2>2, HoldingShared
  <2> QED
    BY <2>1, <2>2
<1>8. \/ stored' = stored
      \/ stored[k] = PartOf(c) /\ \E v \in {PartOf(c), WholeOf(c)} : stored' = [stored EXCEPT ![k] = v]
  <2>1. flushed[c] = Len(Bytes[c]) => m = Len(Bytes[c])
    BY <1>1, BytesType
  <2>2. new = old \/ (old = PartOf(c) /\ new \in {PartOf(c), WholeOf(c)})
    BY <1>7, <2>1
  <2>3. new = old => stored' = stored
    BY <1>6 DEF stored
  <2> HIDE DEF old, new
  <2> QED
    BY <1>6, <2>2, <2>3
<1>9. writers[k] = Open(k) /\ c \in Open(k) /\ c \notin acked
  BY <1>1 DEF writers, Open, acked
<1>10. CASE phase'[c] = "open"
  <2>1. writers' = writers /\ acked' = acked
    BY <1>1, <1>3, <1>10 DEF writers, Open, acked
  <2> QED
    BY <1>8, <1>9, <2>1 DEF Store!Store, Store!Grow, Store!Part, Store!Whole, Store!Holds,
                            PartOf, WholeOf, stored, writers, acked
<1>11. CASE phase'[c] # "open"
  <2>1. writers' = [writers EXCEPT ![k] = @ \ {c}]
    BY <1>1, <1>3, <1>11 DEF writers, Open
  <2>2. acked' = acked \/ (stored'[k] \in {WholeOf(c), Mixed} /\ acked' = acked \cup {c})
    <3>1. CASE phase'[c] = "acked" /\ ~bad'[c]
      <4>1. acked' = acked \cup {c}
        BY <1>3, <3>1 DEF acked
      <4>2. new \in {WholeOf(c), Mixed}
        BY <1>4, <1>7, <3>1
      <4>3. stored'[k] = new
        BY <1>1, <1>6 DEF stored
      <4> QED
        BY <4>1, <4>2, <4>3
    <3>2. CASE ~(phase'[c] = "acked" /\ ~bad'[c])
      BY <1>1, <1>3, <3>2 DEF acked
    <3> QED
      BY <3>1, <3>2
  <2> QED
    BY <1>8, <1>9, <2>1, <2>2 DEF Store!End, Store!Grow, Store!Part, Store!Whole, Store!Mixture,
         Store!Holds, PartOf, WholeOf, Mixed, stored, writers, acked
<1> QED
  BY <1>10, <1>11

LEMMA BeginImplements ==
  ASSUME FilesInv, NEW c \in Conns, NEW name \in Names, Begin(c, name)
  PROVE  \E k \in Keys : Store!Begin(c, k)
<1> DEFINE k == Sanitize(Base(name))
<1>1. /\ k \in Keys /\ phase[c] = "idle" /\ phase' = [phase EXCEPT ![c] = "open"]
      /\ key' = [key EXCEPT ![c] = k] /\ owners' = [owners EXCEPT ![k] = Open(k) \cup {c}]
      /\ UNCHANGED bad
  BY DEF Begin, Becomes
<1>2. \E n \in 0..Len(Bytes[c]) : \E m \in 0..n :
        files' = [files EXCEPT ![k] = SubSeq(Bytes[c], 1, m)]
  BY DEF Begin, Opened
<1> HIDE DEF k
<1>3. PICK m \in 0..Len(Bytes[c]) : files' = [files EXCEPT ![k] = SubSeq(Bytes[c], 1, m)]
  <2>1. PICK n \in 0..Len(Bytes[c]) :
          \E m \in 0..n : files' = [files EXCEPT ![k] = SubSeq(Bytes[c], 1, m)]
    BY <1>2
  <2>2. Len(Bytes[c]) \in Nat
    BY BytesType
  <2>3. 0..n \subseteq 0..Len(Bytes[c])
    BY <2>2
  <2> QED
    BY <2>1, <2>3
<1>4. /\ files \in [Keys -> Seq(Cells)] /\ owners \in [Keys -> SUBSET Conns]
      /\ phase \in [Conns -> {"idle", "open", "acked", "gone"}]
      /\ key \in [Conns -> Keys \cup {NULL}] /\ bad \in [Conns -> BOOLEAN]
  BY DEF FilesInv, TypeOK
<1>5. c \notin acked /\ \A l \in Keys : writers[l] = Open(l) /\ c \notin Open(l)
  BY <1>1 DEF acked, writers, Open
<1>6. writers' = [writers EXCEPT ![k] = @ \cup {c}]
  <2>1. \A l \in Keys : Open(l)' = IF l = k THEN Open(k) \cup {c} ELSE Open(l)
    BY <1>1, <1>4 DEF Open
  <2> QED
    BY <1>1, <2>1 DEF writers
<1>7. acked' = acked
  BY <1>1, <1>4 DEF acked
<1> DEFINE new == Holding(files'[k], owners'[k])
<1>8. stored' = [stored EXCEPT ![k] = new]
  <2>1. \A l \in Keys : l # k => files'[l] = files[l] /\ owners'[l] = owners[l]
    BY <1>1, <1>3, <1>4
  <2>2. stored' = [l \in Keys |-> Holding(files'[l], owners'[l])]
    BY DEF stored
  <2>3. [stored EXCEPT ![k] = new] = [l \in Keys |-> IF l = k THEN new ELSE Holding(files[l], owners[l])]
    BY DEF stored
  <2>4. \A l \in Keys : Holding(files'[l], owners'[l])
                         = IF l = k THEN new ELSE Holding(files[l], owners[l])
    BY <2>1
  <2> QED
    BY <2>2, <2>3, <2>4
<1>9. new \in IF writers[k] = {} THEN {PartOf(c), WholeOf(c)} ELSE {Mixed}
  <2>1. files'[k] = SubSeq(Bytes[c], 1, m) /\ owners'[k] = Open(k) \cup {c}
    BY <1>1, <1>3, <1>4
  <2>2. CASE Open(k) = {}
    <3>1. owners'[k] = {c}
      BY <2>1, <2>2
    <3>2. new = IF m = Len(Bytes[c]) THEN WholeOf(c) ELSE PartOf(c)
      BY <2>1, <3>1, HoldingSole
    <3> QED
      BY <1>1, <1>5, <2>2, <3>2
  <2>3. CASE Open(k) # {}
    <3>1. owners'[k] # {} /\ \A d \in Conns : owners'[k] # {d}
      BY <1>1, <1>5, <2>1, <2>3
    <3>2. new = Mixed
      BY <3>1, HoldingShared
    <3> QED
      BY <1>1, <1>5, <2>3, <3>2
  <2> QED
    BY <2>2, <2>3
<1> HIDE DEF new
<1>10. Store!Begin(c, k)
  BY <1>1, <1>5, <1>6, <1>7, <1>8, <1>9
     DEF Store!Begin, Store!Part, Store!Whole, Store!Mixture, Store!Holds,
         PartOf, WholeOf, Mixed, stored, writers, acked
<1> QED
  BY <1>1, <1>10

LEMMA OthersImplement ==
  ASSUME FilesInv, UNCHANGED <<files, owners, key, bad>>,
         phase \in [Conns -> {"idle", "open", "acked", "gone"}],
         phase' \in [Conns -> {"idle", "open", "acked", "gone"}],
         \A c \in Conns : phase[c] = "acked" <=> phase'[c] = "acked"
  PROVE  /\ stored' = stored /\ acked' = acked
         /\ (\A c \in Conns : phase[c] = "open" <=> phase'[c] = "open") => writers' = writers
         /\ (\A c \in Conns : phase'[c] # "open") => writers' = [k \in Keys |-> {}]
BY DEF stored, acked, writers, Open

LEMMA StepImplements ==
  ASSUME Inv, [Next]_vars PROVE [Store!Next]_(Store!storeVars)
<1> DEFINE same == UNCHANGED <<stored, writers, acked>>
<1>1. SUFFICES same \/ Store!Next
  BY DEF Store!storeVars, stored, writers, acked
<1>2. FilesInv /\ phase \in [Conns -> {"idle", "open", "acked", "gone"}]
  BY DEF Inv, FilesInv, TypeOK
<1>3. ASSUME NEW c \in Conns, UploadStep(c) PROVE same \/ Store!Next
  <2>1. CASE \E name \in Names : Begin(c, name)
    BY <1>2, <2>1, BeginImplements DEF Store!Next
  <2>2. CASE NotOpened(c)
    <3>1. /\ phase[c] = "idle" /\ phase' = [phase EXCEPT ![c] = "gone"]
          /\ UNCHANGED <<files, owners, key, bad>>
      BY <2>2 DEF NotOpened, Becomes
    <3> QED
      BY <1>2, <3>1, OthersImplement
  <2>3. CASE Write(c) \/ WriteFails(c) \/ Finish(c) \/ Drop(c)
    <3>1. PICK n, m \in Nat : Flushed(c, n, m)
      BY <1>2, <2>3, StreamStepInv
    <3>2. key[c] \in Keys
      BY <1>2, <3>1, FlushFacts
    <3>3. Store!Store(c, key[c]) \/ Store!End(c, key[c]) \/ same
      BY <1>2, <3>1, FlushedImplements
    <3>4. CASE Store!Store(c, key[c])
      <4>1. \E d \in Conns, l \in Keys : Store!Store(d, l)
        BY <3>2, <3>4
      <4> QED
        BY <4>1 DEF Store!Next
    <3>5. CASE Store!End(c, key[c])
      <4>1. \E d \in Conns, l \in Keys : Store!End(d, l)
        BY <3>2, <3>5
      <4> QED
        BY <4>1 DEF Store!Next
    <3> QED
      BY <3>3, <3>4, <3>5
  <2> QED
    BY <1>3, <2>1, <2>2, <2>3 DEF UploadStep
<1>4. ASSUME NEW r \in Readers, DownloadStep(r) PROVE same
  BY <1>2, <1>4, OthersImplement, DownloadStepType DEF Inv, DownloadsInv, streamVars
<1>5. CASE Crash
  <2>1. /\ UNCHANGED <<files, owners, key, bad>>
        /\ phase' = [c \in Conns |-> IF phase[c] = "open" THEN "gone" ELSE phase[c]]
    BY <1>5 DEF Crash
  <2>2. stored' = stored /\ acked' = acked /\ writers' = [k \in Keys |-> {}]
    BY <1>2, <2>1, OthersImplement
  <2> QED
    BY <2>2 DEF Store!Next, Store!EndAll, stored, writers, acked
<1>6. CASE Restart \/ UNCHANGED vars
  <2>1. UNCHANGED <<files, owners, streamVars>>
    BY <1>6 DEF Restart, vars
  <2> QED
    BY <1>2, <2>1, OthersImplement DEF streamVars
<1> QED
  BY <1>3, <1>4, <1>5, <1>6 DEF Next

\* The directory keeps FileStore's promise, for any number of uploads under any names, with
\* crashes and restarts: a name holds one upload from its start, or a mixture of uploads
\* that overlapped, and what is acknowledged is whole or in a mixture.
THEOREM StoreCorrect == Spec => ImplementsFileStore
<1>1. Init => Store!Init
  BY DEF Init, Store!Init, Store!Nothing, Store!Holds, Holding, Open
<1> QED
  BY <1>1, InvHolds, StepImplements, PTL DEF Spec, Store!Spec, ImplementsFileStore

=============================================================================
