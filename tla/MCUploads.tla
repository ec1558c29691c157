----------------------------- MODULE MCUploads -----------------------------
(* Two uploads, of two and three bytes, with names that differ in what precedes a slash, in
   a character that is replaced, and in what is cut off. *)
EXTENDS Uploads

CONSTANTS u1, u2

TwoConns == {u1, u2}
SomeBytes == [c \in TwoConns |-> [j \in 1..(IF c = u1 THEN 2 ELSE 3) |-> <<c, j>>]]
SomeNames == {<<98>>, <<47, 98>>, <<98, 63>>, <<98, 95, 99>>, <<46, 46>>}
NoByte == <<NULL, 0>>

=============================================================================
