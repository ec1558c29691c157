------------------------------ MODULE FileStore ------------------------------
(***************************************************************************)
(* What the directory of uploads promises: a name holds nothing, a part of *)
(* one upload, one upload whole, or a mixture; a mixture only when two     *)
(* uploads of the name overlapped.  An upload is acknowledged only when    *)
(* its name holds it whole or holds a mixture, and stays whole until the   *)
(* next upload of that name begins.                                        *)
(***************************************************************************)
CONSTANTS Conns,   \* the uploads
          Keys,    \* the names
          NULL

VARIABLES
  stored,    \* what each name holds
  writers,   \* the uploads of each name in progress
  acked      \* the uploads acknowledged

storeVars == <<stored, writers, acked>>

Holds(state, c) == [state |-> state, by |-> c]
Nothing == Holds("none", NULL)
Part(c) == Holds("part", c)
Whole(c) == Holds("whole", c)
Mixture == Holds("mixed", NULL)

Init ==
  /\ stored = [k \in Keys |-> Nothing]
  /\ writers = [k \in Keys |-> {}]
  /\ acked = {}

Begin(c, k) ==
  /\ c \notin acked /\ \A n \in Keys : c \notin writers[n]
  /\ writers' = [writers EXCEPT ![k] = @ \cup {c}]
  /\ \E v \in IF writers[k] = {} THEN {Part(c), Whole(c)} ELSE {Mixture} :
       stored' = [stored EXCEPT ![k] = v]
  /\ UNCHANGED acked

\* More of c is stored: perhaps the last of it.
Grow(c, k) ==
  /\ c \in writers[k] /\ stored[k] = Part(c)
  /\ \E v \in {Part(c), Whole(c)} : stored' = [stored EXCEPT ![k] = v]

Store(c, k) == Grow(c, k) /\ UNCHANGED <<writers, acked>>

\* The upload ends, complete or not; only a complete one is acknowledged.
End(c, k) ==
  /\ c \in writers[k]
  /\ writers' = [writers EXCEPT ![k] = @ \ {c}]
  /\ UNCHANGED stored \/ Grow(c, k)
  /\ acked' = acked \/ (stored'[k] \in {Whole(c), Mixture} /\ acked' = acked \cup {c})

\* The server ends, and every upload with it.
EndAll ==
  /\ writers' = [k \in Keys |-> {}]
  /\ UNCHANGED <<stored, acked>>

Next == \/ \E c \in Conns, k \in Keys : Begin(c, k) \/ Store(c, k) \/ End(c, k)
        \/ EndAll

Spec == Init /\ [][Next]_storeVars

=============================================================================
