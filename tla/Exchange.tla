------------------------------ MODULE Exchange ------------------------------
(***************************************************************************)
(* What a client is promised, whatever the server does inside: its n-th    *)
(* answer is the answer to its own n-th request, and (with fairness) it    *)
(* comes.                                                                  *)
(***************************************************************************)
EXTENDS Naturals, Sequences

CONSTANTS Clients, MaxReq

VARIABLES asked,    \* asked[c]: the number of requests c has sent
          replies   \* replies[c]: what c has received, as <<client, request>> pairs

exchangeVars == <<asked, replies>>

Init ==
  /\ asked = [c \in Clients |-> 0]
  /\ replies = [c \in Clients |-> <<>>]

Ask(c) ==
  /\ asked[c] < MaxReq
  /\ asked' = [asked EXCEPT ![c] = @ + 1]
  /\ UNCHANGED replies

Reply(c) ==
  /\ Len(replies[c]) < asked[c]
  /\ replies' = [replies EXCEPT ![c] = Append(@, <<c, Len(@) + 1>>)]
  /\ UNCHANGED asked

Next == \E c \in Clients : Ask(c) \/ Reply(c)

Spec == Init /\ [][Next]_exchangeVars

FairSpec == Spec /\ \A c \in Clients : WF_exchangeVars(Reply(c))

=============================================================================
