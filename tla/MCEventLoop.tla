---------------------------- MODULE MCEventLoop ----------------------------
(* The instances of EventLoop that TLC checks. *)
EXTENDS EventLoop, TLC

CONSTANTS c1, c2, c3

TwoClients == {c1, c2}
ThreeClients == {c1, c2, c3}
Symmetric2 == Permutations(TwoClients)
Symmetric3 == Permutations(ThreeClients)

=============================================================================
