------------------------------- MODULE MCChat -------------------------------
(* Two sockets of one user of a live, and one in another live.               *)
EXTENDS Chat, TLC

CONSTANTS w1, w2, w3, l1, l2, u1

\* The two sockets of a live are alike.
Symmetry == Permutations({w1, w2})

MCSockets == {w1, w2, w3}
MCOwner == w1 :> <<l1, u1>> @@ w2 :> <<l1, u1>> @@ w3 :> <<l2, u1>>
=============================================================================
