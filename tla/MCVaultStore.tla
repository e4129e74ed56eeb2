---------------------------- MODULE MCVaultStore ----------------------------
(* A user with a key, who may be renamed, a role, three providers and three     *)
(* sessions; two gateways.                                                   *)
EXTENDS VaultStore, TLC

CONSTANTS alice, bob, admin, i1, i2, i3, g1, g2, k1, k2, s1, s2, s3

MCRenames == {<<alice, bob>>}
MCSeed == [p \in Paths |->
             IF p = alice THEN [ver |-> 1, uid |-> MaxRequests + 1, data |-> [Empty EXCEPT !.keys[k1] = "on"]]
             ELSE IF p = admin THEN [ver |-> 1, uid |-> MaxRequests + 2, data |-> Empty]
             ELSE NoDoc]
Symmetry == Permutations(Calls) \cup Permutations(Providers) \cup Permutations(Sessions)
=============================================================================
