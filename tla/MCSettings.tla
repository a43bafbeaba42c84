----------------------------- MODULE MCSettings -----------------------------
(* Two users, two keys, one client key, two concurrent requests, and one     *)
(* write failure, kill or power loss; any sync of the directory may fail.     *)
EXTENDS Settings, TLC

CONSTANTS u1, u2, k1, k2, c1, p1, p2, l1, l2

Symmetry == Permutations(User) \cup Permutations(Key) \cup Permutations(Handler)
              \cup Permutations(Url)
=============================================================================
