------------------------------ MODULE MCLinks ------------------------------
(* A small instance of Links: two folders and a file of one user, who      *)
(* offers the first folder and all in it for ever, or the file to look at  *)
(* for a while and behind a password; two links, so that one can replace   *)
(* the other.                                                              *)
EXTENDS Links, TLC

CONSTANTS f1, f2, x1, u1, l1, l2, d1, v1

OneOwner == [n \in Node |-> u1]

Offers == {[target |-> f1, download |-> TRUE, locked |-> FALSE, expiry |-> "never"],
           [target |-> x1, download |-> FALSE, locked |-> TRUE, expiry |-> "ahead"]}

(* The links are interchangeable.                                          *)
Links2 == Permutations(Link)
=============================================================================
