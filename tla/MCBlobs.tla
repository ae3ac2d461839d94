------------------------------- MODULE MCBlobs -------------------------------
(* Small instances of Blobs.                                               *)
EXTENDS Blobs, TLC

CONSTANTS w1, w2, x1, x2, s1

(* A local tree whose database may be replaced by an older copy, and a     *)
(* bucket whose requests may fail.                                         *)
TreeAndBucket == {[remote |-> FALSE, fails |-> FALSE, restores |-> TRUE],
                  [remote |-> TRUE,  fails |-> TRUE,  restores |-> FALSE]}

Requests == Permutations(Worker)
=============================================================================
