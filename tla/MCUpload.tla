------------------------------ MODULE MCUpload -------------------------------
(* Small instances of Upload.                                              *)
EXTENDS Upload, TLC

CONSTANTS u1, x1, x2, p1, s1, s2, w1, w2

(* One account; sessions of one chunk, or of two.                          *)
OneOwner  == [i \in File \cup Session |-> u1]
OneChunk  == [s \in Session |-> 1]
TwoChunks == [s \in Session |-> 2]

Requests == Permutations(Worker)
Ids      == Permutations(Worker) \cup Permutations(Session) \cup Permutations(File \ Service)
=============================================================================
