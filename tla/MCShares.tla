------------------------------ MODULE MCShares ------------------------------
(* A small instance of Shares: two folders and a file of one user, whom a  *)
(* second user asks for them.  Folders are shared either way, the file is  *)
(* shared to be seen.                                                      *)
EXTENDS Shares, TLC

CONSTANTS f1, f2, x1, u1, u2, r1

OneOwner == [n \in Node |-> u1]
Offers   == (Folder \X {View, Download}) \cup (File \X {View})

(* The folders are interchangeable.                                        *)
Folders == Permutations(Folder)
=============================================================================
