----------------------------- MODULE MCLibrary -----------------------------
(* Small instances of Library.                                             *)
EXTENDS Library, TLC

CONSTANTS w1, w2, f1, f2, f3, x1, x2, u1, u2, a, h

(* Everything belongs to one user, or the file to a second one.            *)
OneOwner  == [n \in Node |-> u1]
TwoOwners == [n \in Node |-> IF n \in File THEN u2 ELSE u1]

(* The second file is a service's.                                         *)
Handles == [x \in File |-> IF x = x2 THEN h ELSE Null]

(* Requests ask for one name; a move asks for the name the row wears, with *)
(* the postfixes it took before.                                           *)
OneName == {<<a>>}

(* Requests are interchangeable, and so are the ids of one user.           *)
Requests == Permutations(Worker)
Ids      == Permutations(Worker) \cup Permutations(Folder)
=============================================================================
