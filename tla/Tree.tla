-------------------------------- MODULE Tree --------------------------------
(***************************************************************************)
(* What the library promises of its tree, one step per operation: rows     *)
(* with a parent, live or in the trash.  Names, stamps and the requests    *)
(* between two of their steps are left to Library, which implements this   *)
(* module; Shares and Links are composed with it.                          *)
(***************************************************************************)
EXTENDS FiniteSets

CONSTANTS
    Folder,   \* folder ids
    File,     \* file ids
    User,     \* account ids
    Owner,    \* owner_id of each id
    Root      \* the NULL parent

Node == Folder \cup File

VARIABLES
    rows,     \* the ids that have a row
    ids,      \* the ids ever generated
    parent,   \* parent_id / folder_id
    trashed   \* the rows whose deleted_at is set

tree == <<rows, ids, parent, trashed>>

TreeType ==
    /\ rows \subseteq ids
    /\ ids \subseteq Node
    /\ parent \in [Node -> Folder \cup {Root}]
    /\ trashed \subseteq rows

TreeInit ==
    /\ rows = {}
    /\ ids = {}
    /\ parent = [n \in Node |-> Root]
    /\ trashed = {}

(* A tree of live rows, as insertions alone can leave it.                  *)
Grown ==
    /\ rows = Node /\ ids = Node /\ trashed = {}
    /\ parent \in [Node -> Folder \cup {Root}]
    /\ \A n \in Node : parent[n] # Root => Owner[parent[n]] = Owner[n]
    /\ \A S \in SUBSET Folder \ {{}} : \E f \in S : parent[f] \notin S

Live(n) == n \in rows \ trashed

(* The rows at and under n: the folders that are in every set holding n    *)
(* and each folder whose parent it holds, then the files inside them.      *)
Sub(n) ==
    LET folders == rows \cap Folder
        closed  == {S \in SUBSET folders :
                      \A f \in folders : f = n \/ parent[f] \in S => f \in S}
        inside  == {f \in folders : \A S \in closed : f \in S}
    IN inside \cup {x \in rows \cap File : x = n \/ parent[x] \in inside}

LiveParent(p, u) == p = Root \/ (p \in Folder /\ Live(p) /\ Owner[p] = u)

(* create_folder, insert_file and finish_upload.                           *)
Insert(n, p) ==
    /\ n \notin ids
    /\ LiveParent(p, Owner[n])
    /\ ids' = ids \cup {n}
    /\ rows' = rows \cup {n}
    /\ parent' = [parent EXCEPT ![n] = p]
    /\ UNCHANGED trashed

(* move_folder, move_file: never into itself or below.                     *)
Move(n, p) ==
    /\ Live(n)
    /\ LiveParent(p, Owner[n])
    /\ p \notin Sub(n)
    /\ parent' = [parent EXCEPT ![n] = p]
    /\ UNCHANGED <<rows, ids, trashed>>

(* delete_folder, delete_file: the row and all that is under it.           *)
Trash(n) ==
    /\ Live(n)
    /\ trashed' = trashed \cup Sub(n)
    /\ UNCHANGED <<rows, ids, parent>>

(* restore_folder, restore_file: the row, out of no trashed folder, with a *)
(* part of the trash under it that hangs together.                         *)
Restore(n, S) ==
    /\ parent[n] \notin trashed
    /\ S \subseteq trashed \cap Sub(n)
    /\ \A m \in S \ {n} : parent[m] \in S
    /\ trashed' = trashed \ S
    /\ UNCHANGED <<rows, ids, parent>>

(* The purges: any trash that leaves nothing behind under it.              *)
Purge(D) ==
    /\ D \subseteq trashed
    /\ \A n \in rows \ D : parent[n] \notin D
    /\ rows' = rows \ D
    /\ trashed' = trashed \ D
    /\ parent' = [n \in Node |-> IF n \in D THEN Root ELSE parent[n]]
    /\ UNCHANGED ids

(* delete_service_file: a file goes outright, in the trash or not.         *)
Erase(x) ==
    /\ x \in rows
    /\ rows' = rows \ {x}
    /\ trashed' = trashed \ {x}
    /\ parent' = [parent EXCEPT ![x] = Root]
    /\ UNCHANGED ids

TreeNext ==
    \/ \E n \in Node, p \in Folder \cup {Root} : Insert(n, p) \/ Move(n, p)
    \/ \E n \in rows : Trash(n)
    \/ \E S \in SUBSET trashed : Purge(S) \/ \E n \in S : Restore(n, S)
=============================================================================
