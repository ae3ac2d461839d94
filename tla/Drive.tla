-------------------------------- MODULE Drive --------------------------------
(* What the store promises to whoever lists and opens files: a file is     *)
(* there whole, row, bytes and thumbnail, from the moment it is accepted   *)
(* until the moment it is purged.  (The ordering contract of               *)
(* in-core/src/store/blobs.rs: a row pointing at nothing is a lie the UI   *)
(* can see.)                                                               *)
CONSTANT File

VARIABLES
    says,  \* what the rows name: files/<id>, and thumbs/<id> when ready
    has    \* what of it can be served

vars == <<says, has>>

Parts(x) == {"files", "thumbs"} \X {x}

Init == says = {} /\ has = {}

Accept(x) ==
    \E parts \in {{<<"files", x>>}, Parts(x)} :
        /\ Parts(x) \cap says = {}
        /\ says' = says \cup parts
        /\ has' = has \cup parts

Purge(x) ==
    /\ says' = says \ Parts(x)
    /\ has' = has \ Parts(x)

Next == \E x \in File : Accept(x) \/ Purge(x)

Spec == Init /\ [][Next]_vars
=============================================================================
