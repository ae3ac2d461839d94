------------------------------ MODULE MCLive ------------------------------
(* One tab, of the admin, and another member.                              *)
EXTENDS Live

CONSTANTS u, a, t1, w1
OwnerOfTab == [tab \in {t1} |-> a]
=============================================================================
