---------------------------- MODULE MCIdentity ----------------------------
(* Two people whom im calls an administrator or disabled.                  *)
EXTENDS Identity

CONSTANTS s1, s2, f, g

MCWords == { [face |-> f, admin |-> TRUE, disabled |-> FALSE],
             [face |-> g, admin |-> FALSE, disabled |-> TRUE] }
=============================================================================
