------------------------------ MODULE MCSignIn ------------------------------
(* One browser with two tabs.                                              *)
EXTENDS SignIn, TLC

CONSTANTS t1, t2
Tabs == Permutations(Tab)
=============================================================================
