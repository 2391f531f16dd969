------------------------------ MODULE MCAuthTabs ------------------------------
(* AuthTabs for TLC: the tabs and the people are model values. *)
EXTENDS AuthTabs

CONSTANTS t1, t2, ana
=============================================================================
