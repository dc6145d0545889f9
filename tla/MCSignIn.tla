------------------------------- MODULE MCSignIn -------------------------------
(* Workers are interchangeable.                                             *)
EXTENDS SignIn, TLC

Alike == Permutations(Workers)
==============================================================================
