------------------------------ MODULE MCSignIn ------------------------------
(* Model checking of SignIn: threads, captchas and passwords are each      *)
(* interchangeable, and only safety is checked.                            *)
EXTENDS SignIn, TLC

MCSymmetry == Permutations(Threads) \cup Permutations(Codes) \cup Permutations(Passwords)
=============================================================================
