------------------------------ MODULE MCSignIn ------------------------------
(* A small instance of SignIn.  Captchas and codes bound the sign-ins.      *)
EXTENDS SignIn, TLC

CONSTANTS k1, k2, c1, c2, p1, p2, q1, q2

TwoCaptchas == {k1, k2}
TwoCodes == {c1, c2}
TwoPasswords == {p1, p2}
TwoRequests == {q1, q2}
Interchangeable == Permutations(Captchas) \cup Permutations(Codes)
                   \cup Permutations(Passwords) \cup Permutations(Requests)
=============================================================================
