------------------------------ MODULE MCSignIn ------------------------------
(***************************************************************************)
(* Names for an instance of SignIn, and the mixes of requests it meets.    *)
(***************************************************************************)
EXTENDS SignIn

CONSTANTS w1, w2, b1, b2

Mixes == {{"guess", "login"}, {"login", "revoke"},
          {"login", "enroll", "confirm", "verify"},
          {"login", "enroll", "confirm", "disable"}}
=============================================================================
