------------------------------- MODULE MCUsers ------------------------------
(* The instances of Users that TLC checks; the configurations give the      *)
(* constants.                                                               *)
EXTENDS Users
=============================================================================
