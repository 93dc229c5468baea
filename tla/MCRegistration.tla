--------------------------- MODULE MCRegistration ---------------------------
(* Registration with interchangeable clients.                              *)
EXTENDS Registration, TLC

ClientSymmetry == Permutations(Client)
=============================================================================
