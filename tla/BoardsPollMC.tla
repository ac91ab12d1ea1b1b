---------------------------- MODULE BoardsPollMC -----------------------------
(* The instances of BoardsPoll are given by the numbers of the .cfg files.     *)
EXTENDS BoardsPoll
=============================================================================
