------------------------------ MODULE PlayOutMC ------------------------------
(* Instances of PlayOut.                                                      *)
EXTENDS PlayOut
=============================================================================
