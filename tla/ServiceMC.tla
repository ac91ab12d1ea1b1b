------------------------------ MODULE ServiceMC ------------------------------
(* Instances of Service.                                                      *)
EXTENDS Service
=============================================================================
