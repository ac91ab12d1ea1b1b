------------------------------- MODULE EasyWsMC -------------------------------
(* Instances of EasyWs: the bounds are in the .cfg file.                       *)
EXTENDS EasyWs
=============================================================================
