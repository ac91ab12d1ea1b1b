------------------------------- MODULE LoggerMC -------------------------------
(* Instances of Logger: threads as model values, the bounds in the .cfg files. *)
EXTENDS Logger
=============================================================================
