------------------------------ MODULE AtemLinkMC ------------------------------
(* Instances of AtemLink: inputs as model values.                              *)
EXTENDS AtemLink
=============================================================================
