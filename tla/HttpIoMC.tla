------------------------------- MODULE HttpIoMC -------------------------------
(* Instances of HttpIo for TLC: contexts as model values.                    *)
EXTENDS HttpIo

CONSTANTS q1, q2, q3, r1, r2, r3

=============================================================================
