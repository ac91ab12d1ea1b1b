----------------------------- MODULE LogoBoardMC -----------------------------
(* Instances of LogoBoard: c2's lower object id is c1's higher one, so ids     *)
(* remembered from one card can name a path of the other.                      *)
EXTENDS LogoBoard, TLC

CONSTANTS c1, c2

FirstIds == (c1 :> 1) @@ (c2 :> 2)
SecondIds == (c1 :> 2) @@ (c2 :> 3)
OneFirst == c1 :> 1
OneSecond == c1 :> 2
=============================================================================
