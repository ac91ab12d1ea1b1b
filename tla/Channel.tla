------------------------------- MODULE Channel -------------------------------
(***************************************************************************)
(* One direction of a connection, as LogoClass and a card rely on it: what *)
(* comes out is what was put in, whole, once and in order.  Nothing is     *)
(* promised about how much comes out before the connection ends.           *)
(***************************************************************************)
EXTENDS Naturals, Sequences

CONSTANT Messages      \* what may be put in

VARIABLES
  sent,                \* what was put in
  got                  \* what came out

Init == sent = <<>> /\ got = <<>>

Send(m) == sent' = Append(sent, m) /\ UNCHANGED got

Deliver ==
  /\ \E n \in (Len(got) + 1)..Len(sent) : got' = SubSeq(sent, 1, n)
  /\ UNCHANGED sent

Next == Deliver \/ \E m \in Messages : Send(m)

Spec == Init /\ [][Next]_<<sent, got>>

=============================================================================
