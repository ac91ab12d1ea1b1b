---------------------------- MODULE CommandSender ----------------------------
(***************************************************************************)
(* What the play-out plugin promises its host: the commands are taken up   *)
(* in the order they were given, each at most once and one at a time; one  *)
(* may be dropped instead, and none is taken up, or still under way, once  *)
(* the plugin has finished.                                                *)
(***************************************************************************)
EXTENDS Naturals, Sequences

CONSTANT MaxCommands     \* bound: commands

ASSUME CommandsAssumption == MaxCommands \in Nat

VARIABLES
  given,                 \* how many there were
  waiting,               \* those not taken up
  sending,               \* the one taken up, 0 without one
  ended                  \* Done or Release has returned

senderVars == <<given, waiting, sending, ended>>

SenderInit == given = 0 /\ waiting = <<>> /\ sending = 0 /\ ended = FALSE

Give ==
  /\ given < MaxCommands /\ given' = given + 1
  /\ waiting' = Append(waiting, given')
  /\ UNCHANGED <<sending, ended>>

Free == ~ended /\ sending = 0 /\ waiting # <<>>

TakeUp ==
  /\ Free /\ sending' = Head(waiting) /\ waiting' = Tail(waiting)
  /\ UNCHANGED <<given, ended>>

Drop == Free /\ waiting' = Tail(waiting) /\ UNCHANGED <<given, sending, ended>>

Sent == sending # 0 /\ sending' = 0 /\ UNCHANGED <<given, waiting, ended>>

End == ~ended /\ sending = 0 /\ ended' = TRUE /\ UNCHANGED <<given, waiting, sending>>

SenderNext == Give \/ TakeUp \/ Drop \/ Sent \/ End

SenderSpec == SenderInit /\ [][SenderNext]_senderVars

=============================================================================
