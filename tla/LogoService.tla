----------------------------- MODULE LogoService -----------------------------
(***************************************************************************)
(* What a LogoClass object promises the API: it keeps the orders it        *)
(* accepts in a queue, and the card it is connected to carries them out in *)
(* the order of their acceptance, each at most once, each light taking the *)
(* value ordered for it and no other.  A card may refuse an order in part, *)
(* orders may be lost with a connection, and other clients of the card set *)
(* its lights too.                                                         *)
(***************************************************************************)
EXTENDS Naturals, Sequences

CONSTANTS
  Cards, NoCard,
  Paths,               \* a card has one group of lights per path
  Data                 \* what a group of lights may show

VARIABLES
  at,                  \* the card, NoCard while there is none
  lights,              \* what its groups of lights show
  pending              \* the orders accepted: some paths to their data

Orders == UNION {[S -> Data] : S \in SUBSET Paths}

Init == at = NoCard /\ lights = <<>> /\ pending = <<>>

Accept ==
  /\ \E o \in Orders : pending' = Append(pending, o)
  /\ UNCHANGED <<at, lights>>

\* The card takes the values of the paths in S and refuses the others.
CarryOut(S) ==
  /\ at # NoCard /\ pending # <<>> /\ S \subseteq DOMAIN Head(pending)
  /\ pending' = Tail(pending) /\ UNCHANGED at
  /\ lights' = [p \in Paths |-> IF p \in S THEN Head(pending)[p] ELSE lights[p]]

SomebodyElse(p, d) ==
  at # NoCard /\ lights' = [lights EXCEPT ![p] = d] /\ UNCHANGED <<at, pending>>

\* Orders in a row are lost; the others stay in order.
LosesOrders ==
  \E i \in 0..Len(pending), j \in 1..(Len(pending) + 1) :
    i < j /\ pending' = SubSeq(pending, 1, i) \o SubSeq(pending, j, Len(pending))

Loses == LosesOrders /\ UNCHANGED <<at, lights>>

\* Orders accepted before a connection are kept by Attach: they are new enough.
Attach(c) ==
  /\ at = NoCard /\ at' = c
  /\ lights' \in [Paths -> Data]
  /\ UNCHANGED pending

Detach == at # NoCard /\ at' = NoCard /\ lights' = <<>> /\ LosesOrders

Changes == pending' # pending \/ lights' # lights \/ at' # at

Next ==
  /\ Changes                \* the steps that change nothing are stuttering
  /\ \/ Accept \/ Loses \/ Detach
     \/ \E S \in SUBSET Paths : CarryOut(S)
     \/ \E p \in Paths, d \in Data : SomebodyElse(p, d)
     \/ \E c \in Cards : Attach(c)

Spec == Init /\ [][Next]_<<at, lights, pending>>

=============================================================================
