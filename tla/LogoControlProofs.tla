---------------------------- MODULE LogoControlProofs ----------------------------
(***************************************************************************)
(* Proofs about the program LogoControl: what becomes of the orders it is  *)
(* given (PlayOut), for any boards, cards, logos, commands and troubles,   *)
(* and its shell (Service), for any number of starts and faults.           *)
(***************************************************************************)
EXTENDS PlayOut, Service, SequenceTheorems, TLAPS

-----------------------------------------------------------------------------
(* The list of boards.                                                     *)

\* GetBoards names logo l for the vectors of an order for l, and for no others.
LEMMA ActiveLogoOf ==
  ASSUME NEW p1, NEW p2, NEW l \in 0..2
  PROVE  ActiveLogo(p1, p2) = l <=> p1 = Hot(l) /\ p2 = Hot(Second(l))
<1>0. /\ \A v \in SUBSET (1..4), n \in 1..4 : v = {n} <=> \A k \in 1..4 : k \in v <=> k = n
      /\ \A v \in SUBSET (1..4) : v = {} <=> \A k \in 1..4 : k \notin v
  OBVIOUS
<1>1. 1..4 = {1, 2, 3, 4}
  OBVIOUS
<1>2. CASE ~(p1 \in SUBSET (1..4) /\ p2 \in SUBSET (1..4))
  <2>1. Hot(l) \in SUBSET (1..4) /\ Hot(Second(l)) \in SUBSET (1..4)
    BY DEF Hot, Second
  <2>2. ActiveLogo(p1, p2) = NoLogo
    BY <1>2 DEF ActiveLogo
  <2> QED BY <1>2, <2>1, <2>2 DEF NoLogo
<1>3. ASSUME p1 \in SUBSET (1..4), p2 \in SUBSET (1..4)
      PROVE  ActiveLogo(p1, p2) = l <=> p1 = Hot(l) /\ p2 = Hot(Second(l))
  <2>1. CASE l = 0
    <3>1. Hot(l) = {} /\ Hot(Second(l)) = {}
      BY <2>1 DEF Hot, Second
    <3> QED BY <1>0, <1>1, <1>3, <2>1, <3>1 DEF ActiveLogo, Invalid, NoLogo
  <2>2. CASE l = 1
    <3>1. Hot(l) = {1} /\ Hot(Second(l)) = {3}
      BY <2>2 DEF Hot, Second
    <3> QED BY <1>0, <1>1, <1>3, <2>2, <3>1 DEF ActiveLogo, Invalid, NoLogo
  <2>3. CASE l = 2
    <3>1. Hot(l) = {2} /\ Hot(Second(l)) = {4}
      BY <2>3 DEF Hot, Second
    <3> QED BY <1>0, <1>1, <1>3, <2>3, <3>1 DEF ActiveLogo, Invalid, NoLogo
  <2> QED BY <2>1, <2>2, <2>3
<1> QED BY <1>2, <1>3

\* With the second vector of an order for l, it names l or nothing.
LEMMA HalfOfOrder ==
  ASSUME NEW p1, NEW l \in 0..2
  PROVE  /\ ActiveLogo(p1, Hot(Second(l))) \in {l, NoLogo}
         /\ p1 = Hot(l) => ActiveLogo(p1, Hot(Second(l))) = l
<1>1. \A k \in 0..2 : ActiveLogo(p1, Hot(Second(l))) = k <=>
                        p1 = Hot(k) /\ Hot(Second(l)) = Hot(Second(k))
  BY ActiveLogoOf
<1>2. ActiveLogo(p1, Hot(Second(l))) \in {0, 1, 2, NoLogo}
  BY DEF ActiveLogo
<1>3. \A k \in 0..2 : Hot(Second(l)) = Hot(Second(k)) => l = k
  BY DEF Hot, Second
<1> QED BY <1>1, <1>2, <1>3

-----------------------------------------------------------------------------
(* The commands and the requests.                                          *)

\* How many commands were taken up or dropped.
Taken == given - Len(waiting)

\* The commands that wait are the last ones, in order; the one taken up is the
\* latest before them.
InOrder ==
  /\ given \in 0..MaxCommands /\ waiting \in Seq(Nat) /\ Len(waiting) <= given
  /\ \A i \in 1..Len(waiting) : waiting[i] = Taken + i
  /\ sending \in Nat /\ ended \in BOOLEAN
  /\ sending # 0 => sending = Taken /\ ~ended
  /\ asked \in Seq(Nat) /\ Len(asked) = given

\* The request SetLogoAPI has in hand, and all that are not answered.
InHand == IF doing \in {"look", "push"} THEN {order} ELSE {}
Open == atServer \cup InHand

\* A request of the plugin that is not answered is that of the command taken up, or
\* timed out.
Accounted ==
  /\ http \in {"none", "sent", "answered"} /\ (http # "none" => sending # 0)
  /\ presses \in Nat
  /\ late \subseteq 1..Taken /\ (sending # 0 => sending \notin late)
  /\ \A r \in Open : r.by \in Nat /\ r.logo \in Nat
  /\ \A r \in Open : IsPlugins(r) => r.by \in late \/ (r.by = sending /\ http = "sent")
  /\ \A r, s \in Open : r.by = sending /\ s.by = sending /\ IsPlugins(r) => r = s
  /\ \A r \in InHand : IsPlugins(r) => r \notin atServer

\* No command taken up later was accepted before.
NewestKnown ==
  /\ newest \in 0..Taken
  /\ sending # 0 /\ http # "answered" => newest < sending

PInv == InOrder /\ Accounted /\ NewestKnown

LEMMA InitPInv == PlayInit => PInv
<1> SUFFICES ASSUME PlayInit PROVE PInv
  OBVIOUS
<1>0. /\ waiting \in Seq(Nat) /\ Len(waiting) = 0
      /\ asked \in Seq(Nat) /\ Len(asked) = 0
  BY DEF PlayInit, SenderInit
<1>1. /\ given = 0 /\ sending = 0 /\ ended = FALSE
      /\ http = "none" /\ Open = {} /\ InHand = {} /\ presses = 0 /\ late = {} /\ newest = 0
  BY DEF PlayInit, SenderInit, Open, InHand
<1>2. given \in 0..MaxCommands /\ Taken = 0
  BY <1>0, <1>1, CommandsAssumption DEF Taken
<1>3. InOrder
  <2>1. ended \in BOOLEAN /\ given = 0 /\ sending = 0
    BY <1>1
  <2> QED BY <1>0, <1>2, <2>1 DEF InOrder
<1>4. Accounted /\ NewestKnown
  BY <1>1, <1>2 DEF Accounted, NewestKnown
<1> QED BY <1>3, <1>4 DEF PInv

\* The part of the state PInv is about.
plugged == <<senderVars, requestVars, newest, InHand>>

LEMMA PluginKeeps == PInv /\ PluginStep => PInv'
<1> SUFFICES ASSUME PInv, PluginStep PROVE PInv'
  OBVIOUS
<1> USE DEF PInv, requestVars, historyVars, BeforeServer
<1>1. CASE TakeUp \/ Drop
  <2>1. /\ sending = 0 /\ ~ended /\ waiting # <<>> /\ waiting' = Tail(waiting)
        /\ sending' = Head(waiting) \/ sending' = 0
        /\ UNCHANGED <<given, ended, requestVars, newest, InHand, Open>>
    BY <1>1 DEF PluginStep, TakeUp, Drop, Free, lockVars, InHand, Open
  <2>2. /\ Len(waiting) \in Nat \ {0} /\ Len(waiting') = Len(waiting) - 1
        /\ waiting' \in Seq(Nat) /\ Head(waiting) = waiting[1]
        /\ \A i \in 1..Len(waiting') : i + 1 \in 1..Len(waiting) /\ waiting'[i] = waiting[i + 1]
    BY <2>1 DEF InOrder
  <2>3. Taken \in Nat /\ Taken' = Taken + 1 /\ Head(waiting) = Taken + 1
    BY <2>1, <2>2 DEF InOrder, Taken
  <2>4. InOrder'
    <3>1. \A i \in 1..Len(waiting') : waiting'[i] = Taken' + i
      BY <2>2, <2>3 DEF InOrder
    <3> QED BY <2>1, <2>2, <2>3, <3>1 DEF InOrder
  <2>5. late \subseteq 1..Taken' /\ Taken + 1 \notin late
    BY <2>3 DEF Accounted
  <2>6. Accounted'
    BY <2>1, <2>3, <2>5 DEF Accounted, IsPlugins
  <2>7. NewestKnown'
    BY <2>1, <2>3 DEF NewestKnown, Accounted
  <2> QED BY <2>4, <2>6, <2>7
<1>2. CASE End
  <2>1. /\ UNCHANGED <<given, waiting, requestVars, newest, InHand, Open>> /\ sending = 0
        /\ sending' = 0 /\ ended' = TRUE
    BY <1>2 DEF PluginStep, End, lockVars, InHand, Open
  <2> QED BY <2>1 DEF InOrder, Accounted, NewestKnown, Taken, IsPlugins
<1> QED BY <1>1, <1>2 DEF PluginStep

LEMMA RequestsKeep ==
  ASSUME PInv,
         \/ \E l \in Logos : PluginExecute(l)
         \/ \E c \in Targets : PluginAsks(c)
         \/ PluginAnswered \/ PluginGivesUp
         \/ \E l \in Buttons : PageAsks(l)
  PROVE  PInv'
<1> USE DEF PInv, historyVars, BeforeServer
<1>1. ASSUME NEW l \in Logos, PluginExecute(l) PROVE PInv'
  <2>1. /\ given' = given + 1 /\ given < MaxCommands /\ waiting' = Append(waiting, given + 1)
        /\ asked' = Append(asked, l) /\ l \in Nat
        /\ UNCHANGED <<sending, ended, http, presses, late, newest, Open, InHand, atServer>>
    BY <1>1, PlayOutAssumption DEF PluginExecute, Give, Open, InHand, lockVars
  <2>2. /\ Len(waiting) \in Nat /\ Len(waiting') = Len(waiting) + 1 /\ waiting' \in Seq(Nat)
        /\ \A i \in 1..Len(waiting) : waiting'[i] = waiting[i]
        /\ waiting'[Len(waiting) + 1] = given + 1
        /\ asked' \in Seq(Nat) /\ Len(asked') = given + 1
        /\ given \in Nat /\ given <= MaxCommands
    BY <2>1, CommandsAssumption DEF InOrder
  <2>3. Taken' = Taken /\ Taken \in Nat
    BY <2>1, <2>2 DEF Taken, InOrder
  <2>4. InOrder'
    <3>1. \A i \in 1..Len(waiting') : waiting'[i] = Taken' + i
      <4> SUFFICES ASSUME NEW i \in 1..Len(waiting') PROVE waiting'[i] = Taken' + i
        OBVIOUS
      <4>1. CASE i \in 1..Len(waiting)
        BY <2>2, <2>3, <4>1 DEF InOrder
      <4>2. CASE i = Len(waiting) + 1
        BY <2>2, <2>3, <4>2 DEF Taken
      <4> QED BY <2>2, <4>1, <4>2
    <3>2. given' \in 0..MaxCommands /\ Len(waiting') <= given'
      BY <2>1, <2>2, CommandsAssumption DEF InOrder
    <3> QED BY <2>1, <2>2, <2>3, <3>1, <3>2 DEF InOrder
  <2>5. Accounted' /\ NewestKnown'
    BY <2>1, <2>3 DEF Accounted, NewestKnown, IsPlugins
  <2> QED BY <2>4, <2>5
<1>2. ASSUME NEW c \in Targets, PluginAsks(c) PROVE PInv'
  <2> DEFINE q == [by |-> sending, to |-> c, logo |-> asked[sending]]
  <2>1. /\ sending # 0 /\ http = "none" /\ http' = "sent"
        /\ atServer' = atServer \cup {q} /\ Open' = Open \cup {q}
        /\ UNCHANGED <<senderVars, asked, presses, late, newest, InHand>>
    BY <1>2 DEF PluginAsks, Open, InHand, lockVars
  <2>2. UNCHANGED <<given, waiting, sending, ended>> /\ Taken' = Taken
    BY <2>1 DEF senderVars, Taken
  <2>3. q.by = sending /\ q.logo \in Nat /\ sending \in Nat
    BY <2>1 DEF InOrder, Taken
  <2> HIDE DEF q
  <2>4. \A r \in Open : IsPlugins(r) => r.by # sending
    BY <2>1 DEF Accounted
  <2>5. IsPlugins(q)
    BY <2>1, <2>3, CommandsAssumption DEF InOrder, Taken, IsPlugins
  <2>6. \A r \in Open' : r \in Open \/ r = q
    BY <2>1
  <2>7. \A r \in Open' : r.by \in Nat /\ r.logo \in Nat
    BY <2>3, <2>6 DEF Accounted
  <2>8. \A r \in Open' : IsPlugins(r) => r.by \in late \/ (r.by = sending /\ http' = "sent")
    BY <2>1, <2>3, <2>6 DEF Accounted
  <2>9. \A r, s \in Open' : r.by = sending /\ s.by = sending /\ IsPlugins(r) => r = s
    BY <2>4, <2>5, <2>3, <2>6 DEF IsPlugins
  <2>10. \A r \in InHand : IsPlugins(r) => r \notin atServer'
    <3>1. \A r \in InHand : IsPlugins(r) => r \notin atServer /\ r.by # sending
      BY <2>4 DEF Accounted, Open
    <3> QED BY <2>1, <2>3, <3>1
  <2>11. Accounted'
    BY <2>1, <2>2, <2>7, <2>8, <2>9, <2>10 DEF Accounted, IsPlugins
  <2> QED BY <2>1, <2>2, <2>11 DEF InOrder, NewestKnown, Taken
<1>3. CASE PluginAnswered
  <2>1. /\ http = "answered" /\ http' = "none" /\ sending' = 0
        /\ UNCHANGED <<given, waiting, ended, asked, presses, late, newest, Open, InHand, atServer>>
    BY <1>3 DEF PluginAnswered, Sent, Open, InHand, lockVars
  <2> QED BY <2>1 DEF InOrder, Accounted, NewestKnown, Taken, IsPlugins
<1>4. CASE PluginGivesUp
  <2>1. /\ sending # 0 /\ http # "answered" /\ http' = "none" /\ sending' = 0
        /\ late' = IF http = "sent" THEN late \cup {sending} ELSE late
        /\ UNCHANGED <<given, waiting, ended, asked, presses, newest, Open, InHand, atServer>>
    BY <1>4 DEF PluginGivesUp, Sent, Open, InHand, lockVars
  <2>2. Taken' = Taken /\ sending = Taken /\ Taken \in Nat
    BY <2>1 DEF InOrder, Taken
  <2>3. InOrder' /\ NewestKnown'
    BY <2>1, <2>2 DEF InOrder, NewestKnown
  <2>4. late' \subseteq 1..Taken'
    BY <2>1, <2>2 DEF Accounted
  <2>5. Accounted'
    BY <2>1, <2>2, <2>4 DEF Accounted, IsPlugins
  <2> QED BY <2>3, <2>5
<1>5. ASSUME NEW l \in Buttons, PageAsks(l) PROVE PInv'
  <2>1. PICK b \in Boards :
          /\ presses' = presses + 1
          /\ atServer' = atServer \cup
                            {[by |-> MaxCommands + presses', to |-> id[b], logo |-> l]}
          /\ UNCHANGED <<senderVars, asked, http, late, newest, InHand>>
    BY <1>5 DEF PageAsks, InHand, lockVars
  <2> DEFINE q == [by |-> MaxCommands + presses', to |-> id[b], logo |-> l]
  <2>2. /\ q.by = MaxCommands + presses' /\ q.logo = l
        /\ atServer' = atServer \cup {q} /\ Open' = Open \cup {q}
        /\ UNCHANGED <<given, waiting, sending, ended>> /\ Taken' = Taken
    BY <2>1 DEF senderVars, Taken, Open
  <2> HIDE DEF q
  <2>0. l \in Nat
    BY PlayOutAssumption
  <2>3. q.by \in Nat /\ q.logo \in Nat /\ ~IsPlugins(q) /\ presses' \in Nat
    BY <2>0, <2>1, <2>2, CommandsAssumption DEF IsPlugins, Accounted
  <2>4. sending <= MaxCommands
    BY CommandsAssumption DEF InOrder, Taken
  <2>5. Accounted'
    BY <2>1, <2>2, <2>3, <2>4 DEF Accounted, IsPlugins
  <2> QED BY <2>1, <2>2, <2>5 DEF InOrder, NewestKnown, Taken
<1> QED BY <1>1, <1>2, <1>3, <1>4, <1>5

\* A request is answered, and the history told of it at most.
LEMMA AnsweredKeeps ==
  ASSUME PInv, NEW r \in Open, Answers(r),
         Open' \subseteq Open, InHand' \subseteq InHand, atServer' \subseteq atServer,
         IsPlugins(r) => r \notin Open',
         newest' = newest \/ (IsPlugins(r) /\ newest' = r.by),
         UNCHANGED <<senderVars, asked, presses, late>>
  PROVE  PInv'
<1> USE DEF PInv
<1>1. /\ http' = IF http = "sent" /\ r.by = sending THEN "answered" ELSE http
      /\ UNCHANGED <<given, waiting, sending, ended, asked, presses, late>>
  BY DEF Answers, senderVars
<1>2. Taken' = Taken /\ Taken \in Nat
  BY <1>1 DEF InOrder, Taken
<1>3. InOrder'
  BY <1>1, <1>2 DEF InOrder
<1>5. \A s \in Open' : IsPlugins(s) => s.by \in late \/ (s.by = sending /\ http' = "sent")
  <2> SUFFICES ASSUME NEW s \in Open', IsPlugins(s), s.by \notin late
               PROVE  s.by = sending /\ http' = "sent"
    OBVIOUS
  <2>1. s \in Open /\ s.by = sending /\ http = "sent"
    BY DEF Accounted
  <2>2. r.by # sending
    <3> SUFFICES ASSUME r.by = sending PROVE FALSE
      OBVIOUS
    <3>1. r = s
      BY <2>1 DEF Accounted
    <3> QED BY <3>1
  <2> QED BY <1>1, <2>1, <2>2
<1>6. Accounted'
  <2>1. http' \in {"none", "sent", "answered"} /\ (http' # "none" => sending' # 0)
    BY <1>1 DEF Accounted
  <2>2. \A s \in InHand' : IsPlugins(s) => s \notin atServer'
    BY DEF Accounted
  <2> QED BY <1>1, <1>2, <1>5, <2>1, <2>2 DEF Accounted, IsPlugins
<1>7. NewestKnown'
  <2>2. CASE newest' = newest
    BY <1>1, <1>2, <2>2 DEF NewestKnown
  <2>3. CASE IsPlugins(r) /\ newest' = r.by /\ r.by \in late
    BY <1>1, <1>2, <2>3 DEF NewestKnown, Accounted, InOrder
  <2>4. CASE IsPlugins(r) /\ newest' = r.by /\ r.by = sending /\ http = "sent"
    <3>1. http' = "answered" /\ sending # 0 /\ sending = Taken
      BY <1>1, <2>4 DEF Accounted, InOrder
    <3> QED BY <1>1, <1>2, <2>4, <3>1 DEF NewestKnown
  <2> QED BY <2>2, <2>3, <2>4 DEF Accounted
<1> QED BY <1>3, <1>6, <1>7

LEMMA SetLogoKeeps == PInv /\ SetLogoAPI => PInv'
<1> SUFFICES ASSUME PInv, SetLogoAPI PROVE PInv'
  OBVIOUS
<1> USE DEF Looking, historyVars
<1>1. ASSUME NEW r \in atServer, Refuses(r) PROVE PInv'
  <2>1. atServer' = atServer \ {r} /\ InHand' = InHand /\ Answers(r) /\ newest' = newest
        /\ UNCHANGED <<senderVars, asked, presses, late>>
    BY <1>1 DEF Refuses, InHand
  <2>2. r \in Open /\ Open' \subseteq Open
    BY <2>1 DEF Open
  <2>3. IsPlugins(r) => r \notin Open'
    BY <2>1 DEF Open, PInv, Accounted
  <2> QED BY <2>1, <2>2, <2>3, AnsweredKeeps
<1>2. ASSUME NEW r \in atServer, TakesLock(r) PROVE PInv'
  <2>1. /\ atServer' = atServer \ {r} /\ InHand = {} /\ InHand' = {r} /\ Open' = Open
        /\ UNCHANGED <<senderVars, asked, http, presses, late, newest>>
    BY <1>2 DEF TakesLock, InHand, Open
  <2>2. UNCHANGED <<given, waiting, sending, ended>> /\ Taken' = Taken
    BY <2>1 DEF senderVars, Taken
  <2>3. \A s \in InHand' : s \notin atServer'
    BY <2>1
  <2> QED BY <2>1, <2>2, <2>3 DEF PInv, InOrder, Accounted, NewestKnown, IsPlugins
<1>3. CASE Finds \/ PassesOn
  <2>1. /\ UNCHANGED <<senderVars, asked, http, atServer, presses, late, newest, InHand, Open>>
    BY <1>3 DEF Finds, PassesOn, InHand, Open
  <2>2. UNCHANGED <<given, waiting, sending, ended>> /\ Taken' = Taken
    BY <2>1 DEF senderVars, Taken
  <2> QED BY <2>1, <2>2 DEF PInv, InOrder, Accounted, NewestKnown, IsPlugins
<1>4. CASE NotFound \/ Pushes
  <2>1. /\ InHand = {order} /\ InHand' = {} /\ atServer' = atServer /\ Answers(order)
        /\ newest' = newest \/ (IsPlugins(order) /\ newest' = order.by)
        /\ UNCHANGED <<senderVars, asked, presses, late>>
    BY <1>4 DEF NotFound, Pushes, Releases, InHand
  <2>2. order \in Open /\ Open' \subseteq Open
    BY <2>1 DEF Open
  <2>3. IsPlugins(order) => order \notin Open'
    BY <2>1 DEF Open, PInv, Accounted
  <2> QED BY <2>1, <2>2, <2>3, AnsweredKeeps
<1> QED BY <1>1, <1>2, <1>3, <1>4 DEF SetLogoAPI

LEMMA ListsLeaveRequests == GetBoards => UNCHANGED plugged
  BY DEF GetBoards, ReadsPath1, ReadsPath2, Listed, Reading, plugged, historyVars, InHand

LEMMA BoardsLeaveRequests == BoardSteps \/ OtherClients => UNCHANGED plugged
<1> SUFFICES ASSUME BoardSteps \/ OtherClients PROVE Away
  BY DEF Away, plugged, InHand
<1> QED BY DEF BoardSteps, OtherClients, ClearQueue, ConnectFails, CardLeaves, LosesCard, Connects,
               CardTellsInfo, HandlesInfo, HandlesValues, LosesOrder, Carries, SomebodyElse

LEMMA PStep == PInv /\ [PlayNext]_playVars => PInv'
<1> SUFFICES ASSUME PInv, [PlayNext]_playVars PROVE PInv'
  OBVIOUS
<1>1. CASE UNCHANGED plugged
  <2>1. UNCHANGED <<given, waiting, sending, ended, asked, http, presses, late, newest, atServer,
                    InHand, Open>>
        /\ Taken' = Taken
    BY <1>1 DEF plugged, senderVars, requestVars, Open, Taken
  <2> QED BY <2>1 DEF PInv, InOrder, Accounted, NewestKnown, IsPlugins
<1>2. CASE UNCHANGED playVars
  BY <1>1, <1>2 DEF playVars, plugged, historyVars, lockVars, InHand
<1>3. CASE PluginStep
  BY <1>3, PluginKeeps
<1>4. CASE Requests
  BY <1>4, RequestsKeep DEF Requests
<1>5. CASE SetLogoAPI
  BY <1>5, SetLogoKeeps
<1>6. CASE GetBoards \/ BoardSteps \/ OtherClients
  BY <1>1, <1>6, ListsLeaveRequests, BoardsLeaveRequests
<1> QED BY <1>2, <1>3, <1>4, <1>5, <1>6 DEF PlayNext

\* The plugin's orders are accepted in the order of its commands and none after its
\* end, however the server's threads, the time-outs and the page interleave.
THEOREM InCommandOrderHolds == PlaySpec => InCommandOrder
<1>1. PInv /\ [PlayNext]_playVars =>
        [Pushes /\ IsPlugins(order) =>
           (order.by > newest /\ ~ended) \/ order.by \in late]_playVars
  <2> SUFFICES ASSUME PInv, Pushes, IsPlugins(order), order.by \notin late
               PROVE  order.by > newest /\ ~ended
    OBVIOUS
  <2>1. order \in Open
    BY DEF Pushes, Open, InHand
  <2>2. order.by = sending /\ http = "sent" /\ sending # 0
    BY <2>1 DEF PInv, Accounted
  <2> QED BY <2>2 DEF PInv, InOrder, NewestKnown
<1> QED BY InitPInv, PStep, <1>1, PTL DEF PlaySpec, InCommandOrder


-----------------------------------------------------------------------------
(* The boards, what they are told, and their cards.                        *)

Data == {Hot(n) : n \in 0..4} \cup Vectors

Order == [to : Cards \cup {NoCard}, logo : 0..2, firm : BOOLEAN]

\* A device info tells the values of both paths.
Messages ==
  [from : Cards, info : {"none"}, tells : UNION {[S -> Data] : S \in SUBSET Paths}]
    \cup [from : Cards, info : {"partial", "complete"}, tells : [Paths -> Data]]

BoardTypes ==
  /\ link \in [Boards -> {"away", "trying", "linked", "ready"}]
  /\ at \in [Boards -> Cards \cup {NoCard}] /\ id \in [Boards -> Cards \cup {NoCard}]
  /\ pending \in [Boards -> Seq(Order)] /\ inbox \in [Boards -> Seq(Messages)]
  /\ lights \in [Cards -> [Paths -> Data]]
  /\ shown \in [Boards -> [Paths -> Data \cup {NoData}]]

\* A card answers one board at most.
Apart == \A b, d \in Boards : at[b] = at[d] /\ at[b] # NoCard => b = d

\* A board has a card only while it is connected; a ready one answers for it, and has
\* seen its device info.  What it is told comes from the card it has.
Fine(b) ==
  /\ at[b] # NoCard => link[b] \in {"linked", "ready"}
  /\ link[b] = "ready" => at[b] = NoCard \/ id[b] = at[b]
  /\ link[b] \in {"away", "trying"} => inbox[b] = <<>>
  /\ at[b] # NoCard => \A i \in DOMAIN inbox[b] : inbox[b][i].from = at[b]
  /\ \A i, j \in DOMAIN inbox[b] :
       inbox[b][i].info # "none" /\ inbox[b][j].info # "none" => i = j
  /\ link[b] = "ready" => \A i \in DOMAIN inbox[b] : inbox[b][i].info = "none"

\* Since the queue was cleared nothing firm was ordered of another card.
Cleared(b) ==
  \A i \in DOMAIN pending[b] :
    pending[b][i].firm => /\ link[b] \in {"away", "ready"}
                          /\ link[b] = "ready" => pending[b][i].to = id[b]

\* The order in hand, and the board found for it.
Found ==
  /\ turn \in Boards /\ firm \in BOOLEAN
  /\ doing \in {"look", "push"} => order.logo \in 0..2
  /\ doing = "push" => /\ order.to \in Cards \cup {NoCard}
                       /\ firm => link[turn] = "ready" /\ id[turn] = order.to

BInv == BoardTypes /\ Apart /\ (\A b \in Boards : Fine(b) /\ Cleared(b)) /\ Found

LEMMA DataTypes ==
  /\ Data \subseteq SUBSET (1..4)
  /\ \A l \in 0..2 : Ordered(l) \in [Paths -> Data]
<1>1. \A n \in 0..4 : Hot(n) \in SUBSET (1..4)
  BY DEF Hot
<1>2. \A l \in 0..2 : l \in 0..4 /\ Second(l) \in 0..4
  BY DEF Second
<1> QED BY <1>1, <1>2, PlayOutAssumption DEF Data, Ordered, Paths

LEMMA InitBInv == PlayInit => BInv
<1> SUFFICES ASSUME PlayInit PROVE BInv
  OBVIOUS
<1>1. {} \in Data
  BY DEF Data, Hot
<1>2. /\ link = [b \in Boards |-> "away"] /\ at = [b \in Boards |-> NoCard]
      /\ id = [b \in Boards |-> NoCard]
      /\ shown = [b \in Boards |-> [p \in Paths |-> NoData]]
      /\ lights = [c \in Cards |-> [p \in Paths |-> {}]]
      /\ doing = "nothing" /\ turn = 1 /\ firm = FALSE
  BY DEF PlayInit
<1>3. /\ pending = [b \in Boards |-> <<>>] /\ pending \in [Boards -> Seq(Order)]
      /\ inbox = [b \in Boards |-> <<>>] /\ inbox \in [Boards -> Seq(Messages)]
      /\ \A b \in Boards : DOMAIN pending[b] = {} /\ DOMAIN inbox[b] = {}
  BY DEF PlayInit
<1>4. BoardTypes
  BY <1>1, <1>2, <1>3 DEF BoardTypes
<1>5. 1 \in Boards
  BY PlayOutAssumption DEF Boards
<1>6. Apart /\ Found
  BY <1>2, <1>5 DEF Apart, Found
<1>7. \A b \in Boards : Fine(b) /\ Cleared(b)
  BY <1>2, <1>3 DEF Fine, Cleared
<1> QED BY <1>4, <1>6, <1>7 DEF BInv

\* A board nothing happens to.
boardOf(b) == <<link[b], at[b], id[b], pending[b], inbox[b]>>

LEMMA StaysFine ==
  ASSUME NEW b \in Boards, UNCHANGED <<link[b], at[b], id[b], inbox[b]>>, Fine(b)
  PROVE  Fine(b)'
BY DEF Fine

LEMMA StaysCleared ==
  ASSUME NEW b \in Boards, UNCHANGED <<link[b], id[b], pending[b]>>, Cleared(b)
  PROVE  Cleared(b)'
BY DEF Cleared

\* What one board does is right for all when it is right for this one.
LEMMA OneBoard ==
  ASSUME BInv, NEW b \in Boards, BoardTypes', Apart', Found', Fine(b)', Cleared(b)',
         \A d \in Boards : d # b => UNCHANGED boardOf(d)
  PROVE  BInv'
<1>1. ASSUME NEW d \in Boards, d # b PROVE Fine(d)' /\ Cleared(d)'
  <2>1. Fine(d) /\ Cleared(d) /\ UNCHANGED <<link[d], at[d], id[d], pending[d], inbox[d]>>
    BY <1>1 DEF BInv, boardOf
  <2> QED BY <2>1, StaysFine, StaysCleared
<1> QED BY <1>1 DEF BInv

boardVars == <<linkVars, dataVars>>

\* The steps of SetLogoAPI and GetBoards that leave the boards alone.
LEMMA BoardsSame ==
  ASSUME BInv, UNCHANGED boardVars, Found'
  PROVE  BInv'
<1>1. UNCHANGED <<link, at, id, shown, pending, inbox, lights>>
  BY DEF boardVars, linkVars, dataVars
<1>2. BoardTypes' /\ Apart'
  BY <1>1 DEF BInv, BoardTypes, Apart
<1>3. \A b \in Boards : Fine(b)' /\ Cleared(b)'
  BY <1>1, StaysFine, StaysCleared DEF BInv
<1> QED BY <1>2, <1>3 DEF BInv

LEMMA LooksKeeps ==
  ASSUME PInv, BInv,
         (\E r \in atServer : Refuses(r) \/ TakesLock(r)) \/ Finds \/ PassesOn \/ NotFound
           \/ GetBoards
  PROVE  BInv' /\ UNCHANGED <<boardVars, expected>>
<1> USE DEF Looking, Reading, historyVars
<1>0. UNCHANGED <<boardVars, expected>> /\ UNCHANGED <<link, at, id>>
  BY DEF Refuses, TakesLock, Finds, PassesOn, NotFound, GetBoards, ReadsPath1, ReadsPath2, Listed,
         boardVars, linkVars
<1>1. Found /\ BoardTypes /\ Boards = 1..NBoards /\ NBoards \in Nat \ {0}
  BY PlayOutAssumption DEF BInv, Boards
<1>2. CASE \E r \in atServer : Refuses(r) \/ TakesLock(r)
  <2>1. PICK r \in atServer : Refuses(r) \/ TakesLock(r)
    BY <1>2
  <2>2. r.logo \in Nat
    BY DEF PInv, Accounted, Open
  <2>3. CASE Refuses(r)
    BY <1>0, <1>1, <2>3, BoardsSame DEF Refuses, Found
  <2>4. CASE TakesLock(r)
    <3>1. r.logo \in 0..2
      BY <2>2, <2>4 DEF TakesLock
    <3>2. Found'
      BY <1>1, <2>4, <3>1 DEF TakesLock, Found
    <3> QED BY <1>0, <3>2, BoardsSame
  <2> QED BY <2>1, <2>3, <2>4
<1>3. CASE Finds
  <2>1. order.to \in Cards \cup {NoCard}
    BY <1>1, <1>3 DEF Finds, Found, BoardTypes
  <2>2. Found'
    BY <1>0, <1>1, <1>3, <2>1 DEF Finds, Found
  <2> QED BY <1>0, <2>2, BoardsSame
<1>4. CASE PassesOn
  <2>1. turn' \in Boards
    BY <1>1, <1>4 DEF PassesOn, Found
  <2>2. Found'
    BY <1>1, <1>4, <2>1 DEF PassesOn, Found
  <2> QED BY <1>0, <2>2, BoardsSame
<1>5. CASE NotFound
  <2>0. turn' \in Boards /\ doing' = "nothing" /\ firm' = FALSE
    BY <1>1, <1>5 DEF NotFound, Releases
  <2>1. Found'
    BY <2>0 DEF Found
  <2> QED BY <1>0, <2>1, BoardsSame
<1>6. CASE GetBoards
  <2>1. turn' \in Boards /\ doing' \notin {"look", "push"} /\ firm' = firm
    BY <1>1, <1>6 DEF GetBoards, ReadsPath1, ReadsPath2, Listed, Found
  <2>2. Found'
    BY <1>1, <2>1 DEF Found
  <2> QED BY <1>0, <2>2, BoardsSame
<1> QED BY <1>0, <1>2, <1>3, <1>4, <1>5, <1>6

\* What SetLogoAPI queues.
Pushed == [to |-> order.to, logo |-> order.logo, firm |-> firm]

LEMMA PushedType ==
  ASSUME BInv, Pushes
  PROVE  /\ turn \in Boards /\ Pushed \in Order
         /\ Pushed.firm => link[turn] = "ready" /\ id[turn] = Pushed.to
         /\ pending[turn] \in Seq(Order) /\ pending' = [pending EXCEPT ![turn] = Append(@, Pushed)]
         /\ pending'[turn] = Append(pending[turn], Pushed)
         /\ \A d \in Boards : d # turn => pending'[d] = pending[d]
         /\ UNCHANGED <<link, at, id, shown, inbox, lights>>
<1>1. /\ turn \in Boards /\ order.to \in Cards \cup {NoCard} /\ order.logo \in 0..2
      /\ firm \in BOOLEAN /\ (firm => link[turn] = "ready" /\ id[turn] = order.to)
      /\ pending \in [Boards -> Seq(Order)]
  BY DEF BInv, BoardTypes, Found, Pushes
<1>2. pending' = [pending EXCEPT ![turn] = Append(@, Pushed)]
      /\ UNCHANGED <<link, at, id, shown, inbox, lights>>
  BY DEF Pushes, Pushed, linkVars
<1>3. Pushed \in Order /\ Pushed.to = order.to /\ Pushed.firm = firm
  BY <1>1 DEF Order, Pushed
<1> HIDE DEF Pushed
<1> QED BY <1>1, <1>2, <1>3

LEMMA PushKeeps == BInv /\ Pushes => BInv'
<1> SUFFICES ASSUME BInv, Pushes PROVE BInv'
  OBVIOUS
<1>0. PICK b \in Boards, o \in Order : b = turn /\ o = Pushed
  BY PushedType
<1>1. /\ b \in Boards /\ o \in Order /\ (o.firm => link[b] = "ready" /\ id[b] = o.to)
      /\ pending[b] \in Seq(Order) /\ pending' = [pending EXCEPT ![b] = Append(@, o)]
      /\ pending'[b] = Append(pending[b], o) /\ pending \in [Boards -> Seq(Order)]
      /\ \A d \in Boards : d # b => pending'[d] = pending[d]
      /\ UNCHANGED <<link, at, id, shown, inbox, lights>>
  BY <1>0, PushedType DEF BInv, BoardTypes
<1>2. Found'
  <2>1. 1 \in Boards
    BY PlayOutAssumption DEF Boards
  <2> QED BY <2>1 DEF Pushes, Releases, Found
<1>3. BoardTypes' /\ Apart'
  BY <1>1 DEF BInv, BoardTypes, Apart
<1>4. \A d \in Boards : Fine(d)'
  BY <1>1, StaysFine DEF BInv
<1>5. \A d \in Boards : d # b => Cleared(d)'
  BY <1>1, StaysCleared DEF BInv
<1>6. Cleared(b)'
  <2> SUFFICES ASSUME NEW i \in DOMAIN pending'[b], pending'[b][i].firm
               PROVE  link[b] \in {"away", "ready"} /\ (link[b] = "ready" => pending'[b][i].to = id[b])
    BY <1>1 DEF Cleared
  <2>1. (i \in DOMAIN pending[b] /\ pending'[b][i] = pending[b][i]) \/ pending'[b][i] = o
    BY <1>1
  <2> QED BY <1>1, <2>1 DEF BInv, Cleared
<1> QED BY <1>2, <1>3, <1>4, <1>5, <1>6 DEF BInv

\* The connection of a board.
LEMMA ConnectionKeeps ==
  ASSUME BInv, NEW b \in Boards,
         \/ ClearQueue(b) \/ ConnectFails(b) \/ CardLeaves(b) \/ LosesCard(b)
         \/ \E c \in Cards : Connects(b, c)
  PROVE  BInv'
<1> USE DEF Goes, Away, dataVars, linkVars
<1>0. /\ NoCard \notin Cards /\ BoardTypes /\ Apart /\ Fine(b) /\ Cleared(b) /\ Found
      /\ pending \in [Boards -> Seq(Order)] /\ inbox \in [Boards -> Seq(Messages)]
  BY PlayOutAssumption DEF BInv, BoardTypes
<1>1. CASE ClearQueue(b)
  <2>1. /\ link[b] = "away" /\ link' = [link EXCEPT ![b] = "trying"]
        /\ pending' = [pending EXCEPT ![b] = <<>>]
        /\ UNCHANGED <<at, id, shown, inbox, lights, doing, turn, order, firm>>
    BY <1>1 DEF ClearQueue
  <2>2. pending' \in [Boards -> Seq(Order)] /\ DOMAIN pending'[b] = {}
        /\ \A d \in Boards : d # b => pending'[d] = pending[d]
    BY <1>0, <2>1
  <2>3. link'[b] = "trying" /\ \A d \in Boards : d # b => link'[d] = link[d]
    BY <1>0, <2>1 DEF BoardTypes
  <2>4. BoardTypes'
    BY <1>0, <2>1, <2>2 DEF BoardTypes
  <2>5. Apart' /\ Found'
    BY <1>0, <2>1, <2>3 DEF Apart, Found
  <2>6. Fine(b)' /\ Cleared(b)'
    BY <1>0, <2>1, <2>2, <2>3 DEF Fine, Cleared
  <2> QED BY <2>1, <2>2, <2>3, <2>4, <2>5, <2>6, OneBoard DEF boardOf
<1>2. CASE ConnectFails(b)
  <2>1. /\ link[b] = "trying" /\ link' = [link EXCEPT ![b] = "away"]
        /\ UNCHANGED <<at, id, shown, pending, inbox, lights, doing, turn, order, firm>>
    BY <1>2 DEF ConnectFails
  <2>2. link'[b] = "away" /\ \A d \in Boards : d # b => link'[d] = link[d]
    BY <1>0, <2>1 DEF BoardTypes
  <2>3. BoardTypes' /\ Apart' /\ Found'
    BY <1>0, <2>1, <2>2 DEF BoardTypes, Apart, Found
  <2>4. Fine(b)' /\ Cleared(b)'
    BY <1>0, <2>1, <2>2 DEF Fine, Cleared
  <2> QED BY <2>1, <2>2, <2>3, <2>4, OneBoard DEF boardOf
<1>3. CASE CardLeaves(b)
  <2>1. /\ at' = [at EXCEPT ![b] = NoCard]
        /\ UNCHANGED <<link, id, shown, pending, inbox, lights, doing, turn, order, firm>>
    BY <1>3 DEF CardLeaves
  <2>2. at'[b] = NoCard /\ \A d \in Boards : d # b => at'[d] = at[d]
    BY <1>0, <2>1 DEF BoardTypes
  <2>3. BoardTypes' /\ Apart' /\ Found'
    BY <1>0, <2>1, <2>2 DEF BoardTypes, Apart, Found
  <2>4. Fine(b)' /\ Cleared(b)'
    BY <1>0, <2>1, <2>2 DEF Fine, Cleared
  <2> QED BY <2>1, <2>2, <2>3, <2>4, OneBoard DEF boardOf
<1>4. CASE LosesCard(b)
  <2>1. /\ link[b] \in {"linked", "ready"} /\ link' = [link EXCEPT ![b] = "away"]
        /\ at' = [at EXCEPT ![b] = NoCard]
        /\ inbox' = [inbox EXCEPT ![b] = <<>>] /\ firm' = (firm /\ turn # b)
        /\ UNCHANGED <<id, shown, pending, lights, doing, turn, order>>
    BY <1>4 DEF LosesCard
  <2>2. /\ link'[b] = "away" /\ \A d \in Boards : d # b => link'[d] = link[d]
        /\ at'[b] = NoCard /\ \A d \in Boards : d # b => at'[d] = at[d]
    BY <1>0, <2>1 DEF BoardTypes
  <2>3. /\ inbox' \in [Boards -> Seq(Messages)] /\ inbox'[b] = <<>> /\ DOMAIN inbox'[b] = {}
        /\ \A d \in Boards : d # b => inbox'[d] = inbox[d]
    BY <1>0, <2>1
  <2>4. BoardTypes'
    BY <1>0, <2>1, <2>3 DEF BoardTypes
  <2>5. Apart'
    BY <1>0, <2>1, <2>2 DEF Apart
  <2>6. Found'
    BY <1>0, <2>1, <2>2 DEF Found
  <2>7. Fine(b)' /\ Cleared(b)'
    BY <1>0, <2>1, <2>2, <2>3 DEF Fine, Cleared
  <2> QED BY <2>1, <2>2, <2>3, <2>4, <2>5, <2>6, <2>7, OneBoard DEF boardOf
<1>5. ASSUME NEW c \in Cards, Connects(b, c) PROVE BInv'
  <2>1. /\ link[b] = "trying" /\ link' = [link EXCEPT ![b] = "linked"]
        /\ at' = [at EXCEPT ![b] = c] /\ (\A d \in Boards : at[d] # c)
        /\ UNCHANGED <<id, shown, pending, inbox, lights, doing, turn, order, firm>>
    BY <1>5 DEF Connects
  <2>2. /\ link'[b] = "linked" /\ \A d \in Boards : d # b => link'[d] = link[d]
        /\ at'[b] = c /\ \A d \in Boards : d # b => at'[d] = at[d]
    BY <1>0, <2>1 DEF BoardTypes
  <2>3. BoardTypes' /\ Apart' /\ Found'
    BY <1>0, <2>1, <2>2 DEF BoardTypes, Apart, Found
  <2>4. Fine(b)' /\ Cleared(b)'
    <3>1. inbox'[b] = <<>> /\ DOMAIN inbox'[b] = {}
      BY <1>0, <2>1 DEF Fine
    <3> QED BY <1>0, <2>1, <2>2, <3>1 DEF Fine, Cleared
  <2> QED BY <2>1, <2>2, <2>3, <2>4, OneBoard DEF boardOf
<1> QED BY <1>1, <1>2, <1>3, <1>4, <1>5

\* A message tells of a board's own card, and no second device info is on its way.
LEMMA ToldFine ==
  ASSUME NEW b \in Boards, Fine(b), BoardTypes, at[b] \in Cards, NEW m \in Messages, Told(b, m),
         m.from = at[b], UNCHANGED <<link, at, id>>,
         m.info # "none" => /\ link[b] = "linked"
                            /\ \A i \in DOMAIN inbox[b] : inbox[b][i].info = "none"
  PROVE  /\ inbox' \in [Boards -> Seq(Messages)] /\ Fine(b)'
         /\ \A d \in Boards : d # b => inbox'[d] = inbox[d]
<1>1. /\ inbox \in [Boards -> Seq(Messages)] /\ inbox' = [inbox EXCEPT ![b] = Append(@, m)]
      /\ NoCard \notin Cards
  BY PlayOutAssumption DEF BoardTypes, Told
<1> DEFINE s == inbox[b]
           t == inbox'[b]
<1>2. s \in Seq(Messages) /\ t = Append(s, m)
  BY <1>1
<1> HIDE DEF s, t
<1>3. /\ Len(s) \in Nat /\ DOMAIN s = 1..Len(s) /\ DOMAIN t = 1..(Len(s) + 1)
      /\ t[Len(s) + 1] = m /\ \A i \in DOMAIN s : t[i] = s[i]
  BY <1>2
<1>4. \A i \in DOMAIN t : (i \in DOMAIN s /\ t[i] = s[i]) \/ (i = Len(s) + 1 /\ t[i] = m)
  BY <1>3
<1>5. /\ link[b] \in {"linked", "ready"}
      /\ link[b] = "ready" => id[b] = at[b]
      /\ \A i \in DOMAIN s : s[i].from = at[b]
      /\ \A i, j \in DOMAIN s : s[i].info # "none" /\ s[j].info # "none" => i = j
      /\ link[b] = "ready" => \A i \in DOMAIN s : s[i].info = "none"
      /\ m.info # "none" => link[b] = "linked" /\ \A i \in DOMAIN s : s[i].info = "none"
  BY <1>1 DEF Fine, s
<1>6. /\ \A i \in DOMAIN t : t[i].from = at[b]
      /\ link[b] = "ready" => \A i \in DOMAIN t : t[i].info = "none"
  BY <1>4, <1>5
<1>7. \A i, j \in DOMAIN t : t[i].info # "none" /\ t[j].info # "none" => i = j
  BY <1>4, <1>5
<1>8. Fine(b)'
  BY <1>1, <1>5, <1>6, <1>7 DEF Fine, t
<1> QED BY <1>1, <1>8

\* What is left in the inbox.
LEMMA RestFine ==
  ASSUME NEW b \in Boards, Fine(b), BoardTypes, Handled(b), UNCHANGED at,
         \/ UNCHANGED link /\ (link[b] = "ready" => id'[b] = id[b])
         \/ /\ link'[b] = "ready" /\ Head(inbox[b]).info # "none" /\ id'[b] = Head(inbox[b]).from
  PROVE  /\ inbox' \in [Boards -> Seq(Messages)] /\ Fine(b)'
         /\ Head(inbox[b]) \in Messages /\ 1 \in DOMAIN inbox[b] /\ Head(inbox[b]) = inbox[b][1]
         /\ \A d \in Boards : d # b => inbox'[d] = inbox[d]
<1>1. /\ inbox \in [Boards -> Seq(Messages)] /\ inbox' = [inbox EXCEPT ![b] = Tail(@)]
      /\ NoCard \notin Cards
  BY PlayOutAssumption DEF BoardTypes, Handled
<1> DEFINE s == inbox[b]
           t == inbox'[b]
<1>2. s \in Seq(Messages) /\ t = Tail(s) /\ s # <<>>
  BY <1>1 DEF Handled
<1> HIDE DEF s, t
<1>3. /\ Len(s) \in Nat \ {0} /\ DOMAIN s = 1..Len(s) /\ DOMAIN t = 1..(Len(s) - 1)
      /\ Head(s) = s[1] /\ 1 \in DOMAIN s /\ s[1] \in Messages /\ t \in Seq(Messages)
      /\ \A i \in DOMAIN t : i + 1 \in DOMAIN s /\ i + 1 # 1 /\ t[i] = s[i + 1]
  BY <1>2
<1>4. inbox' \in [Boards -> Seq(Messages)] /\ \A d \in Boards : d # b => inbox'[d] = inbox[d]
  BY <1>1, <1>3 DEF t, s
<1>5. /\ link[b] \in {"linked", "ready"}
      /\ link[b] = "ready" => at[b] = NoCard \/ id[b] = at[b]
      /\ at[b] # NoCard => \A i \in DOMAIN s : s[i].from = at[b]
      /\ \A i, j \in DOMAIN s : s[i].info # "none" /\ s[j].info # "none" => i = j
      /\ link[b] = "ready" => \A i \in DOMAIN s : s[i].info = "none"
  BY DEF Fine, Handled, s
<1>6. at[b] # NoCard => \A i \in DOMAIN t : t[i].from = at[b]
  BY <1>3, <1>5
<1>7. \A i, j \in DOMAIN t : t[i].info # "none" /\ t[j].info # "none" => i = j
  <2> SUFFICES ASSUME NEW i \in DOMAIN t, NEW j \in DOMAIN t, t[i].info # "none", t[j].info # "none"
               PROVE  i = j
    OBVIOUS
  <2>1. i + 1 = j + 1
    BY <1>3, <1>5
  <2> QED BY <1>3, <2>1
<1>8. /\ link'[b] \in {"linked", "ready"}
      /\ link'[b] = "ready" => at[b] = NoCard \/ id'[b] = at[b]
      /\ link'[b] = "ready" => \A i \in DOMAIN t : t[i].info = "none"
  <2>1. CASE UNCHANGED link /\ (link[b] = "ready" => id'[b] = id[b])
    BY <1>3, <1>5, <2>1
  <2>2. CASE link'[b] = "ready" /\ Head(s).info # "none" /\ id'[b] = Head(s).from
    <3>1. \A i \in DOMAIN t : t[i].info = "none"
      BY <1>3, <1>5, <2>2
    <3> QED BY <1>3, <1>5, <2>2, <3>1
  <2> QED BY <2>1, <2>2 DEF s
<1>9. Fine(b)'
  BY <1>1, <1>6, <1>7, <1>8 DEF Fine, t
<1> QED BY <1>3, <1>4, <1>9 DEF s

\* The values a board stores are values it was told, or had.
LEMMA StoresTypes ==
  ASSUME BoardTypes, NEW b \in Boards, NEW m \in Messages, Overrides(b, m) \/ Mixes(b, m)
  PROVE  shown' \in [Boards -> [Paths -> Data \cup {NoData}]]
<1>1. \A p \in DOMAIN m.tells : m.tells[p] \in Data
  <2>1. PICK S \in SUBSET Paths : m.tells \in [S -> Data]
    BY DEF Messages
  <2> QED BY <2>1
<1>2. shown \in [Boards -> [Paths -> Data \cup {NoData}]]
  BY DEF BoardTypes
<1>3. CASE Mixes(b, m)
  <2> DEFINE V == {shown[b][p] : p \in Paths} \cup {m.tells[p] : p \in DOMAIN m.tells}
  <2>1. PICK s \in [Paths -> V] : shown' = [shown EXCEPT ![b] = s]
    BY <1>3 DEF Mixes
  <2>2. V \subseteq Data \cup {NoData}
    BY <1>1, <1>2
  <2> HIDE DEF V
  <2>3. s \in [Paths -> Data \cup {NoData}]
    BY <2>2
  <2> QED BY <1>2, <2>1, <2>3
<1>4. CASE Overrides(b, m)
  <2> DEFINE s == [p \in Paths |-> IF p \in DOMAIN m.tells THEN m.tells[p] ELSE shown[b][p]]
  <2>1. s \in [Paths -> Data \cup {NoData}]
    BY <1>1, <1>2
  <2>2. shown' = [shown EXCEPT ![b] = s]
    BY <1>4 DEF Overrides
  <2> HIDE DEF s
  <2> QED BY <1>2, <2>1, <2>2
<1> QED BY <1>3, <1>4

\* What a board is told, and handles.
LEMMA ToldKeeps ==
  ASSUME BInv, NEW b \in Boards,
         \/ \E info \in {"complete", "partial"} : CardTellsInfo(b, info)
         \/ HandlesInfo(b) \/ HandlesValues(b)
  PROVE  BInv'
<1> USE DEF Away, linkVars
<1>0. /\ NoCard \notin Cards /\ BoardTypes /\ Apart /\ Fine(b) /\ Cleared(b) /\ Found
  BY PlayOutAssumption DEF BInv
<1>1. ASSUME NEW info \in {"complete", "partial"}, CardTellsInfo(b, info) PROVE BInv'
  <2> DEFINE m == Message(at[b], info, lights[at[b]])
  <2>1. /\ link[b] = "linked" /\ at[b] \in Cards /\ Told(b, m)
        /\ \A i \in DOMAIN inbox[b] : inbox[b][i].info = "none"
        /\ UNCHANGED <<link, at, id, shown, pending, lights, doing, turn, order, firm>>
    BY <1>0, <1>1 DEF CardTellsInfo, BoardTypes
  <2>2. m \in Messages /\ m.from = at[b]
    BY <1>0, <2>1 DEF BoardTypes, Messages, Message
  <2> HIDE DEF m
  <2>3. /\ inbox' \in [Boards -> Seq(Messages)] /\ Fine(b)'
        /\ \A d \in Boards : d # b => inbox'[d] = inbox[d]
    BY <1>0, <2>1, <2>2, ToldFine
  <2>4. BoardTypes' /\ Apart' /\ Found' /\ Cleared(b)'
    BY <1>0, <2>1, <2>3 DEF BoardTypes, Apart, Found, Cleared
  <2> QED BY <2>1, <2>3, <2>4, OneBoard DEF boardOf
<1> DEFINE m == Head(inbox[b])
<1>2. CASE HandlesInfo(b)
  <2>1. /\ Handled(b) /\ m.info # "none" /\ id' = [id EXCEPT ![b] = m.from]
        /\ \/ link[b] = "linked" /\ link' = [link EXCEPT ![b] = "ready"] /\ Overrides(b, m)
           \/ UNCHANGED link /\ Mixes(b, m)
        /\ UNCHANGED <<at, pending, lights, doing, turn, order, firm>>
    BY <1>2 DEF HandlesInfo, Goes
  <2>2. m = inbox[b][1] /\ m \in Messages /\ 1 \in DOMAIN inbox[b]
    <3>1. inbox[b] \in Seq(Messages) /\ inbox[b] # <<>>
      BY <1>0, <2>1 DEF BoardTypes, Handled
    <3> QED BY <3>1
  <2>3. link[b] = "linked"
    BY <1>0, <2>1, <2>2 DEF Fine, Handled
  <2>4. /\ id'[b] = m.from /\ m.from \in Cards /\ \A d \in Boards : d # b => id'[d] = id[d]
        /\ \A d \in Boards : d # b => link'[d] = link[d]
        /\ link'[b] = "ready" \/ UNCHANGED link
    BY <1>0, <2>1, <2>2 DEF BoardTypes, Messages
  <2>5. /\ inbox' \in [Boards -> Seq(Messages)] /\ Fine(b)'
        /\ \A d \in Boards : d # b => inbox'[d] = inbox[d]
    BY <1>0, <2>1, <2>3, <2>4, RestFine
  <2>6. shown' \in [Boards -> [Paths -> Data \cup {NoData}]]
    BY <1>0, <2>1, <2>2, StoresTypes
  <2> HIDE DEF m
  <2>7. BoardTypes'
    BY <1>0, <2>1, <2>4, <2>5, <2>6 DEF BoardTypes
  <2>8. Apart' /\ Found'
    BY <1>0, <2>1, <2>3, <2>4 DEF Apart, Found
  <2>9. Cleared(b)'
    BY <1>0, <2>1, <2>3 DEF Cleared
  <2> QED BY <2>1, <2>4, <2>5, <2>7, <2>8, <2>9, OneBoard DEF boardOf
<1>3. CASE HandlesValues(b)
  <2>1. /\ Handled(b) /\ (Overrides(b, m) \/ Mixes(b, m))
        /\ UNCHANGED <<link, at, id, pending, lights, doing, turn, order, firm>>
    BY <1>3 DEF HandlesValues
  <2>2. /\ inbox' \in [Boards -> Seq(Messages)] /\ Fine(b)' /\ m \in Messages
        /\ \A d \in Boards : d # b => inbox'[d] = inbox[d]
    BY <1>0, <2>1, RestFine
  <2> HIDE DEF m
  <2>3. shown' \in [Boards -> [Paths -> Data \cup {NoData}]]
    BY <1>0, <2>1, <2>2, StoresTypes
  <2>4. BoardTypes' /\ Apart' /\ Found' /\ Cleared(b)'
    BY <1>0, <2>1, <2>2, <2>3 DEF BoardTypes, Apart, Found, Cleared
  <2> QED BY <2>1, <2>2, <2>4, OneBoard DEF boardOf
<1> QED BY <1>1, <1>2, <1>3

\* The orders that are left behind the first.
LEMMA RestCleared ==
  ASSUME BInv, NEW b \in Boards, pending[b] # <<>>,
         pending' = [pending EXCEPT ![b] = Tail(@)], UNCHANGED <<link, id>>
  PROVE  /\ pending' \in [Boards -> Seq(Order)] /\ Cleared(b)' /\ Head(pending[b]) \in Order
         /\ \A d \in Boards : d # b => pending'[d] = pending[d]
<1>1. pending[b] \in Seq(Order) /\ pending \in [Boards -> Seq(Order)] /\ Cleared(b)
  BY DEF BInv, BoardTypes
<1>2. /\ Tail(pending[b]) \in Seq(Order) /\ Head(pending[b]) \in Order
      /\ \A i \in DOMAIN Tail(pending[b]) : i + 1 \in DOMAIN pending[b]
                                           /\ Tail(pending[b])[i] = pending[b][i + 1]
  BY <1>1
<1>3. pending' \in [Boards -> Seq(Order)] /\ pending'[b] = Tail(pending[b])
  BY <1>1, <1>2
<1>4. Cleared(b)'
  BY <1>1, <1>2, <1>3 DEF Cleared
<1> QED BY <1>1, <1>2, <1>3, <1>4

\* What a card is told to set, and what it tells of it.
LEMMA CarriesTypes ==
  ASSUME BInv, NEW b \in Boards, NEW S \in SUBSET Paths, NEW T \in SUBSET Paths, Carries(b, S, T)
  PROVE  /\ link[b] = "ready" /\ at[b] \in Cards /\ pending[b] # <<>>
         /\ Head(pending[b]) \in Order
         /\ Message(at[b], "none", [p \in T |-> Ordered(Head(pending[b]).logo)[p]]) \in Messages
         /\ lights' \in [Cards -> [Paths -> Data]]
<1> DEFINE r == Head(pending[b])
<1>1. /\ link[b] = "ready" /\ at[b] \in Cards /\ pending[b] # <<>> /\ pending[b] \in Seq(Order)
      /\ lights \in [Cards -> [Paths -> Data]]
      /\ lights' = [lights EXCEPT ![at[b]] =
                      [p \in Paths |-> IF p \in S THEN Ordered(r.logo)[p] ELSE @[p]]]
  BY DEF Carries, BInv, BoardTypes
<1>2. r \in Order
  BY <1>1
<1> HIDE DEF r
<1>3. Ordered(r.logo) \in [Paths -> Data]
  BY <1>2, DataTypes DEF Order
<1>4. lights' \in [Cards -> [Paths -> Data]]
  BY <1>1, <1>3
<1>5. Message(at[b], "none", [p \in T |-> Ordered(r.logo)[p]]) \in Messages
  <2>1. [p \in T |-> Ordered(r.logo)[p]] \in UNION {[U -> Data] : U \in SUBSET Paths}
    BY <1>3
  <2> QED BY <1>1, <2>1 DEF Messages, Message
<1> QED BY <1>1, <1>2, <1>4, <1>5 DEF r

LEMMA OrdersKeep ==
  ASSUME BInv, NEW b \in Boards,
         LosesOrder(b) \/ \E S, T \in SUBSET Paths : Carries(b, S, T)
  PROVE  BInv'
<1> USE DEF Away, linkVars
<1>0. /\ NoCard \notin Cards /\ BoardTypes /\ Apart /\ Fine(b) /\ Cleared(b) /\ Found
  BY PlayOutAssumption DEF BInv
<1>1. CASE LosesOrder(b)
  <2>1. /\ pending[b] # <<>> /\ pending' = [pending EXCEPT ![b] = Tail(@)]
        /\ UNCHANGED <<link, at, id, shown, inbox, lights, doing, turn, order, firm>>
    BY <1>1 DEF LosesOrder
  <2>2. /\ pending' \in [Boards -> Seq(Order)] /\ Cleared(b)'
        /\ \A d \in Boards : d # b => pending'[d] = pending[d]
    BY <2>1, RestCleared
  <2>3. BoardTypes' /\ Apart' /\ Found' /\ Fine(b)'
    BY <1>0, <2>1, <2>2 DEF BoardTypes, Apart, Found, Fine
  <2> QED BY <2>1, <2>2, <2>3, OneBoard DEF boardOf
<1>2. ASSUME NEW S \in SUBSET Paths, NEW T \in SUBSET Paths, Carries(b, S, T) PROVE BInv'
  <2> DEFINE m == Message(at[b], "none", [p \in T |-> Ordered(Head(pending[b]).logo)[p]])
  <2>1. /\ pending' = [pending EXCEPT ![b] = Tail(@)] /\ Told(b, m)
        /\ UNCHANGED <<link, at, id, shown, doing, turn, order, firm>>
    BY <1>2 DEF Carries
  <2>2. /\ at[b] \in Cards /\ pending[b] # <<>> /\ m \in Messages
        /\ lights' \in [Cards -> [Paths -> Data]]
    BY <1>2, CarriesTypes
  <2>3. m.from = at[b] /\ m.info = "none"
    BY DEF Message
  <2> HIDE DEF m
  <2>4. /\ pending' \in [Boards -> Seq(Order)] /\ Cleared(b)'
        /\ \A d \in Boards : d # b => pending'[d] = pending[d]
    BY <2>1, <2>2, RestCleared
  <2>5. /\ inbox' \in [Boards -> Seq(Messages)] /\ Fine(b)'
        /\ \A d \in Boards : d # b => inbox'[d] = inbox[d]
    BY <1>0, <2>1, <2>2, <2>3, ToldFine
  <2>6. BoardTypes' /\ Apart' /\ Found'
    BY <1>0, <2>1, <2>2, <2>4, <2>5 DEF BoardTypes, Apart, Found
  <2> QED BY <2>1, <2>4, <2>5, <2>6, OneBoard DEF boardOf
<1> QED BY <1>1, <1>2

LEMMA OthersKeep ==
  ASSUME BInv, NEW c \in Cards, NEW p \in Paths, NEW v \in Vectors, SomebodyElse(c, p, v)
  PROVE  BInv'
<1> DEFINE m == Message(c, "none", [q \in {p} |-> v])
<1>1. /\ lights' = [lights EXCEPT ![c][p] = v]
      /\ inbox' = [b \in Boards |-> IF at[b] = c THEN Append(inbox[b], m) ELSE inbox[b]]
      /\ UNCHANGED <<link, at, id, shown, pending, doing, turn, order, firm>>
  BY DEF SomebodyElse, Away, linkVars
<1>2. m \in Messages /\ m.from = c /\ m.info = "none"
  <2>1. {p} \in SUBSET Paths /\ [q \in {p} |-> v] \in [{p} -> Data]
    BY DEF Data
  <2> QED BY <2>1 DEF Messages, Message
<1> HIDE DEF m
<1>3. inbox \in [Boards -> Seq(Messages)] /\ BoardTypes /\ Apart /\ Found
  BY DEF BInv, BoardTypes
<1>4. inbox' \in [Boards -> Seq(Messages)]
  BY <1>1, <1>2, <1>3
<1>5. lights' \in [Cards -> [Paths -> Data]]
  BY <1>1, <1>3 DEF BoardTypes, Data
<1>6. BoardTypes' /\ Apart' /\ Found'
  BY <1>1, <1>3, <1>4, <1>5 DEF BoardTypes, Apart, Found
<1>7. ASSUME NEW b \in Boards PROVE Fine(b)' /\ Cleared(b)'
  <2>0. Fine(b) /\ Cleared(b)
    BY DEF BInv
  <2>1. Cleared(b)'
    BY <1>1, <2>0, StaysCleared
  <2>2. CASE at[b] # c
    BY <1>1, <2>0, <2>1, <2>2, StaysFine
  <2>3. CASE at[b] = c
    <3> DEFINE s == inbox[b]
               t == inbox'[b]
    <3>1. s \in Seq(Messages) /\ t = Append(s, m)
      BY <1>1, <1>3, <2>3
    <3> HIDE DEF s, t
    <3>2. /\ Len(s) \in Nat /\ DOMAIN s = 1..Len(s) /\ DOMAIN t = 1..(Len(s) + 1)
          /\ t[Len(s) + 1] = m /\ \A i \in DOMAIN s : t[i] = s[i]
      BY <1>2, <3>1
    <3>3. \A i \in DOMAIN t : (i \in DOMAIN s /\ t[i] = s[i]) \/ t[i] = m
      BY <3>2
    <3>4. /\ at[b] # NoCard /\ link[b] \in {"linked", "ready"}
          /\ link[b] = "ready" => id[b] = at[b]
          /\ \A i \in DOMAIN s : s[i].from = at[b]
          /\ \A i, j \in DOMAIN s : s[i].info # "none" /\ s[j].info # "none" => i = j
          /\ link[b] = "ready" => \A i \in DOMAIN s : s[i].info = "none"
      BY <2>0, <2>3, PlayOutAssumption DEF Fine, s
    <3>5. /\ \A i \in DOMAIN t : t[i].from = at[b]
          /\ \A i, j \in DOMAIN t : t[i].info # "none" /\ t[j].info # "none" => i = j
          /\ link[b] = "ready" => \A i \in DOMAIN t : t[i].info = "none"
      BY <1>2, <2>3, <3>3, <3>4
    <3>6. Fine(b)'
      BY <1>1, <3>4, <3>5 DEF Fine, t
    <3> QED BY <2>1, <3>6
  <2> QED BY <2>2, <2>3
<1> QED BY <1>6, <1>7 DEF BInv

IInv == PInv /\ BInv

\* The rest of the steps: which they are, in the groups of the lemmas above.
LEMMA RequestsLeaveBoards ==
  ASSUME PluginStep \/ Requests \/ UNCHANGED playVars
  PROVE  UNCHANGED <<boardVars, lockVars, expected>>
<1> USE DEF BeforeServer, boardVars, historyVars
<1>1. CASE PluginStep
  BY <1>1 DEF PluginStep
<1>2. CASE Requests
  BY <1>2 DEF Requests, PluginExecute, PluginAsks, PluginAnswered, PluginGivesUp, PageAsks
<1>3. CASE UNCHANGED playVars
  BY <1>3 DEF playVars
<1> QED BY <1>1, <1>2, <1>3

LEMMA Step == IInv /\ [PlayNext]_playVars => IInv'
<1> SUFFICES ASSUME IInv, [PlayNext]_playVars PROVE BInv'
  BY PStep DEF IInv
<1> USE DEF IInv
<1>1. CASE PluginStep \/ Requests \/ UNCHANGED playVars
  <2>1. UNCHANGED boardVars /\ UNCHANGED <<doing, turn, order, firm>> /\ UNCHANGED <<link, id, at>>
    BY <1>1, RequestsLeaveBoards DEF lockVars, boardVars, linkVars
  <2>2. BoardTypes /\ Found
    BY DEF BInv
  <2>3. Found'
    BY <2>1, <2>2 DEF Found
  <2> QED BY <2>1, <2>3, BoardsSame
<1>2. CASE SetLogoAPI \/ GetBoards
  BY <1>2, LooksKeeps, PushKeeps DEF SetLogoAPI
<1>3. CASE BoardSteps
  BY <1>3, ConnectionKeeps, ToldKeeps, OrdersKeep DEF BoardSteps
<1>4. CASE OtherClients
  BY <1>4, OthersKeep DEF OtherClients
<1> QED BY <1>1, <1>2, <1>3, <1>4 DEF PlayNext

\* The invariant holds of every behaviour.
THEOREM Invariant == PlaySpec => []IInv
<1>1. PlayInit => IInv
  BY InitPInv, InitBInv DEF IInv
<1> QED BY <1>1, Step, PTL DEF PlaySpec

\* Whatever the other clients set, the list names a logo exactly for the lights of
\* an order for it.
THEOREM ActiveLogoTrueHolds == PlaySpec => []ActiveLogoTrue
<1>1. IInv => ActiveLogoTrue
  <2> SUFFICES ASSUME IInv, NEW c \in Cards, NEW l \in 0..2
               PROVE  ActiveLogo(lights[c][1], lights[c][2]) = l <=> lights[c] = Ordered(l)
    BY DEF ActiveLogoTrue
  <2>1. lights[c] \in [Paths -> Data]
    BY DEF IInv, BInv, BoardTypes
  <2>2. lights[c] = Ordered(l) <=> lights[c][1] = Hot(l) /\ lights[c][2] = Hot(Second(l))
    BY <2>1 DEF Ordered, Paths
  <2> QED BY <2>2, ActiveLogoOf
<1> QED BY Invariant, <1>1, PTL

\* A firm order reaches the card it names or none, for any boards and cards: the
\* queue is cleared before the next card can be ready.
THEOREM RightCardHolds == PlaySpec => RightCard
<1>1. IInv /\ [PlayNext]_playVars =>
        [\A b \in Boards, S, T \in SUBSET Paths :
           Carries(b, S, T) /\ Head(pending[b]).firm => Head(pending[b]).to = at[b]]_playVars
  <2> SUFFICES ASSUME IInv, NEW b \in Boards, NEW S \in SUBSET Paths, NEW T \in SUBSET Paths,
                      Carries(b, S, T), Head(pending[b]).firm
               PROVE  Head(pending[b]).to = at[b]
    OBVIOUS
  <2>1. link[b] = "ready" /\ at[b] # NoCard /\ pending[b] # <<>> /\ pending[b] \in Seq(Order)
        /\ Fine(b) /\ Cleared(b)
    BY DEF Carries, IInv, BInv, BoardTypes
  <2>2. 1 \in DOMAIN pending[b] /\ Head(pending[b]) = pending[b][1]
    BY <2>1
  <2> QED BY <2>1, <2>2 DEF Cleared, Fine
<1> QED BY Invariant, <1>1, PTL DEF PlaySpec, RightCard

-----------------------------------------------------------------------------
(* The order a card shows.                                                 *)

\* The last of a sequence of orders that names card c.
LastFor(s, c, i) == i \in DOMAIN s /\ s[i].to = c /\ \A j \in DOMAIN s : j > i => s[j].to # c

At(b, c) == link[b] = "ready" /\ at[b] = c

\* A card shows the logo that was last ordered of it, unless the board that has the
\* card still has orders for it: then the last of these, if it is firm, is for this logo.
Owed(c) ==
  expected[c] # NoLogo =>
    /\ \A b \in Boards : At(b, c) =>
         \A i \in DOMAIN pending[b] :
           LastFor(pending[b], c, i) /\ pending[b][i].firm => pending[b][i].logo = expected[c]
    /\ (\A b \in Boards : At(b, c) => c \notin Named(pending[b])) => lights[c] = Ordered(expected[c])

Expecting ==
  /\ expected \in [Cards -> 0..2 \cup {NoLogo}]
  /\ \A c \in Cards : Owed(c)

\* The cards a queue names, and the last order for one of them, when the first order
\* leaves the queue and when one is added.
LEMMA NamedTail ==
  ASSUME NEW s \in Seq(Order), s # <<>>, NEW c
  PROVE  /\ Head(s) \in Order
         /\ c \in Named(s) <=> c = Head(s).to \/ c \in Named(Tail(s))
         /\ \A i \in DOMAIN Tail(s) : LastFor(Tail(s), c, i) =>
              i + 1 \in DOMAIN s /\ LastFor(s, c, i + 1) /\ Tail(s)[i] = s[i + 1]
         /\ Head(s).to = c /\ c \notin Named(Tail(s)) => LastFor(s, c, 1)
<1> DEFINE t == Tail(s)
<1>1. /\ Len(s) \in Nat /\ Len(s) >= 1 /\ DOMAIN s = 1..Len(s) /\ Head(s) = s[1]
      /\ \A i \in 1..Len(s) : s[i] \in Order
  OBVIOUS
<1>2. DOMAIN t = 1..(Len(s) - 1) /\ \A i \in 1..(Len(s) - 1) : t[i] = s[i + 1]
  OBVIOUS
<1> HIDE DEF t
<1>3. \A j \in 1..Len(s) : j # 1 => j - 1 \in DOMAIN t /\ t[j - 1] = s[j]
  BY <1>1, <1>2
<1>4. c \in Named(s) <=> c = Head(s).to \/ c \in Named(t)
  <2>1. 1 \in DOMAIN s /\ \A i \in DOMAIN t : i + 1 \in DOMAIN s
    BY <1>1, <1>2
  <2>2. c \in Named(s) <=> \E i \in DOMAIN s : s[i].to = c
    BY DEF Named
  <2>3. c \in Named(t) <=> \E i \in DOMAIN t : t[i].to = c
    BY DEF Named
  <2>4. ASSUME c \in Named(s), c # Head(s).to PROVE c \in Named(t)
    BY <1>1, <1>3, <2>2, <2>3, <2>4
  <2>5. c = Head(s).to => c \in Named(s)
    BY <1>1, <2>1, <2>2
  <2>6. c \in Named(t) => c \in Named(s)
    BY <1>1, <1>2, <2>1, <2>2, <2>3
  <2> QED BY <2>4, <2>5, <2>6
<1>5. ASSUME NEW i \in DOMAIN t, LastFor(t, c, i)
      PROVE  i + 1 \in DOMAIN s /\ LastFor(s, c, i + 1) /\ t[i] = s[i + 1]
  <2>1. i \in Nat /\ i + 1 \in DOMAIN s /\ t[i] = s[i + 1]
    BY <1>1, <1>2
  <2>2. ASSUME NEW j \in DOMAIN s, j > i + 1 PROVE s[j].to # c
    <3>1. j - 1 \in DOMAIN t /\ t[j - 1] = s[j] /\ j - 1 > i
      BY <1>1, <1>3, <2>1, <2>2
    <3> QED BY <1>5, <3>1 DEF LastFor
  <2> QED BY <1>5, <2>1, <2>2 DEF LastFor
<1>6. Head(s).to = c /\ c \notin Named(t) => LastFor(s, c, 1)
  BY <1>1, <1>3 DEF LastFor, Named
<1> QED BY <1>1, <1>4, <1>5, <1>6 DEF t

LEMMA NamedAppend ==
  ASSUME NEW s \in Seq(Order), NEW o \in Order, NEW c,
         NEW t \in Seq(Order), Len(t) = Len(s) + 1, t[Len(t)] = o, \A i \in 1..Len(s) : t[i] = s[i]
  PROVE  /\ c \in Named(t) <=> c = o.to \/ c \in Named(s)
         /\ \A i \in DOMAIN t : o.to # c /\ LastFor(t, c, i) =>
              i \in DOMAIN s /\ LastFor(s, c, i)
<1>1. /\ Len(s) \in Nat /\ DOMAIN s = 1..Len(s) /\ DOMAIN t = 1..(Len(s) + 1)
      /\ t[Len(s) + 1] = o /\ \A i \in 1..Len(s) : t[i] = s[i]
  OBVIOUS
<1>2. Len(s) + 1 \in DOMAIN t /\ \A i \in DOMAIN t : i = Len(s) + 1 \/ i \in DOMAIN s
  BY <1>1
<1>3. c \in Named(t) <=> c = o.to \/ c \in Named(s)
  BY <1>1, <1>2 DEF Named
<1>4. ASSUME NEW i \in DOMAIN t, LastFor(t, c, i), o.to # c
      PROVE  i \in DOMAIN s /\ LastFor(s, c, i)
  <2>1. i \in DOMAIN s
    BY <1>1, <1>2, <1>4 DEF LastFor
  <2>2. \A j \in DOMAIN s : j \in DOMAIN t /\ t[j] = s[j]
    BY <1>1
  <2> QED BY <1>4, <2>1, <2>2 DEF LastFor
<1> QED BY <1>3, <1>4

\* An order is pushed.
LEMMA PushExpects == IInv /\ Expecting /\ Pushes => Expecting'
<1> SUFFICES ASSUME IInv, Expecting, Pushes PROVE Expecting'
  OBVIOUS
<1> DEFINE b == turn
           o == Pushed
<1>1. /\ b \in Boards /\ o \in Order /\ o.logo \in 0..2
      /\ pending[b] \in Seq(Order) /\ pending'[b] = Append(pending[b], o)
      /\ \A d \in Boards : d # b => pending'[d] = pending[d]
      /\ UNCHANGED <<link, at, lights>>
  BY PushedType DEF IInv, Order
<1>2. /\ expected' = [expected EXCEPT ![o.to] =
                        IF o.firm /\ at[b] = o.to THEN o.logo ELSE NoLogo]
      /\ o.firm => link[b] = "ready"
  BY PushedType DEF Pushes, Pushed, IInv
<1> HIDE DEF o, b
<1>3. expected' \in [Cards -> 0..2 \cup {NoLogo}]
  BY <1>1, <1>2 DEF Expecting
<1>4. ASSUME NEW c \in Cards
      PROVE  /\ c \in Named(pending'[b]) <=> c = o.to \/ c \in Named(pending[b])
             /\ \A i \in DOMAIN pending'[b] : LastFor(pending'[b], c, i) =>
                  /\ o.to = c => pending'[b][i] = o
                  /\ o.to # c => /\ i \in DOMAIN pending[b] /\ LastFor(pending[b], c, i)
                                 /\ pending'[b][i] = pending[b][i]
  <2> DEFINE q == pending[b]
             t == pending'[b]
  <2>1. /\ q \in Seq(Order) /\ t \in Seq(Order) /\ Len(t) = Len(q) + 1 /\ t[Len(t)] = o
        /\ \A i \in 1..Len(q) : t[i] = q[i]
    BY <1>1
  <2> HIDE DEF q, t
  <2>2. c \in Named(t) <=> c = o.to \/ c \in Named(q)
    BY <1>1, <2>1, NamedAppend
  <2>3. ASSUME NEW i \in DOMAIN t, LastFor(t, c, i)
        PROVE  /\ o.to = c => t[i] = o
               /\ o.to # c => i \in DOMAIN q /\ LastFor(q, c, i) /\ t[i] = q[i]
    <3>1. CASE o.to = c
      <4>1. Len(t) \in DOMAIN t /\ i \in 1..Len(t) /\ t[Len(t)].to = c
        BY <2>1, <3>1
      <4>2. ~(Len(t) > i)
        BY <2>3, <4>1 DEF LastFor
      <4> QED BY <2>1, <4>1, <4>2
    <3>2. CASE o.to # c
      <4>1. i \in DOMAIN q
        BY <1>1, <2>1, <2>3, <3>2, NamedAppend
      <4>2. LastFor(q, c, i)
        BY <1>1, <2>1, <2>3, <3>2, NamedAppend
      <4> QED BY <2>1, <3>2, <4>1, <4>2
    <3> QED BY <3>1, <3>2
  <2> QED BY <2>1, <2>2, <2>3 DEF q, t
<1>5. ASSUME NEW c \in Cards PROVE Owed(c)'
  <2>1. CASE c # o.to
    <3>1. expected'[c] = expected[c]
      BY <1>2, <2>1 DEF Expecting
    <3>2. ASSUME NEW d \in Boards, NEW i \in DOMAIN pending'[d], LastFor(pending'[d], c, i)
          PROVE  i \in DOMAIN pending[d] /\ LastFor(pending[d], c, i) /\ pending'[d][i] = pending[d][i]
      <4>1. CASE d = b
        BY <1>4, <2>1, <3>2, <4>1
      <4>2. CASE d # b
        BY <1>1, <3>2, <4>2
      <4> QED BY <4>1, <4>2
    <3>3. ASSUME NEW d \in Boards PROVE c \in Named(pending'[d]) <=> c \in Named(pending[d])
      <4>1. CASE d = b
        BY <1>4, <2>1, <4>1
      <4>2. CASE d # b
        BY <1>1, <4>2
      <4> QED BY <4>1, <4>2
    <3> QED BY <1>1, <3>1, <3>2, <3>3 DEF Expecting, Owed, At
  <2>2. CASE c = o.to /\ ~(o.firm /\ at[b] = o.to)
    <3>1. expected'[c] = NoLogo
      BY <1>2, <2>2 DEF Expecting
    <3> QED BY <3>1 DEF Owed
  <2>3. CASE c = o.to /\ o.firm /\ at[b] = o.to
    <3>1. expected'[c] = o.logo /\ At(b, c)
      BY <1>2, <2>3 DEF Expecting, At
    <3>2. \A d \in Boards : At(d, c) => d = b
      BY <1>1, <3>1, PlayOutAssumption DEF At, IInv, BInv, Apart
    <3>3. c \in Named(pending'[b])
      BY <1>4, <2>3
    <3>4. \A i \in DOMAIN pending'[b] : LastFor(pending'[b], c, i) => pending'[b][i] = o
      BY <1>4, <2>3
    <3>5. \A d \in Boards : At(d, c)' <=> At(d, c)
      BY <1>1 DEF At
    <3> QED BY <3>1, <3>2, <3>3, <3>4, <3>5, <1>1 DEF Owed
  <2> QED BY <2>1, <2>2, <2>3
<1> QED BY <1>3, <1>5 DEF Expecting

\* A board gains or loses its card, or comes to know it.
LEMMA ConnectionExpects ==
  ASSUME IInv, Expecting, NEW b \in Boards,
         \/ ClearQueue(b) \/ ConnectFails(b) \/ CardLeaves(b) \/ LosesCard(b)
         \/ \E c \in Cards : Connects(b, c)
         \/ HandlesInfo(b)
  PROVE  Expecting'
<1> USE DEF Goes, Away, linkVars, dataVars
<1>0. /\ NoCard \notin Cards
      /\ link \in [Boards -> {"away", "trying", "linked", "ready"}]
      /\ at \in [Boards -> Cards \cup {NoCard}]
      /\ pending \in [Boards -> Seq(Order)]
      /\ Fine(b) /\ Cleared(b)
  BY PlayOutAssumption DEF IInv, BInv, BoardTypes
<1>1. CASE ClearQueue(b) \/ CardLeaves(b) \/ LosesCard(b)
  <2>1. /\ \A d \in Boards : d # b => /\ pending'[d] = pending[d] /\ link'[d] = link[d]
                                      /\ at'[d] = at[d]
        /\ link'[b] # "ready" \/ at'[b] = NoCard
        /\ UNCHANGED lights
        /\ expected' = [c \in Cards |-> IF c \in Named(pending[b]) THEN NoLogo ELSE expected[c]]
    <3>1. CASE ClearQueue(b)
      BY <1>0, <3>1 DEF ClearQueue, Uncertain
    <3>2. CASE CardLeaves(b) \/ LosesCard(b)
      BY <1>0, <3>2 DEF CardLeaves, LosesCard, Uncertain
    <3> QED BY <1>1, <3>1, <3>2
  <2>2. expected' \in [Cards -> 0..2 \cup {NoLogo}]
    BY <2>1 DEF Expecting
  <2>3. \A c \in Cards : ~At(b, c)' /\ \A d \in Boards : d # b => (At(d, c)' <=> At(d, c))
    BY <1>0, <2>1 DEF At
  <2>4. ASSUME NEW c \in Cards PROVE Owed(c)'
    <3>1. CASE c \in Named(pending[b])
      BY <2>1, <3>1 DEF Owed
    <3>2. CASE c \notin Named(pending[b])
      <4>1. expected'[c] = expected[c] /\ Owed(c) /\ lights'[c] = lights[c]
        BY <2>1, <3>2 DEF Expecting
      <4>2. \A d \in Boards : At(d, c)' => At(d, c) /\ pending'[d] = pending[d]
        BY <2>1, <2>3
      <4>3. (\A d \in Boards : At(d, c)' => c \notin Named(pending'[d])) =>
              \A d \in Boards : At(d, c) => c \notin Named(pending[d])
        BY <2>1, <2>3, <3>2
      <4> QED BY <4>1, <4>2, <4>3 DEF Owed
    <3> QED BY <3>1, <3>2
  <2> QED BY <2>2, <2>4 DEF Expecting
<1>2. CASE ConnectFails(b) \/ \E c \in Cards : Connects(b, c)
  <2>1. /\ link[b] = "trying" /\ link'[b] # "ready" /\ \A d \in Boards : d # b => link'[d] = link[d]
        /\ \A d \in Boards : d # b => at'[d] = at[d]
        /\ UNCHANGED <<pending, lights, expected>>
    BY <1>0, <1>2 DEF ConnectFails, Connects
  <2> QED BY <2>1 DEF Expecting, Owed, At
<1>3. CASE HandlesInfo(b)
  <2>1. /\ link[b] = "linked" \/ link'[b] = link[b]
        /\ \A d \in Boards : d # b => link'[d] = link[d]
        /\ UNCHANGED <<at, pending, lights, expected>>
    BY <1>0, <1>3 DEF HandlesInfo
  <2>2. \A i \in DOMAIN pending[b] : link[b] = "linked" => ~pending[b][i].firm
    BY <1>0 DEF Cleared
  <2>3. \A c \in Cards, d \in Boards : At(d, c) => At(d, c)'
    BY <1>0, <1>3 DEF At, HandlesInfo
  <2>4. \A c \in Cards, d \in Boards : At(d, c)' => (d = b /\ link[b] = "linked") \/ At(d, c)
    BY <2>1 DEF At
  <2>5. ASSUME NEW c \in Cards PROVE Owed(c)'
    BY <2>1, <2>2, <2>3, <2>4 DEF Expecting, Owed
  <2> QED BY <2>1, <2>5 DEF Expecting
<1> QED BY <1>1, <1>2, <1>3

\* What is owed to a card when the first order of a board is gone and is not the last
\* one for this card.
LEMMA RestExpects ==
  ASSUME IInv, Expecting, NEW b \in Boards, link[b] = "ready", pending[b] # <<>>,
         pending' = [pending EXCEPT ![b] = Tail(@)], UNCHANGED <<link, at>>,
         NEW c \in Cards, expected'[c] = expected[c],
         c # Head(pending[b]).to \/ c \in Named(Tail(pending[b])),
         lights'[c] = lights[c] \/ (at[b] = c /\ c \in Named(Tail(pending[b])))
  PROVE  Owed(c)'
<1>1. pending \in [Boards -> Seq(Order)] /\ pending[b] \in Seq(Order)
  BY DEF IInv, BInv, BoardTypes
<1>2. pending'[b] = Tail(pending[b]) /\ \A d \in Boards : d # b => pending'[d] = pending[d]
  BY <1>1
<1>3. ASSUME NEW d \in Boards, NEW i \in DOMAIN pending'[d], LastFor(pending'[d], c, i)
      PROVE  \E j \in DOMAIN pending[d] : LastFor(pending[d], c, j) /\ pending'[d][i] = pending[d][j]
  <2>1. CASE d = b
    BY <1>1, <1>2, <1>3, <2>1, NamedTail
  <2>2. CASE d # b
    BY <1>2, <1>3, <2>2
  <2> QED BY <2>1, <2>2
<1>4. ASSUME NEW d \in Boards PROVE c \in Named(pending'[d]) <=> c \in Named(pending[d])
  <2>1. CASE d = b
    BY <1>1, <1>2, <2>1, NamedTail
  <2>2. CASE d # b
    BY <1>2, <2>2
  <2> QED BY <2>1, <2>2
<1>5. \A d \in Boards : At(d, c)' <=> At(d, c)
  BY DEF At
<1>6. ASSUME expected[c] # NoLogo, \A d \in Boards : At(d, c) => c \notin Named(pending[d])
      PROVE  lights'[c] = Ordered(expected[c])
  <2>1. lights[c] = Ordered(expected[c])
    BY <1>6 DEF Expecting, Owed
  <2>2. CASE at[b] = c /\ c \in Named(Tail(pending[b]))
    BY <1>2, <1>4, <1>6, <2>2 DEF At
  <2> QED BY <2>1, <2>2
<1>7. ASSUME expected[c] # NoLogo, NEW d \in Boards, At(d, c),
             NEW i \in DOMAIN pending'[d], LastFor(pending'[d], c, i), pending'[d][i].firm
      PROVE  pending'[d][i].logo = expected[c]
  BY <1>3, <1>7 DEF Expecting, Owed
<1> QED BY <1>4, <1>5, <1>6, <1>7 DEF Owed
\* The first order of a board is lost, or carried out.
LEMMA OrderGone ==
  ASSUME IInv, Expecting, NEW b \in Boards,
         LosesOrder(b) \/ \E S, T \in SUBSET Paths : Carries(b, S, T)
  PROVE  Expecting'
<1> DEFINE r == Head(pending[b])
           rest == Named(Tail(pending[b]))
<1>0. /\ link[b] = "ready" /\ pending[b] # <<>> /\ pending' = [pending EXCEPT ![b] = Tail(@)]
      /\ UNCHANGED <<link, at>>
  BY DEF LosesOrder, Carries, linkVars
<1>1. /\ pending[b] \in Seq(Order) /\ lights \in [Cards -> [Paths -> Data]]
      /\ pending \in [Boards -> Seq(Order)]
  BY DEF IInv, BInv, BoardTypes
<1>2. ASSUME NEW U, Uncertain(U)
      PROVE  /\ expected' \in [Cards -> 0..2 \cup {NoLogo}]
             /\ \A c \in Cards : IF c \in U THEN Owed(c)' ELSE expected'[c] = expected[c]
  BY <1>2 DEF Expecting, Uncertain, Owed
<1>3. CASE LosesOrder(b)
  <2>1. Uncertain({r.to} \ rest) /\ UNCHANGED lights
    BY <1>3 DEF LosesOrder
  <2>2. ASSUME NEW c \in Cards PROVE Owed(c)'
    <3>1. CASE c \in {r.to} \ rest
      BY <1>2, <2>1, <3>1
    <3>2. CASE c \notin {r.to} \ rest
      <4>1. expected'[c] = expected[c] /\ lights'[c] = lights[c] /\ (c # r.to \/ c \in rest)
        BY <1>2, <2>1, <3>2
      <4> QED BY <1>0, <4>1, RestExpects
    <3> QED BY <3>1, <3>2
  <2> QED BY <1>2, <2>1, <2>2 DEF Expecting
<1>4. ASSUME NEW S \in SUBSET Paths, NEW T \in SUBSET Paths, Carries(b, S, T) PROVE Expecting'
  <2> DEFINE full == MakesCertain(b, r, S)
  <2>0. at[b] \in Cards
    BY <1>4, CarriesTypes DEF IInv
  <2>1. Uncertain(IF full THEN {} ELSE {r.to, at[b]} \ rest)
    BY <1>4 DEF Carries
  <2>2. /\ lights'[at[b]] = [p \in Paths |-> IF p \in S THEN Ordered(r.logo)[p] ELSE lights[at[b]][p]]
        /\ \A c \in Cards : c # at[b] => lights'[c] = lights[c]
    BY <1>1, <1>4, <2>0 DEF Carries
  <2>3. CASE ~full
    <3>1. ASSUME NEW c \in Cards PROVE Owed(c)'
      <4>1. CASE c \in {r.to, at[b]} \ rest
        BY <1>2, <2>1, <2>3, <4>1
      <4>2. CASE c \notin {r.to, at[b]} \ rest
        <5>1. expected'[c] = expected[c] /\ (c # r.to \/ c \in rest)
          BY <1>2, <2>1, <2>3, <4>2
        <5>2. lights'[c] = lights[c] \/ (at[b] = c /\ c \in rest)
          BY <2>2, <4>2
        <5> QED BY <1>0, <5>1, <5>2, RestExpects
      <4> QED BY <4>1, <4>2
    <3> QED BY <1>2, <2>1, <3>1 DEF Expecting
  <2>4. CASE full
    <3>0. S = Paths /\ r.to = at[b] /\ r.firm
      BY <2>4 DEF MakesCertain
    <3>1. expected' \in [Cards -> 0..2 \cup {NoLogo}] /\ \A c \in Cards : expected'[c] = expected[c]
      BY <1>2, <2>1, <2>4
    <3>2. ASSUME NEW c \in Cards, c # at[b] \/ c \in rest PROVE Owed(c)'
      BY <1>0, <2>2, <3>0, <3>1, <3>2, RestExpects
    <3>3. ASSUME at[b] \notin rest, expected[at[b]] # NoLogo PROVE Owed(at[b])'
      <4> DEFINE c == at[b]
      <4>1. pending'[b] = Tail(pending[b]) /\ \A d \in Boards : At(d, c)' => d = b
        BY <1>0, <1>1, <2>0, PlayOutAssumption DEF At, IInv, BInv, Apart
      <4>2. lights'[c] = Ordered(r.logo)
        BY <2>2, <3>0 DEF Ordered
      <4>3. LastFor(pending[b], c, 1) /\ pending[b][1] = r
        BY <1>0, <1>1, <3>0, <3>3, NamedTail
      <4>4. r.logo = expected[c]
        <5>1. 1 \in DOMAIN pending[b] /\ pending[b][1].firm
          BY <3>0, <4>3 DEF LastFor
        <5>2. At(b, c) /\ Owed(c)
          BY <1>0, <2>0 DEF At, Expecting
        <5> QED BY <3>3, <4>3, <5>1, <5>2 DEF Owed
      <4>5. \A i \in DOMAIN pending'[b] : ~LastFor(pending'[b], c, i)
        BY <3>3, <4>1 DEF LastFor, Named
      <4> HIDE DEF r
      <4>6. c' = c
        BY <1>0
      <4>7. Owed(c)'
        BY <2>0, <3>1, <4>1, <4>2, <4>4, <4>5, <4>6 DEF Owed
      <4> QED BY <4>6, <4>7
    <3>4. expected[at[b]] = NoLogo => Owed(at[b])'
      BY <1>0, <2>0, <3>1 DEF Owed
    <3> QED BY <1>0, <2>0, <3>1, <3>2, <3>3, <3>4 DEF Expecting
  <2> QED BY <2>3, <2>4
<1> QED BY <1>3, <1>4

\* No step breaks what is expected.
LEMMA ExpectingStep == IInv /\ Expecting /\ [PlayNext]_playVars => Expecting'
<1> SUFFICES ASSUME IInv, Expecting, [PlayNext]_playVars PROVE Expecting'
  OBVIOUS
<1>1. CASE UNCHANGED <<link, at, pending, lights, expected>>
  BY <1>1 DEF Expecting, Owed, At
<1>2. CASE PluginStep \/ Requests \/ UNCHANGED playVars
  BY <1>1, <1>2, RequestsLeaveBoards DEF boardVars, linkVars, dataVars
<1>3. CASE SetLogoAPI \/ GetBoards
  BY <1>1, <1>3, LooksKeeps, PushExpects DEF SetLogoAPI, IInv, boardVars, linkVars, dataVars
<1>4. CASE BoardSteps
  <2>1. PICK b \in Boards :
          \/ ClearQueue(b) \/ ConnectFails(b) \/ CardLeaves(b) \/ LosesCard(b)
          \/ \E c \in Cards : Connects(b, c)
          \/ \E info \in {"complete", "partial"} : CardTellsInfo(b, info)
          \/ HandlesInfo(b) \/ HandlesValues(b) \/ LosesOrder(b)
          \/ \E S, T \in SUBSET Paths : Carries(b, S, T)
    BY <1>4 DEF BoardSteps
  <2>2. CASE HandlesValues(b) \/ \E info \in {"complete", "partial"} : CardTellsInfo(b, info)
    BY <1>1, <2>2 DEF HandlesValues, CardTellsInfo, linkVars
  <2> QED BY <2>1, <2>2, ConnectionExpects, OrderGone
<1>5. CASE OtherClients
  <2>1. PICK c \in Cards, p \in Paths, v \in Vectors : SomebodyElse(c, p, v)
    BY <1>5 DEF OtherClients
  <2>2. /\ UNCHANGED <<link, at, pending>> /\ \A d \in Cards : d # c => lights'[d] = lights[d]
        /\ expected' = [d \in Cards |-> IF d \in {c} THEN NoLogo ELSE expected[d]]
    BY <2>1 DEF SomebodyElse, Uncertain, linkVars, IInv, BInv, BoardTypes
  <2>3. expected' \in [Cards -> 0..2 \cup {NoLogo}]
    BY <2>2 DEF Expecting
  <2> QED BY <2>2, <2>3 DEF Expecting, Owed, At
<1> QED BY <1>2, <1>3, <1>4, <1>5 DEF PlayNext

-----------------------------------------------------------------------------
(* What a board shows of its card.                                         *)

Silent(s, p) == \A i \in DOMAIN s : p \notin DOMAIN s[i].tells

\* The last message that tells of path p tells v.
Agrees(s, p, v) ==
  \A i \in DOMAIN s :
    p \in DOMAIN s[i].tells /\ (\A j \in DOMAIN s : j > i => p \notin DOMAIN s[j].tells)
      => s[i].tells[p] = v

\* What a board will show of path p, once it has handled its messages.
Current(b, p) ==
  /\ Agrees(inbox[b], p, lights[at[b]][p])
  /\ link[b] = "ready" /\ Silent(inbox[b], p) => shown[b][p] = lights[at[b]][p]

\* A card that took half an order and told of none is uncertain, or has another order.
Excused(b) ==
  link[b] = "ready" /\ (expected[at[b]] = NoLogo \/ at[b] \in Named(pending[b]))

Telling(b) == at[b] # NoCard => (\A p \in Paths : Current(b, p)) \/ Excused(b)

LEMMA TellsAppend ==
  ASSUME NEW s \in Seq(Messages), NEW m \in Messages, NEW p
  PROVE  /\ p \in DOMAIN m.tells => /\ Agrees(Append(s, m), p, m.tells[p])
                                    /\ ~Silent(Append(s, m), p)
         /\ p \notin DOMAIN m.tells => /\ \A v : Agrees(s, p, v) => Agrees(Append(s, m), p, v)
                                       /\ Silent(Append(s, m), p) => Silent(s, p)
<1> DEFINE t == Append(s, m)
<1>1. /\ Len(s) \in Nat /\ DOMAIN s = 1..Len(s) /\ DOMAIN t = 1..(Len(s) + 1)
      /\ t[Len(s) + 1] = m /\ \A i \in 1..Len(s) : t[i] = s[i]
  OBVIOUS
<1> HIDE DEF t
<1>2. /\ \A i \in DOMAIN t : (i \in DOMAIN s /\ t[i] = s[i]) \/ i = Len(s) + 1
      /\ \A i \in DOMAIN s : i \in DOMAIN t /\ Len(s) + 1 > i /\ t[i] = s[i]
      /\ Len(s) + 1 \in DOMAIN t
  BY <1>1
<1>3. ASSUME p \in DOMAIN m.tells PROVE Agrees(t, p, m.tells[p]) /\ ~Silent(t, p)
  BY <1>1, <1>2, <1>3 DEF Agrees, Silent
<1>4. ASSUME p \notin DOMAIN m.tells, NEW v, Agrees(s, p, v) PROVE Agrees(t, p, v)
  <2> SUFFICES ASSUME NEW i \in DOMAIN t, p \in DOMAIN t[i].tells,
                      \A j \in DOMAIN t : j > i => p \notin DOMAIN t[j].tells
               PROVE  t[i].tells[p] = v
    BY DEF Agrees
  <2>1. i \in DOMAIN s /\ t[i] = s[i]
    BY <1>1, <1>2, <1>4
  <2>2. \A j \in DOMAIN s : j > i => p \notin DOMAIN s[j].tells
    BY <1>2
  <2> QED BY <1>4, <2>1, <2>2 DEF Agrees
<1>5. Silent(t, p) => Silent(s, p)
  BY <1>2 DEF Silent
<1> QED BY <1>3, <1>4, <1>5 DEF t

LEMMA TellsTail ==
  ASSUME NEW s \in Seq(Messages), s # <<>>, NEW p, NEW v, Agrees(s, p, v)
  PROVE  /\ Agrees(Tail(s), p, v)
         /\ Silent(Tail(s), p) /\ p \in DOMAIN Head(s).tells => Head(s).tells[p] = v
         /\ Silent(Tail(s), p) /\ p \notin DOMAIN Head(s).tells => Silent(s, p)
<1> DEFINE t == Tail(s)
<1>1. /\ Len(s) \in Nat \ {0} /\ DOMAIN s = 1..Len(s) /\ DOMAIN t = 1..(Len(s) - 1)
      /\ Head(s) = s[1] /\ \A i \in 1..(Len(s) - 1) : t[i] = s[i + 1]
  OBVIOUS
<1> HIDE DEF t
<1>2. /\ \A i \in DOMAIN t : i + 1 \in DOMAIN s /\ t[i] = s[i + 1]
      /\ \A j \in DOMAIN s : j # 1 => j - 1 \in DOMAIN t /\ t[j - 1] = s[j]
      /\ 1 \in DOMAIN s
  BY <1>1
<1>3. Agrees(t, p, v)
  <2> SUFFICES ASSUME NEW i \in DOMAIN t, p \in DOMAIN t[i].tells,
                      \A j \in DOMAIN t : j > i => p \notin DOMAIN t[j].tells
               PROVE  t[i].tells[p] = v
    BY DEF Agrees
  <2>1. i + 1 \in DOMAIN s /\ t[i] = s[i + 1]
    BY <1>2
  <2>2. ASSUME NEW j \in DOMAIN s, j > i + 1 PROVE p \notin DOMAIN s[j].tells
    <3>1. j - 1 \in DOMAIN t /\ t[j - 1] = s[j] /\ j - 1 > i
      BY <1>1, <1>2, <2>2
    <3> QED BY <3>1
  <2> QED BY <2>1, <2>2 DEF Agrees
<1>4. ASSUME Silent(t, p) PROVE \A j \in DOMAIN s : j # 1 => p \notin DOMAIN s[j].tells
  BY <1>2, <1>4 DEF Silent
<1>5. ASSUME Silent(t, p), p \in DOMAIN s[1].tells PROVE s[1].tells[p] = v
  <2>1. \A j \in DOMAIN s : j > 1 => p \notin DOMAIN s[j].tells
    BY <1>1, <1>4, <1>5
  <2> QED BY <1>2, <1>5, <2>1 DEF Agrees
<1>6. Silent(t, p) /\ p \notin DOMAIN s[1].tells => Silent(s, p)
  BY <1>4 DEF Silent
<1> QED BY <1>1, <1>3, <1>5, <1>6 DEF t

\* A board nothing happens to, and whose card keeps its lights.
LEMMA StaysTold ==
  ASSUME NEW b \in Boards, Telling(b),
         UNCHANGED <<link[b], at[b], pending[b], inbox[b], shown[b]>>,
         at[b] # NoCard => lights'[at[b]] = lights[at[b]],
         at[b] # NoCard => expected'[at[b]] = expected[at[b]] \/ expected'[at[b]] = NoLogo
  PROVE  Telling(b)'
<1>1. ASSUME at[b] # NoCard, NEW p \in Paths, Current(b, p) PROVE Current(b, p)'
  BY <1>1 DEF Current
<1>2. ASSUME at[b] # NoCard, Excused(b) PROVE Excused(b)'
  BY <1>2 DEF Excused
<1> QED BY <1>1, <1>2 DEF Telling

\* Nothing but a push makes a card's logo certain.
LEMMA UncertainStays ==
  ASSUME NEW U, Uncertain(U), NEW c \in Cards
  PROVE  /\ expected'[c] = expected[c] \/ expected'[c] = NoLogo
         /\ c \in U => expected'[c] = NoLogo
BY DEF Uncertain

LEMMA PushTells ==
  ASSUME IInv, Pushes, NEW b \in Boards, Expecting, Telling(b)
  PROVE  Telling(b)'
<1>1. /\ turn \in Boards /\ Pushed \in Order
      /\ pending[turn] \in Seq(Order) /\ pending'[turn] = Append(pending[turn], Pushed)
      /\ \A d \in Boards : d # turn => pending'[d] = pending[d]
      /\ UNCHANGED <<link, at, id, shown, inbox, lights>>
  BY PushedType DEF IInv
<1>2. expected' = [expected EXCEPT ![Pushed.to] =
                     IF Pushed.firm /\ at[turn] = Pushed.to THEN Pushed.logo ELSE NoLogo]
  BY DEF Pushes, Pushed
<1>3. at[b] \in Cards \cup {NoCard} /\ expected \in [Cards -> 0..2 \cup {NoLogo}]
  BY DEF IInv, BInv, BoardTypes, Expecting
<1> HIDE DEF Pushed
<1>4. CASE b # turn
  <2>1. ASSUME at[b] # NoCard PROVE expected'[at[b]] = expected[at[b]] \/ expected'[at[b]] = NoLogo
    <3>1. at[b] # at[turn]
      BY <1>1, <1>4, <2>1 DEF IInv, BInv, Apart
    <3> QED BY <1>2, <1>3, <2>1, <3>1
  <2> QED BY <1>1, <1>4, <2>1, StaysTold
<1>5. CASE b = turn /\ at[b] # NoCard
  <2>1. at[b] \in Named(pending[b]) \/ at[b] = Pushed.to => at[b] \in Named(pending'[b])
    <3> DEFINE q == pending[turn]
               t == pending'[turn]
    <3>1. /\ q \in Seq(Order) /\ t \in Seq(Order) /\ Len(t) = Len(q) + 1 /\ t[Len(t)] = Pushed
          /\ \A i \in 1..Len(q) : t[i] = q[i]
      BY <1>1
    <3> HIDE DEF q, t
    <3>2. \A c : c \in Named(t) <=> c = Pushed.to \/ c \in Named(q)
      BY <1>1, <3>1, NamedAppend
    <3> QED BY <1>5, <3>2 DEF q, t
  <2>2. at[b] # Pushed.to => expected'[at[b]] = expected[at[b]]
    BY <1>2, <1>3, <1>5
  <2>3. ASSUME NEW p \in Paths, Current(b, p) PROVE Current(b, p)'
    BY <1>1, <2>3 DEF Current
  <2>4. Excused(b) => Excused(b)'
    BY <1>1, <2>1, <2>2 DEF Excused
  <2> QED BY <1>1, <1>5, <2>3, <2>4 DEF Telling
<1> QED BY <1>1, <1>4, <1>5 DEF Telling

\* The connection of a board, for this board and the others.
LEMMA ConnectionTells ==
  ASSUME IInv, NEW b \in Boards, NEW d \in Boards, Telling(d), Expecting,
         \/ ClearQueue(b) \/ ConnectFails(b) \/ CardLeaves(b) \/ LosesCard(b)
         \/ \E c \in Cards : Connects(b, c)
  PROVE  Telling(d)'
<1> USE DEF Goes, Away, linkVars, dataVars
<1>0. /\ NoCard \notin Cards /\ Fine(b)
      /\ link \in [Boards -> {"away", "trying", "linked", "ready"}]
      /\ at \in [Boards -> Cards \cup {NoCard}]
      /\ pending \in [Boards -> Seq(Order)] /\ inbox \in [Boards -> Seq(Messages)]
  BY PlayOutAssumption DEF IInv, BInv, BoardTypes
<1>1. UNCHANGED <<shown, lights>> /\ \A c \in Cards : expected'[c] = expected[c] \/ expected'[c] = NoLogo
  BY UncertainStays DEF ClearQueue, ConnectFails, CardLeaves, LosesCard, Connects
<1>2. CASE d # b
  <2>1. UNCHANGED <<link[d], at[d], pending[d], inbox[d]>>
    BY <1>0, <1>2 DEF ClearQueue, ConnectFails, CardLeaves, LosesCard, Connects
  <2> QED BY <1>0, <1>1, <2>1, StaysTold
<1>3. CASE d = b /\ ~\E c \in Cards : Connects(b, c)
  <2>1. at'[b] = NoCard
    BY <1>0, <1>3 DEF ClearQueue, ConnectFails, CardLeaves, LosesCard, Fine
  <2> QED BY <1>3, <2>1 DEF Telling
<1>4. ASSUME d = b, NEW c \in Cards, Connects(b, c) PROVE Telling(b)'
  <2>1. link'[b] = "linked" /\ inbox'[b] = <<>>
    BY <1>0, <1>4 DEF Connects, Fine
  <2>2. DOMAIN inbox'[b] = {}
    BY <2>1
  <2> QED BY <2>1, <2>2 DEF Telling, Current, Agrees
<1> QED BY <1>2, <1>3, <1>4

\* A message that tells what is true.
LEMMA TrueTold ==
  ASSUME NEW b \in Boards, inbox \in [Boards -> Seq(Messages)], NEW m \in Messages,
         inbox'[b] = Append(inbox[b], m), UNCHANGED <<link[b], at[b], shown[b]>>,
         NEW p \in Paths,
         p \in DOMAIN m.tells => m.tells[p] = lights'[at[b]][p],
         p \notin DOMAIN m.tells => lights'[at[b]][p] = lights[at[b]][p] /\ Current(b, p)
  PROVE  Current(b, p)'
<1>1. inbox[b] \in Seq(Messages)
  OBVIOUS
<1>2. CASE p \in DOMAIN m.tells
  <2>1. Agrees(inbox'[b], p, lights'[at[b]][p]) /\ ~Silent(inbox'[b], p)
    BY <1>1, <1>2, TellsAppend
  <2> QED BY <2>1 DEF Current
<1>3. CASE p \notin DOMAIN m.tells
  <2>1. Agrees(inbox'[b], p, lights[at[b]][p]) /\ (Silent(inbox'[b], p) => Silent(inbox[b], p))
    BY <1>1, <1>3, TellsAppend DEF Current
  <2> QED BY <1>3, <2>1 DEF Current
<1> QED BY <1>2, <1>3

\* What is handled.
LEMMA TrueHandled ==
  ASSUME NEW b \in Boards, inbox \in [Boards -> Seq(Messages)], Handled(b),
         shown \in [Boards -> [Paths -> Data \cup {NoData}]],
         UNCHANGED <<at[b], lights>>,
         link'[b] = "ready" => /\ Overrides(b, Head(inbox[b]))
                               /\ link[b] = "ready" \/ DOMAIN Head(inbox[b]).tells = Paths,
         NEW p \in Paths, Current(b, p)
  PROVE  Current(b, p)'
<1>1. /\ inbox[b] \in Seq(Messages) /\ inbox[b] # <<>> /\ inbox'[b] = Tail(inbox[b])
      /\ Agrees(inbox[b], p, lights[at[b]][p])
  BY DEF Handled, Current
<1> DEFINE v == lights[at[b]][p]
           m == Head(inbox[b])
<1>2. /\ Agrees(inbox'[b], p, v)
      /\ Silent(inbox'[b], p) /\ p \in DOMAIN m.tells => m.tells[p] = v
      /\ Silent(inbox'[b], p) /\ p \notin DOMAIN m.tells => Silent(inbox[b], p)
  BY <1>1, TellsTail
<1>3. ASSUME link'[b] = "ready", Silent(inbox'[b], p) PROVE shown'[b][p] = v
  <2>1. shown'[b][p] = IF p \in DOMAIN m.tells THEN m.tells[p] ELSE shown[b][p]
    BY <1>3 DEF Overrides
  <2>2. CASE p \in DOMAIN m.tells
    BY <1>2, <1>3, <2>1, <2>2
  <2>3. CASE p \notin DOMAIN m.tells
    BY <1>2, <1>3, <2>1, <2>3 DEF Current
  <2> QED BY <2>2, <2>3
<1>4. v' = v
  OBVIOUS
<1> QED BY <1>2, <1>3, <1>4 DEF Current

LEMMA ToldTells ==
  ASSUME IInv, NEW b \in Boards, NEW d \in Boards, Telling(d), Expecting,
         \/ \E info \in {"complete", "partial"} : CardTellsInfo(b, info)
         \/ HandlesInfo(b) \/ HandlesValues(b)
  PROVE  Telling(d)'
<1> USE DEF Away, linkVars
<1>0. /\ NoCard \notin Cards /\ Fine(b) /\ BoardTypes
      /\ link \in [Boards -> {"away", "trying", "linked", "ready"}]
      /\ at \in [Boards -> Cards \cup {NoCard}]
      /\ inbox \in [Boards -> Seq(Messages)]
      /\ shown \in [Boards -> [Paths -> Data \cup {NoData}]]
      /\ lights \in [Cards -> [Paths -> Data]]
  BY PlayOutAssumption DEF IInv, BInv, BoardTypes
<1>1. UNCHANGED <<at, pending, lights, expected>>
  BY DEF CardTellsInfo, HandlesInfo, HandlesValues
<1>2. CASE d # b
  <2>1. UNCHANGED <<link[d], inbox[d], shown[d]>>
    BY <1>0, <1>2 DEF CardTellsInfo, Told, HandlesInfo, HandlesValues, Handled, Goes, Overrides, Mixes
  <2> QED BY <1>1, <2>1, StaysTold
<1>3. ASSUME d = b, at[b] # NoCard, NEW info \in {"complete", "partial"}, CardTellsInfo(b, info)
      PROVE  Telling(b)'
  <2> DEFINE m == Message(at[b], info, lights[at[b]])
  <2>1. /\ m \in Messages /\ m.tells = lights[at[b]] /\ DOMAIN m.tells = Paths
        /\ inbox'[b] = Append(inbox[b], m) /\ UNCHANGED <<link, shown>>
    BY <1>0, <1>3 DEF CardTellsInfo, Told, Messages, Message
  <2> HIDE DEF m
  <2>2. \A p \in Paths : Current(b, p)'
    BY <1>0, <1>1, <2>1, TrueTold
  <2> QED BY <2>2 DEF Telling
<1> DEFINE m == Head(inbox[b])
<1>4. ASSUME d = b, at[b] # NoCard, HandlesInfo(b) PROVE Telling(b)'
  <2>1. /\ Handled(b) /\ m.info # "none"
        /\ (link'[b] = "ready" /\ Overrides(b, m)) \/ link'[b] = link[b]
    BY <1>0, <1>4 DEF HandlesInfo, Goes
  <2>2. inbox[b] \in Seq(Messages) /\ inbox[b] # <<>>
    BY <1>0, <2>1 DEF Handled
  <2>3. m = inbox[b][1] /\ m \in Messages /\ 1 \in DOMAIN inbox[b]
    BY <2>2
  <2>4. link[b] = "linked"
    BY <1>0, <2>1, <2>3 DEF Fine, Handled
  <2>5. DOMAIN m.tells = Paths
    BY <2>1, <2>3 DEF Messages
  <2>6. \A p \in Paths : Current(b, p)
    BY <1>4, <2>4 DEF Telling, Excused
  <2>7. \A p \in Paths : Current(b, p)'
    BY <1>0, <1>1, <2>1, <2>4, <2>5, <2>6, TrueHandled
  <2> QED BY <2>7 DEF Telling
<1>5. ASSUME d = b, at[b] # NoCard, HandlesValues(b) PROVE Telling(b)'
  <2>1. Handled(b) /\ UNCHANGED link /\ (link[b] = "ready" => Overrides(b, m))
    BY <1>5 DEF HandlesValues
  <2>2. ASSUME NEW p \in Paths, Current(b, p) PROVE Current(b, p)'
    BY <1>0, <1>1, <2>1, <2>2, TrueHandled
  <2>3. Excused(b) => Excused(b)'
    BY <1>1, <2>1 DEF Excused
  <2> QED BY <1>1, <1>5, <2>2, <2>3 DEF Telling
<1> QED BY <1>1, <1>2, <1>3, <1>4, <1>5 DEF Telling

\* The first order of a board is gone: the others are not concerned.
LEMMA OrderTells ==
  ASSUME IInv, NEW b \in Boards, NEW d \in Boards, Telling(d), Expecting,
         LosesOrder(b) \/ \E S, T \in SUBSET Paths : Carries(b, S, T)
  PROVE  Telling(d)'
<1> USE DEF Away, linkVars
<1> DEFINE r == Head(pending[b])
           rest == Named(Tail(pending[b]))
<1>0. /\ NoCard \notin Cards /\ Apart
      /\ at \in [Boards -> Cards \cup {NoCard}]
      /\ pending \in [Boards -> Seq(Order)] /\ inbox \in [Boards -> Seq(Messages)]
      /\ lights \in [Cards -> [Paths -> Data]]
  BY PlayOutAssumption DEF IInv, BInv, BoardTypes
<1>1. /\ pending[b] # <<>> /\ pending' = [pending EXCEPT ![b] = Tail(@)]
      /\ UNCHANGED <<link, at, shown>>
      /\ \A c \in Cards : expected'[c] = expected[c] \/ expected'[c] = NoLogo
  BY UncertainStays DEF LosesOrder, Carries
<1>2. CASE d # b
  <2>1. UNCHANGED <<pending[d], inbox[d]>>
    BY <1>0, <1>1, <1>2 DEF LosesOrder, Carries, Told
  <2>2. at[d] # NoCard => lights'[at[d]] = lights[at[d]]
    BY <1>0, <1>2 DEF LosesOrder, Carries, Apart
  <2> QED BY <1>0, <1>1, <2>1, <2>2, StaysTold
<1>3. pending'[b] = Tail(pending[b]) /\ \A c \in Cards : c \in Named(pending[b]) => c = r.to \/ c \in rest
  BY <1>0, <1>1, NamedTail
<1>4. ASSUME Excused(b), at[b] # NoCard, at[b] = r.to /\ at[b] \notin rest => expected'[at[b]] = NoLogo
      PROVE  Excused(b)'
  <2>1. CASE expected[at[b]] = NoLogo
    BY <1>0, <1>1, <1>4, <2>1 DEF Excused
  <2>2. CASE at[b] \in Named(pending[b])
    BY <1>0, <1>1, <1>3, <1>4, <2>2 DEF Excused
  <2> QED BY <1>4, <2>1, <2>2 DEF Excused
<1>5. CASE d = b /\ at[b] # NoCard /\ LosesOrder(b)
  <2>1. UNCHANGED <<inbox, lights>> /\ Uncertain({r.to} \ rest)
    BY <1>5 DEF LosesOrder
  <2>2. ASSUME NEW p \in Paths, Current(b, p) PROVE Current(b, p)'
    BY <1>1, <2>1, <2>2 DEF Current
  <2>3. Excused(b) => Excused(b)'
    BY <1>0, <1>4, <1>5, <2>1, UncertainStays
  <2> QED BY <1>1, <1>5, <2>2, <2>3 DEF Telling
<1>6. ASSUME d = b, NEW S \in SUBSET Paths, NEW T \in SUBSET Paths, Carries(b, S, T)
      PROVE  Telling(b)'
  <2> DEFINE set == Ordered(r.logo)
             m == Message(at[b], "none", [p \in T |-> set[p]])
  <2>1. at[b] \in Cards /\ m \in Messages /\ link[b] = "ready"
    BY <1>6, CarriesTypes DEF IInv
  <2>2. /\ inbox'[b] = Append(inbox[b], m) /\ (T = S \/ (T = {} /\ S = {2}))
        /\ lights'[at[b]] = [p \in Paths |-> IF p \in S THEN set[p] ELSE lights[at[b]][p]]
        /\ Uncertain(IF MakesCertain(b, r, S) THEN {} ELSE {r.to, at[b]} \ rest)
    BY <1>0, <1>6, <2>1 DEF Carries, Told
  <2>3. DOMAIN m.tells = T /\ \A p \in T : m.tells[p] = set[p]
    BY DEF Message
  <2> HIDE DEF m, set
  <2>4. ASSUME S = T, NEW p \in Paths, p \in T \/ Current(b, p) PROVE Current(b, p)'
    <3>1. /\ p \in DOMAIN m.tells => m.tells[p] = lights'[at[b]][p]
          /\ p \notin DOMAIN m.tells => lights'[at[b]][p] = lights[at[b]][p] /\ Current(b, p)
      BY <2>2, <2>3, <2>4
    <3>2. UNCHANGED <<link[b], at[b], shown[b]>> /\ inbox'[b] = Append(inbox[b], m)
      BY <1>1, <2>2
    <3> QED BY <1>0, <2>1, <3>1, <3>2, TrueTold
  <2>5. CASE MakesCertain(b, r, S)
    <3>0. Paths # {2}
      BY DEF Paths
    <3>1. S = Paths /\ T = Paths
      BY <2>2, <2>5, <3>0 DEF MakesCertain
    <3> QED BY <2>4, <3>1 DEF Telling
  <2>6. CASE ~MakesCertain(b, r, S)
    <3>1. at[b] \notin rest => expected'[at[b]] = NoLogo
      BY <2>1, <2>2, <2>6, UncertainStays
    <3>2. Excused(b)'
      BY <1>1, <1>3, <2>1, <3>1 DEF Excused
    <3> QED BY <3>2 DEF Telling
  <2> QED BY <2>5, <2>6
<1> QED BY <1>1, <1>2, <1>5, <1>6 DEF Telling

LEMMA OthersTell ==
  ASSUME IInv, NEW b \in Boards, Telling(b), Expecting,
         NEW c \in Cards, NEW q \in Paths, NEW v \in Vectors, SomebodyElse(c, q, v)
  PROVE  Telling(b)'
<1> DEFINE m == Message(c, "none", [p \in {q} |-> v])
<1>0. /\ NoCard \notin Cards /\ at \in [Boards -> Cards \cup {NoCard}]
      /\ inbox \in [Boards -> Seq(Messages)] /\ lights \in [Cards -> [Paths -> Data]]
  BY PlayOutAssumption DEF IInv, BInv, BoardTypes
<1>1. /\ lights' = [lights EXCEPT ![c][q] = v] /\ UNCHANGED <<link, at, shown, pending>>
      /\ inbox'[b] = IF at[b] = c THEN Append(inbox[b], m) ELSE inbox[b]
      /\ Uncertain({c})
  BY DEF SomebodyElse, Away, linkVars
<1>2. DOMAIN m.tells = {q} /\ m.tells[q] = v /\ m \in Messages
  <2>1. {q} \in SUBSET Paths /\ [p \in {q} |-> v] \in [{q} -> Data]
    BY DEF Data
  <2> QED BY <2>1 DEF Messages, Message
<1> HIDE DEF m
<1>3. CASE at[b] # c
  <2>1. at[b] # NoCard => lights'[at[b]] = lights[at[b]]
    BY <1>0, <1>1, <1>3
  <2> QED BY <1>0, <1>1, <1>3, <2>1, StaysTold, UncertainStays
<1>4. CASE at[b] = c
  <2>1. ASSUME NEW p \in Paths, Current(b, p) PROVE Current(b, p)'
    <3>1. /\ p \in DOMAIN m.tells => m.tells[p] = lights'[at[b]][p]
          /\ p \notin DOMAIN m.tells => lights'[at[b]][p] = lights[at[b]][p]
      BY <1>0, <1>1, <1>2, <1>4
    <3> QED BY <1>0, <1>1, <1>2, <1>4, <2>1, <3>1, TrueTold
  <2>2. Excused(b) => Excused(b)'
    BY <1>1, <1>4, UncertainStays DEF Excused
  <2> QED BY <1>0, <1>1, <1>4, <2>1, <2>2 DEF Telling
<1> QED BY <1>3, <1>4

AllTell == \A b \in Boards : Telling(b)

LEMMA TellingStep == IInv /\ Expecting /\ AllTell /\ [PlayNext]_playVars => AllTell'
<1> SUFFICES ASSUME IInv, Expecting, AllTell, [PlayNext]_playVars, NEW d \in Boards
             PROVE  Telling(d)'
  BY DEF AllTell
<1>0. Telling(d)
  BY DEF AllTell
<1>1. CASE UNCHANGED <<boardVars, expected>>
  BY <1>0, <1>1, StaysTold DEF boardVars, linkVars, dataVars
<1>2. CASE PluginStep \/ Requests \/ UNCHANGED playVars
  BY <1>1, <1>2, RequestsLeaveBoards
<1>3. CASE SetLogoAPI \/ GetBoards
  BY <1>0, <1>1, <1>3, LooksKeeps, PushTells DEF SetLogoAPI, IInv
<1>4. CASE BoardSteps
  <2>1. PICK b \in Boards :
          \/ ClearQueue(b) \/ ConnectFails(b) \/ CardLeaves(b) \/ LosesCard(b)
          \/ \E c \in Cards : Connects(b, c)
          \/ \E info \in {"complete", "partial"} : CardTellsInfo(b, info)
          \/ HandlesInfo(b) \/ HandlesValues(b) \/ LosesOrder(b)
          \/ \E S, T \in SUBSET Paths : Carries(b, S, T)
    BY <1>4 DEF BoardSteps
  <2> QED BY <1>0, <2>1, ConnectionTells, ToldTells, OrderTells
<1>5. CASE OtherClients
  BY <1>0, <1>5, OthersTell DEF OtherClients
<1> QED BY <1>2, <1>3, <1>4, <1>5 DEF PlayNext

\* The list names the logo last ordered of the card of a settled board, whoever ordered
\* it and whatever other boards had the card before; if path 1 changed between the two
\* reads it may name none.
THEOREM LastOrderListedHolds == PlaySpec => LastOrderListed
<1>1. PlayInit => Expecting /\ AllTell
  <2> SUFFICES ASSUME PlayInit PROVE Expecting /\ AllTell
    OBVIOUS
  <2>1. expected = [c \in Cards |-> NoLogo] /\ at = [b \in Boards |-> NoCard]
    BY DEF PlayInit
  <2> QED BY <2>1 DEF Expecting, Owed, AllTell, Telling
<1>2. IInv /\ Expecting /\ AllTell /\ [PlayNext]_playVars =>
        [ReadsPath2 /\ Settled(turn) =>
           \/ ActiveLogo(first, shown[turn][2]) = expected[at[turn]]
           \/ ActiveLogo(first, shown[turn][2]) = NoLogo /\ first # shown[turn][1]]_playVars
  <2> SUFFICES ASSUME IInv, Expecting, AllTell, Settled(turn)
               PROVE  \/ ActiveLogo(first, shown[turn][2]) = expected[at[turn]]
                      \/ ActiveLogo(first, shown[turn][2]) = NoLogo /\ first # shown[turn][1]
    OBVIOUS
  <2> DEFINE b == turn
             e == expected[at[turn]]
  <2>1. /\ b \in Boards /\ at[b] \in Cards /\ link[b] = "ready" /\ pending[b] = <<>>
        /\ inbox[b] = <<>> /\ e # NoLogo
    BY DEF Settled, IInv, BInv, BoardTypes, Found
  <2>2. at[b] \notin Named(pending[b]) /\ \A p \in Paths : Silent(inbox[b], p)
    BY <2>1 DEF Named, Silent
  <2>3. \A p \in Paths : shown[b][p] = lights[at[b]][p]
    BY <2>1, <2>2, PlayOutAssumption DEF AllTell, Telling, Excused, Current
  <2>4. \A d \in Boards : At(d, at[b]) => at[b] \notin Named(pending[d])
    BY <2>1, <2>2, PlayOutAssumption DEF At, IInv, BInv, Apart
  <2>5. lights[at[b]] = Ordered(e) /\ e \in 0..2
    BY <2>1, <2>4 DEF Expecting, Owed
  <2>6. shown[b][1] = Hot(e) /\ shown[b][2] = Hot(Second(e))
    BY <2>3, <2>5 DEF Ordered, Paths
  <2> HIDE DEF e, b
  <2>7. /\ ActiveLogo(first, Hot(Second(e))) \in {e, NoLogo}
        /\ first = Hot(e) => ActiveLogo(first, Hot(Second(e))) = e
    BY <2>5, HalfOfOrder
  <2> QED BY <2>6, <2>7 DEF b, e
<1> QED BY Invariant, ExpectingStep, TellingStep, <1>1, <1>2, PTL DEF PlaySpec, LastOrderListed


-----------------------------------------------------------------------------
(* The shell: what the manager shows of the service agrees with what the   *)
(* process does.                                                           *)

StartPending == [state |-> "START_PENDING", accepts |-> FALSE]

Early == {"register", "startPending", "reportStart", "run", "lost"}

\* Without a manager nothing is reported.
Unmanaged == mode = "console" => scm = Stopped

\* Until RUNNING is reported no control is accepted, so the handler is idle.
NoControlYet ==
  mode = "service" /\ main \in Early \cup {"reportRunning"} =>
    /\ handler = "idle" /\ scm = StartPending
    /\ main # "reportRunning" => status = StartPending

\* STOPPED is stored at the end of serviceMain only, and nobody reports it earlier.
StoppedLast ==
  status.state = "STOPPED" \/ (mode = "service" /\ scm.state = "STOPPED") =>
    main \in {"none", "reportStopped", "done"}

\* Once STOP_PENDING is reported, RUNNING is no longer in status_.
Onwards == scm.state = "STOP_PENDING" => status.state # "RUNNING"

\* The controller lives while main_function waits.
Held == controller => main = "wait"

SInv == TypeOK /\ Unmanaged /\ NoControlYet /\ StoppedLast /\ Onwards /\ Held

\* The initial states satisfy the invariant.
LEMMA InitSInv == Init => SInv
<1> SUFFICES ASSUME Init PROVE SInv
  OBVIOUS
<1>1. Stopped \in Statuses
  BY DEF Stopped, Statuses, States
<1>2. starts \in 0..MaxStarts /\ faults \in 0..MaxFaults
  BY BoundsAssumption DEF Init
<1>3. TypeOK
  BY <1>1, <1>2 DEF Init, TypeOK
<1>4. Unmanaged /\ NoControlYet /\ StoppedLast /\ Onwards /\ Held
  BY DEF Init, Unmanaged, NoControlYet, StoppedLast, Onwards, Held, Early, Stopped
<1> QED BY <1>3, <1>4 DEF SInv

\* A new process begins in the state the invariant wants.
LEMMA StartsKeeps == SInv /\ Starts /\ UNCHANGED <<mode, present, remover, faults>>
                          /\ restart' \in BOOLEAN => SInv'
<1> SUFFICES ASSUME SInv, Starts, UNCHANGED <<mode, present, remover, faults>>,
                    restart' \in BOOLEAN
             PROVE  SInv'
  OBVIOUS
<1>1. /\ main' = "register" /\ handler' = "idle" /\ status' = StartPending
      /\ quit' = FALSE /\ controller' = FALSE /\ hindered' \subseteq {"overlap", "refused", "started"}
      /\ scm' = IF mode = "console" THEN scm ELSE StartPending
      /\ starts' \in 0..MaxStarts
  BY BoundsAssumption DEF Starts, StartPending, SInv, TypeOK
<1>2. mode \in {"service", "console"}
  BY ModesAssumption DEF SInv, TypeOK
<1>3. StartPending \in Statuses
  BY DEF StartPending, Statuses, States
<1>4. TypeOK'
  BY <1>1, <1>2, <1>3 DEF SInv, TypeOK
<1>5. (Unmanaged /\ NoControlYet /\ Held)'
  BY <1>1, <1>2 DEF SInv, Unmanaged, NoControlYet, Held
<1>6. (StoppedLast /\ Onwards)'
  BY <1>1, <1>2 DEF SInv, Unmanaged, StoppedLast, Onwards, StartPending, Stopped
<1> QED BY <1>4, <1>5, <1>6 DEF SInv

\* What the manager does.
LEMMA ManagerKeeps ==
  SInv /\ (Start \/ Restart \/ Crash \/ ProcessEnds \/ Control) => SInv'
<1> SUFFICES ASSUME SInv, Start \/ Restart \/ Crash \/ ProcessEnds \/ Control PROVE SInv'
  OBVIOUS
<1> USE DEF processVars, scmVars
<1>0. mode \in {"service", "console"} /\ Stopped \in Statuses
  BY ModesAssumption DEF SInv, TypeOK, Stopped, Statuses, States
<1>1. CASE Start
  <2>1. restart' \in BOOLEAN /\ Starts /\ UNCHANGED <<mode, present, remover, faults>>
    BY <1>1 DEF Start, SInv, TypeOK
  <2> QED BY <2>1, StartsKeeps
<1>2. CASE Restart
  <2>1. CASE Starts
    BY <1>2, <2>1, StartsKeeps DEF Restart
  <2>2. CASE UNCHANGED <<processVars, scm, starts, hindered>>
    <3>1. restart' = FALSE /\ UNCHANGED <<mode, processVars, scm, present, starts, remover,
                                         faults, hindered>>
      BY <1>2, <2>2 DEF Restart
    <3>2. TypeOK'
      BY <3>1 DEF SInv, TypeOK
    <3> QED BY <3>1, <3>2 DEF SInv, Unmanaged, NoControlYet, StoppedLast, Onwards, Held
  <2> QED BY <1>2, <2>1, <2>2 DEF Restart
<1>3. CASE Crash
  <2>1. /\ main' = "none" /\ handler' = "idle" /\ controller' = FALSE
        /\ UNCHANGED <<mode, status, quit, present, starts, remover, hindered>>
        /\ faults' \in 0..MaxFaults
    BY <1>3, BoundsAssumption DEF Crash, Fault, SInv, TypeOK
  <2>2. \/ mode = "console" /\ UNCHANGED <<scm, restart>>
        \/ scm' = Stopped /\ restart' \in BOOLEAN
    BY <1>3 DEF Crash
  <2>3. TypeOK'
    BY <1>0, <2>1, <2>2 DEF SInv, TypeOK
  <2> QED BY <2>1, <2>2, <2>3 DEF SInv, Unmanaged, NoControlYet, StoppedLast, Onwards, Held,
                                  Stopped, Early
<1>4. CASE ProcessEnds
  <2>1. /\ main' = "none"
        /\ mode = "service" => scm.state = "STOPPED"
        /\ mode = "console" => main = "done"
        /\ UNCHANGED <<mode, handler, status, quit, controller, scm, restart, present, starts,
                       remover, faults, hindered>>
    BY <1>0, <1>4 DEF ProcessEnds
  <2>2. main # "wait"
    BY <1>0, <2>1 DEF SInv, StoppedLast
  <2> QED BY <2>1, <2>2 DEF SInv, TypeOK, Unmanaged, NoControlYet, StoppedLast, Onwards, Held,
                            Early
<1>5. CASE Control
  <2>1. handler' = "stop" /\ hindered' \subseteq {"overlap", "refused", "started"}
    BY <1>5 DEF Control, BeginsControl, Overlap, SInv, TypeOK
  <2>2. mode = "service" => scm.accepts
    BY <1>5 DEF Control, Controllable
  <2> QED BY <1>5, <2>1, <2>2 DEF Control, SInv, TypeOK, Unmanaged, NoControlYet,
             StoppedLast, Onwards, Held, StartPending
<1> QED BY <1>1, <1>2, <1>3, <1>4, <1>5

\* What the handler does.
LEMMA HandlerKeeps == SInv /\ Handler => SInv'
<1> SUFFICES ASSUME SInv, Handler PROVE SInv'
  OBVIOUS
<1> USE DEF scmVars
<1>0. mode \in {"service", "console"}
  BY ModesAssumption DEF SInv, TypeOK
<1>1. CASE OnStop
  <2>1. status' \in Statuses /\ status'.state = "STOP_PENDING"
    BY <1>1 DEF OnStop, Stored, Statuses, States
  <2> QED BY <1>1, <2>1 DEF OnStop, SInv, TypeOK, Unmanaged, NoControlYet, StoppedLast,
                            Onwards, Held
<1>2. CASE HandlerReports
  BY <1>0, <1>2 DEF HandlerReports, Reports, SInv, TypeOK, Unmanaged, NoControlYet,
                    StoppedLast, Onwards, Held
<1>3. CASE SetsEvent
  BY <1>3 DEF SetsEvent, SInv, TypeOK, Unmanaged, NoControlYet, StoppedLast, Onwards, Held
<1> QED BY <1>1, <1>2, <1>3 DEF Handler

\* The stores and reports of serviceMain and run.
LEMMA StatusKeeps == SInv /\ StatusOfMain => SInv'
<1> SUFFICES ASSUME SInv, StatusOfMain PROVE SInv'
  OBVIOUS
<1> USE DEF scmVars, MainGoes, Stored, Reports, SInv, Unmanaged, NoControlYet, StoppedLast,
            Onwards, Held, Early, StartPending
<1>0. mode \in {"service", "console"}
  BY ModesAssumption DEF TypeOK
<1>1. CASE Stores("startPending", "reportStart", "START_PENDING")
  <2>1. TypeOK'
    BY <1>1 DEF Stores, TypeOK, Statuses, States
  <2> QED BY <1>0, <1>1, <2>1 DEF Stores, Stopped
<1>2. CASE ReportsOf("reportStart", "run")
  <2>1. TypeOK'
    BY <1>2 DEF ReportsOf, TypeOK
  <2> QED BY <1>0, <1>2, <2>1 DEF ReportsOf
<1>3. CASE Stores("run", "reportRunning", "RUNNING")
  <2>1. TypeOK'
    BY <1>3 DEF Stores, TypeOK, Statuses, States
  <2> QED BY <1>0, <1>3, <2>1 DEF Stores, Stopped
<1>4. CASE ReportsOf("reportRunning", "app")
  <2>1. TypeOK'
    BY <1>4 DEF ReportsOf, TypeOK
  <2> QED BY <1>0, <1>4, <2>1 DEF ReportsOf
<1>5. CASE Stores("stopping", "reportStopped", "STOPPED")
  <2>1. TypeOK'
    BY <1>5 DEF Stores, TypeOK, Statuses, States
  <2> QED BY <1>0, <1>5, <2>1 DEF Stores, Stopped
<1>6. CASE ReportsOf("reportStopped", "done")
  <2>1. TypeOK'
    BY <1>6 DEF ReportsOf, TypeOK
  <2> QED BY <1>0, <1>6, <2>1 DEF ReportsOf
<1> QED BY <1>1, <1>2, <1>3, <1>4, <1>5, <1>6 DEF StatusOfMain

\* The rest of serviceMain and main_function.
LEMMA MainKeeps == SInv /\ ServiceMain => SInv'
<1> SUFFICES ASSUME SInv, ServiceMain PROVE SInv'
  OBVIOUS
<1> USE DEF scmVars, MainGoes, Unmanaged, NoControlYet, StoppedLast, Onwards, Held, Early
<1>1. CASE Register
  BY <1>1 DEF Register, SInv, TypeOK
<1>2. CASE RegisterFails
  <2>1. faults' \in 0..MaxFaults
    BY <1>2, BoundsAssumption DEF RegisterFails, Fault, SInv, TypeOK
  <2> QED BY <1>2, <2>1 DEF RegisterFails, SInv, TypeOK
<1>3. CASE StatusOfMain
  BY <1>3, StatusKeeps
<1>4. CASE AppMain
  <2>1. /\ main = "app" /\ faults' \in 0..MaxFaults
        /\ hindered' \subseteq {"overlap", "refused", "started"}
        /\ UNCHANGED <<mode, handler, status, quit, scm, restart, present, starts, remover>>
        /\ \/ main' = "stopping" /\ controller' = controller
           \/ main' = "wait" /\ controller' = TRUE
    <3>0. faults \in 0..MaxFaults /\ (Fault \/ UNCHANGED faults)
      BY <1>4 DEF AppMain, AppStarts, SInv, TypeOK
    <3>1. faults' \in 0..MaxFaults
      BY <3>0, BoundsAssumption DEF Fault
    <3>2. hindered' \subseteq {"overlap", "refused", "started"}
      BY <1>4 DEF AppMain, AppStarts, Overlap, SInv, TypeOK
    <3> QED BY <1>4, <3>1, <3>2 DEF AppMain, AppStarts
  <2>2. TypeOK'
    BY <2>1 DEF SInv, TypeOK
  <2>3. controller = FALSE
    BY <2>1 DEF SInv, TypeOK
  <2>4. (Unmanaged /\ NoControlYet /\ StoppedLast /\ Onwards /\ Held)'
    BY <2>1, <2>3 DEF SInv
  <2> QED BY <2>2, <2>4 DEF SInv
<1>5. CASE AppEnds
  <2>1. hindered' \subseteq {"overlap", "refused", "started"}
    BY <1>5 DEF AppEnds, Overlap, SInv, TypeOK
  <2> QED BY <1>5, <2>1 DEF AppEnds, SInv, TypeOK
<1> QED BY <1>1, <1>2, <1>3, <1>4, <1>5 DEF ServiceMain

\* Removing the service.
LEMMA RemoveKeeps == SInv /\ (Remove \/ SvcRemove) => SInv'
<1> SUFFICES ASSUME SInv, Remove \/ SvcRemove PROVE SInv'
  OBVIOUS
<1> USE DEF scmVars, processVars, RemoverGoes, Unmanaged, NoControlYet, StoppedLast, Onwards,
            Held
<1>1. CASE Remove \/ Query \/ Polls \/ Delete
  <2>1. /\ UNCHANGED <<mode, main, handler, status, quit, controller, scm, restart, starts,
                       faults, hindered>>
        /\ present' \in BOOLEAN
        /\ remover' \in {"query", "control", "poll", "delete", "done"}
    BY <1>1 DEF Remove, Query, Polls, Delete, SInv, TypeOK
  <2> QED BY <2>1 DEF SInv, TypeOK
<1>2. CASE RemoverControls
  <2>1. /\ hindered' \subseteq {"overlap", "refused", "started"} /\ remover' = "poll"
        /\ UNCHANGED <<mode, main, status, quit, controller, scm, restart, present, starts,
                       faults>>
        /\ \/ handler' = "stop" /\ Controllable
           \/ handler' = handler
    BY <1>2 DEF RemoverControls, BeginsControl, Overlap, SInv, TypeOK
  <2>2. mode = "service" /\ handler' # handler => scm.accepts
    BY <2>1 DEF Controllable
  <2> QED BY <2>1, <2>2 DEF SInv, TypeOK, StartPending
<1> QED BY <1>1, <1>2 DEF SvcRemove

LEMMA ServiceStep == SInv /\ [Next]_vars => SInv'
<1>1. SInv /\ UNCHANGED vars => SInv'
  BY DEF vars, processVars, scmVars, SInv, TypeOK, Unmanaged, NoControlYet, StoppedLast,
         Onwards, Held
<1> QED BY <1>1, ManagerKeeps, HandlerKeeps, MainKeeps, RemoveKeeps DEF Next

\* The invariant holds of every behaviour.
THEOREM ServiceInvariant == Spec => []SInv
  BY InitSInv, ServiceStep, PTL DEF Spec

\* The variables keep their types.
THEOREM TypeCorrect == Spec => []TypeOK
<1>1. SInv => TypeOK
  BY DEF SInv
<1> QED BY ServiceInvariant, <1>1, PTL

\* Whatever crashes, stops and reports overlap, a service shown as stopped has
\* destroyed its controller.
THEOREM StoppedIsGoneHolds == Spec => []StoppedIsGone
<1>1. SInv => StoppedIsGone
  BY DEF SInv, StoppedLast, Held, StoppedIsGone
<1> QED BY ServiceInvariant, <1>1, PTL

\* The thread's RUNNING never follows the handler's STOP_PENDING.
THEOREM NoRunningAfterStopHolds == Spec => NoRunningAfterStop
<1>1. SInv /\ [Next]_vars => [scm.state = "STOP_PENDING" => scm'.state # "RUNNING"]_vars
  <2> SUFFICES ASSUME SInv, [Next]_vars, scm.state = "STOP_PENDING"
               PROVE  scm'.state # "RUNNING"
    OBVIOUS
  <2> USE DEF processVars, scmVars
  <2>1. scm' = scm \/ scm' = status \/ scm' = Stopped \/ scm' = StartPending
    BY DEF Next, vars, Start, Restart, Starts, Crash, ProcessEnds, Control, ServiceMain,
           Register, RegisterFails, StatusOfMain, Stores, ReportsOf, Reports, AppMain,
           AppEnds, Handler, OnStop, HandlerReports, SetsEvent, Remove, SvcRemove, Query,
           RemoverControls, Polls, Delete, StartPending
  <2> QED BY <2>1 DEF SInv, Onwards, Stopped, StartPending
<1> QED BY ServiceInvariant, <1>1, PTL DEF Spec, NoRunningAfterStop

=============================================================================
