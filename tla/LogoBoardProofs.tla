--------------------------- MODULE LogoBoardProofs ---------------------------
(* What LogoBoard guarantees for any cards, values and bounds, and that it   *)
(* implements LogoService.                                                   *)
EXTENDS LogoBoard, SequenceTheorems, TLAPS

-----------------------------------------------------------------------------
(* The sort of handleDeviceInfo.                                             *)

\* Among the ids a card's device info may hold, there is a lowest one.
LEMMA LowestExists ==
  ASSUME NEW c \in Cards, NEW S \in SUBSET (Oids(c) \cup {Junk}), S # {}
  PROVE  /\ LowestOf(S) \in S
         /\ \A j \in S : LowestOf(S) <= j
<1> DEFINE P(i) == i \in S /\ \A j \in S : i <= j
<1>1. First[c] \in Nat \ {0} /\ Second[c] \in Nat \ {0} /\ First[c] < Second[c]
  BY CardsAssumption
<1>2. \E i : P(i)
  <2>1. CASE Junk \in S
    <3>1. P(Junk) BY <1>1, <2>1 DEF Junk, Oids
    <3> QED BY <3>1
  <2>2. CASE Junk \notin S /\ First[c] \in S
    <3>1. P(First[c]) BY <1>1, <2>2 DEF Oids
    <3> QED BY <3>1
  <2>3. CASE Junk \notin S /\ First[c] \notin S
    <3>1. P(Second[c]) BY <1>1, <2>3 DEF Oids
    <3> QED BY <3>1
  <2> QED BY <2>1, <2>2, <2>3
<1> QED BY <1>2 DEF LowestOf

LEMMA AboveIsPart == ASSUME NEW S PROVE Above(S) \in SUBSET S
BY DEF Above

\* With two elements and no foreign id, the sort finds the card's paths in order.
LEMMA SortFindsPaths ==
  ASSUME NEW c \in Cards, NEW S \in SUBSET Oids(c), Above(S) # {}
  PROVE  LowestOf(S) = First[c] /\ LowestOf(Above(S)) = Second[c]
<1>1. First[c] \in Nat \ {0} /\ Second[c] \in Nat \ {0} /\ First[c] < Second[c]
  BY CardsAssumption
<1>2. S = Oids(c) /\ Above(S) = {Second[c]}
  BY <1>1 DEF Above, Oids
<1>3. LowestOf(S) \in S /\ \A j \in S : LowestOf(S) <= j
  BY <1>2, LowestExists DEF Oids
<1>4. LowestOf(Above(S)) \in Above(S)
  <2>1. Above(S) \in SUBSET (Oids(c) \cup {Junk}) BY <1>2, AboveIsPart
  <2> QED BY <1>2, <2>1, LowestExists
<1> QED BY <1>1, <1>2, <1>3, <1>4 DEF Oids

-----------------------------------------------------------------------------
(* Type correctness.                                                         *)

LEMMA SetFrameType ==
  ASSUME TypeOK, NEW cmd \in Commands, \A p \in DOMAIN cmd.set : Numeric(path[p].id)
  PROVE  SetFrame(cmd) \in SetFrames
<1>1. PICK S \in PathSets : cmd.set \in [S -> Sel]
  BY DEF Commands
<1>2. S \subseteq Paths BY DEF PathSets, Paths
<1>3. \A p \in S : path[p].id \in Ids
  BY <1>2 DEF TypeOK
<1>4. \A sel \in Sel : OneHot(sel) \in Data
  BY DEF OneHot, Data
<1>5. [p \in DOMAIN cmd.set |-> [oid |-> path[p].id, data |-> OneHot(cmd.set[p])]]
        \in [S -> [oid : Ids, data : Data]]
  BY <1>1, <1>3, <1>4
<1>6. cardUUID \in Cards \cup {NoCard} /\ cmd.epoch \in {0, 1}
  BY DEF TypeOK, Commands
<1> QED BY <1>5, <1>6 DEF SetFrame, SetFrames

LEMMA InfoPathsType ==
  ASSUME TypeOK, NEW c \in Cards, NEW m \in InfoMessages(c)
  PROVE  InfoPaths(m.logos) \in [Paths -> [id : Ids, data : Data \cup {NoData}]]
<1> DEFINE S == DOMAIN m.logos
<1>1. S \in SUBSET (Oids(c) \cup {Junk}) /\ m.logos \in [S -> Data]
  BY DEF InfoMessages
<1>2. S \subseteq Ids
  BY <1>1 DEF Ids
<1>3. ASSUME NEW i \in S PROVE Entry(m.logos, i) \in [id : Ids, data : Data \cup {NoData}]
  BY <1>1, <1>2, <1>3 DEF Entry
<1>4. S # {} => LowestOf(S) \in S
  BY <1>1, LowestExists
<1>5. Above(S) # {} => LowestOf(Above(S)) \in S
  <2>1. Above(S) \in SUBSET (Oids(c) \cup {Junk}) BY <1>1, AboveIsPart
  <2> QED BY <2>1, LowestExists, AboveIsPart
<1>6. \A p \in Paths : path[p] \in [id : Ids, data : Data \cup {NoData}]
  BY DEF TypeOK
<1> QED BY <1>3, <1>4, <1>5, <1>6 DEF InfoPaths

LEMMA InitType == Init => TypeOK
BY CardsAssumption, BoundsAssumption
   DEF Init, TypeOK, Commands, Frames, Messages, Ids

LEMMA SentType ==
  ASSUME TypeOK, NEW f \in Frames
  PROVE  Sent(f) \in Seq(Frames)
BY DEF Sent, TypeOK

LEMMA TypeStep == TypeOK /\ [Next]_vars => TypeOK'
<1> SUFFICES ASSUME TypeOK, [Next]_vars PROVE TypeOK'
  OBVIOUS
<1> USE CardsAssumption, BoundsAssumption
<1>0. NoCard \notin Cards /\ GetDeviceInfo \in Frames
  BY DEF Frames
<1>1. ASSUME NEW p \in Paths, NEW s \in Sel, SetLogo(p, s) PROVE TypeOK'
  <2>1. [set |-> [q \in {p} |-> s], epoch |-> epoch] \in Commands
    BY DEF TypeOK, Commands, PathSets, Paths
  <2> QED BY <1>1, <2>1 DEF SetLogo, Push, wsVars, ghostVars, TypeOK
<1>2. ASSUME NEW s1 \in Sel, NEW s2 \in Sel, SetLogos(s1, s2) PROVE TypeOK'
  <2>1. [set |-> [q \in Paths |-> IF q = 1 THEN s1 ELSE s2], epoch |-> epoch] \in Commands
    BY DEF TypeOK, Commands, PathSets, Paths
  <2> QED BY <1>2, <2>1 DEF SetLogos, Push, wsVars, ghostVars, TypeOK
<1>3. ASSUME NEW a \in Cards \cup {NoCard}, SetIp(a) PROVE TypeOK'
  BY <1>3 DEF SetIp, wsVars, ghostVars, TypeOK
<1>4. CASE Destroy
  BY <1>4 DEF Destroy, wsVars, ghostVars, TypeOK
<1>5. CASE Top \/ NoAddress \/ EnterLoop \/ QueueDrained \/ DispatchDone
  BY <1>5 DEF Top, NoAddress, EnterLoop, QueueDrained, DispatchDone,
              boardVars, wsVars, ghostVars, TypeOK
<1>6. CASE ClearQueue
  BY <1>6 DEF ClearQueue, wsVars, TypeOK
<1>7. CASE ConnectFails \/ Dials \/ HandshakeFails \/ HandshakeHangs
  <2>1. faults' \in 0..MaxFaults
    BY <1>7 DEF ConnectFails, Dials, HandshakeFails, HandshakeHangs, Fault, TypeOK
  <2>2. CASE ConnectFails
    BY <2>1, <2>2 DEF ConnectFails, boardVars, wsVars, ghostVars, TypeOK
  <2>3. CASE Dials
    BY <2>1, <2>3 DEF Dials, boardVars, ghostVars, TypeOK
  <2>4. CASE HandshakeFails \/ HandshakeHangs
    BY <2>1, <2>4 DEF HandshakeFails, HandshakeHangs, boardVars, ghostVars, TypeOK
  <2> QED BY <1>7, <2>2, <2>3, <2>4
<1>8. CASE Connects
  <2>1. outbox' \in Seq(Frames) BY <1>0, <1>8 DEF Connects
  <2> QED BY <1>8, <2>1 DEF Connects, boardVars, TypeOK
<1>9. CASE LeaveLoop
  BY <1>9 DEF LeaveLoop, NoSocket, boardVars, ghostVars, TypeOK
<1>10. CASE SendCommand
  <2>1. Head(tx_queue) \in Commands /\ Tail(tx_queue) \in Seq(Commands)
    BY <1>10 DEF SendCommand, TypeOK
  <2>2. outbox' \in Seq(Frames)
    <3>1. CASE \A p \in DOMAIN Head(tx_queue).set : Numeric(path[p].id)
      <4>1. SetFrame(Head(tx_queue)) \in Frames
        BY <2>1, <3>1, SetFrameType DEF Frames
      <4> QED BY <1>10, <3>1, <4>1, SentType DEF SendCommand
    <3>2. CASE ~\A p \in DOMAIN Head(tx_queue).set : Numeric(path[p].id)
      BY <1>10, <3>2 DEF SendCommand, TypeOK
    <3> QED BY <3>1, <3>2
  <2> QED BY <1>10, <2>1, <2>2 DEF SendCommand, ghostVars, TypeOK
<1>11. CASE Poll
  <2>1. rx' \in Seq(Messages) BY <1>11, ConcatProperties DEF Poll, TypeOK
  <2>2. outbox' \in Seq(Frames)
    <3>1. CASE readyState = "CLOSING" BY <1>11, <3>1 DEF Poll
    <3>2. CASE readyState # "CLOSING" BY <1>11, <3>2 DEF Poll, TypeOK
    <3> QED BY <3>1, <3>2
  <2> QED BY <1>11, <2>1, <2>2 DEF Poll, boardVars, ghostVars, TypeOK
<1>12. CASE PollLosesConnection
  <2>1. PICK k \in 0..Len(inbox) : rx' = rx \o SubSeq(inbox, 1, k)
    BY <1>12 DEF PollLosesConnection
  <2>2. SubSeq(inbox, 1, k) \in Seq(Messages)
    BY SubSeqProperties DEF TypeOK
  <2>3. rx' \in Seq(Messages) BY <2>1, <2>2 DEF TypeOK
  <2> QED BY <1>12, <2>3 DEF PollLosesConnection, Fault, boardVars, ghostVars, TypeOK
<1>13. CASE PollSelectError
  BY <1>13 DEF PollSelectError, Fault, boardVars, ghostVars, TypeOK
<1>14. CASE HandleDeviceInfo
  <2>1. PICK c \in Cards : Head(rx) \in InfoMessages(c)
    <3>1. rx \in Seq(Messages) /\ rx # <<>> /\ Head(rx).type = "devinfo"
      BY <1>14 DEF HandleDeviceInfo, Received, TypeOK
    <3>2. Head(rx) \in Messages
      BY <3>1
    <3>3. Head(rx) \notin ValueMessages \cup {CloseMessage}
      BY <3>1 DEF ValueMessages, CloseMessage
    <3> QED BY <3>2, <3>3 DEF Messages
  <2>2. Tail(rx) \in Seq(Messages) /\ Head(rx).uuid = c
    BY <1>14, <2>1 DEF HandleDeviceInfo, Received, TypeOK, InfoMessages
  <2>3. path' \in [Paths -> [id : Ids, data : Data \cup {NoData}]]
    BY <1>14, <2>1, InfoPathsType DEF HandleDeviceInfo, TypeOK
  <2>4. outbox' \in Seq(Frames)
    BY <1>14, <1>0, SentType DEF HandleDeviceInfo, AsksAgain, TypeOK
  <2>5. waiting' \in BOOLEAN
    BY <1>14 DEF HandleDeviceInfo, TypeOK
  <2> QED BY <1>14, <2>2, <2>3, <2>4, <2>5 DEF HandleDeviceInfo, ghostVars, TypeOK
<1>15. CASE HandleValues
  <2>1. Head(rx) \in ValueMessages /\ Tail(rx) \in Seq(Messages)
    <3>1. rx \in Seq(Messages) /\ rx # <<>> /\ Head(rx).type = "values"
      BY <1>15 DEF HandleValues, Received, TypeOK
    <3>2. Head(rx) \in Messages /\ Tail(rx) \in Seq(Messages)
      BY <3>1
    <3>3. Head(rx) # CloseMessage /\ \A c \in Cards : Head(rx) \notin InfoMessages(c)
      BY <3>1 DEF InfoMessages, CloseMessage
    <3> QED BY <3>2, <3>3 DEF Messages
  <2> DEFINE elems == Head(rx).elems
             hit(p) == {i \in Applied(elems) : Target(elems[i].oid) = p}
  <2>2. \A i \in DOMAIN elems : elems[i] \in Elements
    BY <2>1 DEF ValueMessages
  <2>3. \A p \in Paths : hit(p) # {} => (CHOOSE i \in hit(p) : TRUE) \in DOMAIN elems
    BY DEF Applied
  <2>4. path' \in [Paths -> [id : Ids, data : Data \cup {NoData}]]
    <3>1. path' = [p \in Paths |-> IF hit(p) = {} THEN path[p]
                      ELSE [id |-> path[p].id,
                            data |-> elems[CHOOSE i \in hit(p) : TRUE].data]]
      BY <1>15 DEF HandleValues
    <3>2. \A p \in Paths : path[p] \in [id : Ids, data : Data \cup {NoData}]
      BY DEF TypeOK
    <3>3. \A p \in Paths : hit(p) # {} => elems[CHOOSE i \in hit(p) : TRUE].data \in Data
      BY <2>2, <2>3 DEF Elements
    <3> QED BY <3>1, <3>2, <3>3
  <2>5. missed' \subseteq Paths
    BY <1>15 DEF HandleValues, TypeOK
  <2>6. /\ rx' = Tail(rx)
        /\ UNCHANGED <<pc, bStop, alive, ip, cardUUID, tx_queue, waiting, dialed, peer,
                       readyState,
                       outbox, inbox, card, epoch, calls, moves, faults>>
    BY <1>15 DEF HandleValues
  <2> HIDE DEF elems, hit
  <2> QED BY <2>1, <2>4, <2>5, <2>6 DEF TypeOK
<1>16. CASE HandleClose
  BY <1>16 DEF HandleClose, Received, boardVars, ghostVars, TypeOK
<1>17. CASE CardAnswersInfo
  <2>1. peer \in Cards /\ Tail(outbox) \in Seq(Frames) /\ card \in [Oids(peer) -> Data]
    BY <1>17 DEF CardAnswersInfo, CardHears, Connected, TypeOK
  <2>2. ASSUME NEW ids \in SUBSET (Oids(peer) \cup {Junk}), NEW named \in BOOLEAN
        PROVE  CardInfo(ids, named) \in Messages
    <3>1. \A i \in ids : (IF i = Junk THEN {} ELSE card[i]) \in Data
      BY <2>1 DEF Data
    <3>2. CardInfo(ids, named) \in InfoMessages(peer)
      BY <2>1, <3>1 DEF CardInfo, InfoMessages
    <3> QED BY <2>1, <3>2 DEF Messages
  <2>3. \E m \in Messages : inbox' = Append(inbox, m)
    <3>1. CASE inbox' = Append(inbox, CardInfo(Oids(peer), TRUE))
      <4>1. CardInfo(Oids(peer), TRUE) \in Messages BY <2>2
      <4> QED BY <3>1, <4>1, Zenon
    <3>2. CASE \E ids \in SUBSET Oids(peer), named \in BOOLEAN :
                 inbox' = Append(inbox, CardInfo(ids, named))
      <4>1. PICK ids \in SUBSET Oids(peer), named \in BOOLEAN :
                 inbox' = Append(inbox, CardInfo(ids, named))
        BY <3>2
      <4>2. CardInfo(ids, named) \in Messages BY <2>2
      <4> QED BY <4>1, <4>2, Zenon
    <3>3. CASE \E ids \in {{}, Oids(peer)} :
                 inbox' = Append(inbox, CardInfo(ids \cup {Junk}, TRUE))
      <4>1. PICK ids \in {{}, Oids(peer)} :
                 inbox' = Append(inbox, CardInfo(ids \cup {Junk}, TRUE))
        BY <3>3
      <4>2. CardInfo(ids \cup {Junk}, TRUE) \in Messages BY <2>2
      <4> QED BY <4>1, <4>2, Zenon
    <3> QED BY <1>17, <3>1, <3>2, <3>3 DEF CardAnswersInfo
  <2>4. inbox' \in Seq(Messages)
    BY <2>3 DEF TypeOK
  <2>5. faults' \in 0..MaxFaults
    <3>1. faults' = faults \/ Fault BY <1>17 DEF CardAnswersInfo
    <3> QED BY <3>1 DEF Fault, TypeOK
  <2> QED BY <1>17, <2>1, <2>4, <2>5 DEF CardAnswersInfo, boardVars, ghostVars, TypeOK
<1>18. CASE CardAnswersSet
  <2> DEFINE f == Head(outbox)
  <2>1. peer \in Cards /\ card \in [Oids(peer) -> Data]
    BY <1>18 DEF CardAnswersSet, CardHears, Connected, TypeOK
  <2>2. f \in SetFrames /\ Tail(outbox) \in Seq(Frames)
    BY <1>18 DEF CardAnswersSet, CardHears, TypeOK, Frames, GetDeviceInfo
  <2> DEFINE S == DOMAIN f.elems
  <2>3. S \in PathSets /\ f.elems \in [S -> [oid : Ids, data : Data]]
    BY <2>2 DEF SetFrames
  <2>4. PICK res \in [S -> {"setOK", "refused", "error"}] :
          /\ card' = [o \in DOMAIN card |->
               IF \E i \in S : res[i] = "setOK" /\ f.elems[i].oid = o
                 THEN f.elems[CHOOSE i \in S : f.elems[i].oid = o].data
                 ELSE card[o]]
          /\ inbox' = Append(inbox, [type |-> "values",
               elems |-> [i \in S |->
                  [oid |-> f.elems[i].oid, data |-> f.elems[i].data, res |-> res[i]]]])
    BY <1>18 DEF CardAnswersSet
  <2>5. [i \in S |-> [oid |-> f.elems[i].oid, data |-> f.elems[i].data, res |-> res[i]]]
          \in [S -> Elements]
    BY <2>3, <2>4 DEF Elements
  <2>6. inbox' \in Seq(Messages)
    <3> DEFINE e == [i \in S |->
          [oid |-> f.elems[i].oid, data |-> f.elems[i].data, res |-> res[i]]]
    <3>1. e \in UNION {[T -> Elements] : T \in PathSets}
      BY <2>3, <2>5
    <3> HIDE DEF e
    <3>2. [type |-> "values", elems |-> e] \in Messages
      BY <3>1 DEF Messages, ValueMessages
    <3> QED BY <2>4, <3>2 DEF TypeOK, e
  <2>7. card' \in [Oids(peer) -> Data]
    <3>1. ASSUME NEW o \in Oids(peer), \E i \in S : res[i] = "setOK" /\ f.elems[i].oid = o
          PROVE  f.elems[CHOOSE i \in S : f.elems[i].oid = o].data \in Data
      <4>1. (CHOOSE i \in S : f.elems[i].oid = o) \in S BY <3>1
      <4> QED BY <2>3, <4>1
    <3> QED BY <2>1, <2>4, <3>1
  <2>8. outbox' = Tail(outbox) /\ UNCHANGED <<pc, boardVars, dialed, peer, readyState, rx,
                                              ghostVars, calls, moves, faults>>
    BY <1>18 DEF CardAnswersSet
  <2> HIDE DEF f, S
  <2> QED BY <2>1, <1>0, <2>2, <2>6, <2>7, <2>8, SMTT(20) DEF boardVars, ghostVars, TypeOK
<1>19. CASE CardCloses
  <2>1. [type |-> "close"] \in Messages BY DEF Messages, CloseMessage
  <2> QED BY <1>19, <2>1 DEF CardCloses, Fault, boardVars, ghostVars, TypeOK
<1>20. ASSUME NEW oid \in DOMAIN card, NEW d \in Data, CardChanges(oid, d) PROVE TypeOK'
  <2>1. peer \in Cards /\ card \in [Oids(peer) -> Data]
    BY <1>20 DEF CardChanges, Connected, TypeOK
  <2>2. oid \in Ids BY <2>1 DEF Ids
  <2>3. [type |-> "values", elems |->
           [i \in {1} |-> [oid |-> oid, data |-> d, res |-> "setOK"]]] \in Messages
    BY <2>2 DEF Messages, ValueMessages, Elements, PathSets
  <2>4. inbox' \in Seq(Messages) BY <1>20, <2>3 DEF CardChanges, TypeOK
  <2>5. card' \in [Oids(peer) -> Data] BY <1>20, <2>1 DEF CardChanges
  <2>6. UNCHANGED <<pc, boardVars, dialed, peer, readyState, rx, outbox, ghostVars,
                    calls, moves, faults>>
    BY <1>20 DEF CardChanges
  <2> QED BY <1>0, <2>1, <2>4, <2>5, <2>6, SMTT(20) DEF boardVars, ghostVars, TypeOK
<1>21. CASE UNCHANGED vars
  BY <1>21 DEF vars, boardVars, wsVars, ghostVars, TypeOK
<1> QED
  BY <1>1, <1>2, <1>3, <1>4, <1>5, <1>6, <1>7, <1>8, <1>9, <1>10, <1>11, <1>12,
     <1>13, <1>14, <1>15, <1>16, <1>17, <1>18, <1>19, <1>20, <1>21
     DEF Next, Comms, Thread, Handshake, Api, CardSide

\* TypeOK for every set of cards, every set of values and every bound.
THEOREM TypeCorrect == Spec => []TypeOK
<1> QED BY InitType, TypeStep, PTL DEF Spec

-----------------------------------------------------------------------------
(* The inductive invariant behind the three safety properties.  A command is *)
(* fresh because the socket is gone, and with it what was sent, before the   *)
(* queue is cleared (Phases, FreshQueue).  It is addressed because a device  *)
(* info is asked for once per answer (OneInfo): when bWaitingForDeviceInfo   *)
(* falls none is left to change the ids again (Identified).                  *)

Offline == pc \in {"top", "reconnect", "connect", "handshake", "done", "stuck"}

Phases ==
  /\ Offline => peer = NoCard /\ outbox = <<>> /\ inbox = <<>> /\ rx = <<>>
  /\ ~Offline => peer \in Cards
  /\ pc # "dispatch" => rx = <<>>
  /\ pc \in {"connect", "handshake"} => waiting
  /\ pc = "drain" => ~waiting

FreshQueue == \A i \in DOMAIN tx_queue : tx_queue[i].epoch = epoch

InfoIn(q) == \E i \in DOMAIN q : q[i].type = "devinfo"

OneIn(q) ==
  \A i, j \in DOMAIN q : q[i].type = "devinfo" /\ q[j].type = "devinfo" => i = j

OneInfo ==
  /\ OneIn(outbox) /\ OneIn(inbox) /\ OneIn(rx)
  /\ ~(InfoIn(outbox) /\ InfoIn(inbox))
  /\ ~(InfoIn(outbox) /\ InfoIn(rx))
  /\ ~(InfoIn(inbox) /\ InfoIn(rx))

InfosFromPeer(q) == \A i \in DOMAIN q : q[i].type = "devinfo" => q[i].uuid = peer

Identified ==
  ~waiting /\ ~Offline =>
    /\ ~InfoIn(outbox) /\ ~InfoIn(inbox) /\ ~InfoIn(rx)
    /\ cardUUID = peer
    /\ path[1].id = First[peer] /\ path[2].id = Second[peer]

IInv ==
  /\ TypeOK /\ NeverCrashes
  /\ Phases
  /\ FreshQueue /\ NoStaleCommand
  /\ OneInfo /\ InfosFromPeer(inbox) /\ InfosFromPeer(rx)
  /\ Identified /\ CommandsAddressed

LEMMA AppendInfo ==
  ASSUME NEW T, NEW q \in Seq(T), NEW m
  PROVE  /\ InfoIn(Append(q, m)) <=> InfoIn(q) \/ m.type = "devinfo"
         /\ OneIn(q) /\ ~(InfoIn(q) /\ m.type = "devinfo") => OneIn(Append(q, m))
<1> DEFINE a == Append(q, m)
<1>1. /\ DOMAIN q = 1..Len(q) /\ DOMAIN a = 1..(Len(q) + 1) /\ Len(q) \in Nat
      /\ \A i \in 1..Len(q) : a[i] = q[i]
      /\ a[Len(q) + 1] = m
  OBVIOUS
<1> HIDE DEF a
<1>2. InfoIn(a) => InfoIn(q) \/ m.type = "devinfo"
  BY <1>1 DEF InfoIn
<1>3. InfoIn(q) \/ m.type = "devinfo" => InfoIn(a)
  BY <1>1 DEF InfoIn
<1>4. OneIn(q) /\ ~(InfoIn(q) /\ m.type = "devinfo") => OneIn(a)
  BY <1>1 DEF InfoIn, OneIn
<1> QED BY <1>2, <1>3, <1>4 DEF a

LEMMA TailInfo ==
  ASSUME NEW T, NEW q \in Seq(T), q # <<>>
  PROVE  /\ InfoIn(Tail(q)) => InfoIn(q)
         /\ OneIn(q) => OneIn(Tail(q))
         /\ OneIn(q) /\ Head(q).type = "devinfo" => ~InfoIn(Tail(q))
         /\ Head(q).type = "devinfo" => InfoIn(q)
<1>1. /\ Len(Tail(q)) = Len(q) - 1
      /\ \A i \in 1..Len(Tail(q)) : i + 1 \in 1..Len(q) /\ Tail(q)[i] = q[i + 1]
  OBVIOUS
<1>2. 1 \in DOMAIN q /\ Head(q) = q[1] /\ DOMAIN q = 1..Len(q)
      /\ DOMAIN Tail(q) = 1..Len(Tail(q))
  OBVIOUS
<1>3. InfoIn(Tail(q)) => InfoIn(q)
  BY <1>1, <1>2 DEF InfoIn
<1>4. OneIn(q) => OneIn(Tail(q))
  BY <1>1, <1>2 DEF OneIn
<1>5. OneIn(q) /\ Head(q).type = "devinfo" => ~InfoIn(Tail(q))
  BY <1>1, <1>2 DEF InfoIn, OneIn
<1>6. Head(q).type = "devinfo" => InfoIn(q)
  BY <1>2 DEF InfoIn
<1> QED BY <1>3, <1>4, <1>5, <1>6

\* What poll leaves in rx is a prefix of what had arrived.
LEMMA PrefixInfo ==
  ASSUME NEW T, NEW q \in Seq(T), NEW k \in 0..Len(q)
  PROVE  /\ <<>> \o q = q
         /\ <<>> \o SubSeq(q, 1, k) = SubSeq(q, 1, k)
         /\ InfoIn(SubSeq(q, 1, k)) => InfoIn(q)
         /\ OneIn(q) => OneIn(SubSeq(q, 1, k))
         /\ InfosFromPeer(q) => InfosFromPeer(SubSeq(q, 1, k))
<1>1. /\ SubSeq(q, 1, k) \in Seq(T)
      /\ DOMAIN SubSeq(q, 1, k) = 1..k
      /\ \A i \in 1..k : i \in DOMAIN q /\ SubSeq(q, 1, k)[i] = q[i]
  BY SubSeqProperties
<1>2. \A s \in Seq(T) : <<>> \o s = s
  BY ConcatEmptySeq
<1> QED BY <1>1, <1>2 DEF InfoIn, OneIn, InfosFromPeer

LEMMA EmptyInfo == ~InfoIn(<<>>) /\ OneIn(<<>>) /\ InfosFromPeer(<<>>)
BY DEF InfoIn, OneIn, InfosFromPeer

\* Where the thread is tells whether there is a socket, and what it may hold.
LEMMA PhasesStep == IInv /\ [Next]_vars => Phases'
<1> SUFFICES ASSUME IInv, [Next]_vars PROVE Phases'
  OBVIOUS
<1> USE CardsAssumption DEF Phases, Offline
<1>0. TypeOK /\ Phases BY DEF IInv
<1>1. CASE UNCHANGED <<pc, wsVars, waiting>>
  BY <1>0, <1>1 DEF wsVars
<1>2. ASSUME Api PROVE UNCHANGED <<pc, wsVars, waiting>>
  BY <1>2 DEF Api, SetLogo, SetLogos, Push, SetIp, Destroy
<1>3. ASSUME CardSide PROVE Phases'
  <2>1. UNCHANGED <<pc, peer, rx, waiting>> /\ Connected
    BY <1>3 DEF CardSide, CardAnswersInfo, CardAnswersSet, CardCloses, CardChanges,
                CardHears, boardVars
  <2>2. ~Offline BY <1>0, <2>1 DEF Connected
  <2> QED BY <1>0, <2>1, <2>2
<1>4. CASE Top \/ NoAddress \/ ClearQueue \/ ConnectFails \/ Dials
             \/ HandshakeFails \/ HandshakeHangs
  BY <1>0, <1>4 DEF Top, NoAddress, ClearQueue, ConnectFails, Dials, HandshakeFails,
       HandshakeHangs, Fault, boardVars, wsVars
<1>5. CASE Connects
  BY <1>0, <1>5 DEF Connects, boardVars, TypeOK
<1>6. CASE LeaveLoop
  BY <1>0, <1>6 DEF LeaveLoop, NoSocket, boardVars
<1>7. CASE EnterLoop \/ QueueDrained \/ DispatchDone
  BY <1>0, <1>7 DEF EnterLoop, QueueDrained, DispatchDone, boardVars, wsVars
<1>8. CASE SendCommand
  BY <1>0, <1>8 DEF SendCommand
<1>9. CASE Poll \/ PollLosesConnection \/ PollSelectError
  BY <1>0, <1>9 DEF Poll, PollLosesConnection, PollSelectError, boardVars
<1>10. CASE HandleDeviceInfo \/ HandleValues \/ HandleClose
  BY <1>0, <1>10 DEF HandleDeviceInfo, HandleValues, HandleClose, Received, boardVars
<1> QED
  BY <1>1, <1>2, <1>3, <1>4, <1>5, <1>6, <1>7, <1>8, <1>9, <1>10
     DEF Next, Comms, Thread, Handshake, vars, boardVars

\* What may happen to the queue and to what was sent.
LEMMA FreshStep == IInv /\ [Next]_vars => FreshQueue' /\ NoStaleCommand'
<1> SUFFICES ASSUME IInv, [Next]_vars PROVE FreshQueue' /\ NoStaleCommand'
  OBVIOUS
<1> USE DEF FreshQueue, NoStaleCommand, SetFramesIn
<1>0. TypeOK /\ Phases /\ FreshQueue /\ NoStaleCommand BY DEF IInv
<1>1. CASE UNCHANGED <<tx_queue, outbox, epoch>>
  BY <1>0, <1>1
<1>2. ASSUME NEW set, Push(set) PROVE FreshQueue' /\ NoStaleCommand'
  BY <1>0, <1>2 DEF Push, wsVars, ghostVars, TypeOK
<1>3. CASE ClearQueue
  BY <1>0, <1>3 DEF ClearQueue, wsVars, Phases, Offline
<1>4. CASE UNCHANGED <<tx_queue, epoch>> /\ outbox' \in {<<>>, <<GetDeviceInfo>>}
  BY <1>0, <1>4 DEF GetDeviceInfo
<1>5. CASE SendCommand
  <2>1. tx_queue # <<>> /\ tx_queue' = Tail(tx_queue) /\ UNCHANGED epoch
    BY <1>5 DEF SendCommand, ghostVars
  <2>2. FreshQueue'
    BY <1>0, <2>1 DEF TypeOK
  <2>3. Head(tx_queue).epoch = epoch
    BY <1>0, <2>1 DEF TypeOK
  <2>4. outbox' = outbox \/ outbox' = Append(outbox, SetFrame(Head(tx_queue)))
    BY <1>5 DEF SendCommand, Sent
  <2>5. SetFrame(Head(tx_queue)).epoch = epoch
    BY <2>3 DEF SetFrame
  <2>6. NoStaleCommand'
    <3>1. CASE outbox' = outbox BY <1>0, <2>1, <3>1
    <3>2. ASSUME NEW m, m.epoch = epoch, outbox' = Append(outbox, m) PROVE NoStaleCommand'
      BY <1>0, <2>1, <3>2 DEF TypeOK
    <3> QED BY <2>4, <2>5, <3>1, <3>2
  <2> QED BY <2>2, <2>6
<1>6. CASE UNCHANGED <<tx_queue, epoch>> /\ outbox' = Append(outbox, GetDeviceInfo)
  BY <1>0, <1>6 DEF TypeOK, GetDeviceInfo
<1>7. CASE UNCHANGED <<tx_queue, epoch>> /\ outbox # <<>> /\ outbox' = Tail(outbox)
  BY <1>0, <1>7 DEF TypeOK
<1>8. ASSUME Api PROVE \/ \E set : Push(set)
                       \/ UNCHANGED <<tx_queue, outbox, epoch>>
  BY <1>8 DEF Api, SetLogo, SetLogos, SetIp, Destroy, wsVars, ghostVars
<1>9. ASSUME CardSide
      PROVE  UNCHANGED <<tx_queue, epoch>> /\ (outbox' = outbox \/ (outbox # <<>> /\ outbox' = Tail(outbox)))
  BY <1>9 DEF CardSide, CardAnswersInfo, CardAnswersSet, CardCloses, CardChanges,
              CardHears, boardVars, ghostVars
<1>10. ASSUME Comms
       PROVE  \/ UNCHANGED <<tx_queue, outbox, epoch>> \/ ClearQueue \/ SendCommand
              \/ /\ UNCHANGED <<tx_queue, epoch>>
                 /\ outbox' \in {<<>>, <<GetDeviceInfo>>, Append(outbox, GetDeviceInfo)}
  BY <1>10 DEF Comms, Thread, Handshake, Top, NoAddress, ConnectFails, Dials,
       HandshakeFails, HandshakeHangs, Connects, LeaveLoop, NoSocket, EnterLoop,
       QueueDrained, DispatchDone, Poll, PollLosesConnection, PollSelectError,
       HandleDeviceInfo, AsksAgain, Sent, HandleValues, HandleClose, boardVars, wsVars,
       ghostVars
<1>11. CASE Api BY <1>1, <1>2, <1>8, <1>11
<1>12. CASE CardSide BY <1>1, <1>7, <1>9, <1>12
<1>13. CASE Comms BY <1>1, <1>3, <1>4, <1>5, <1>6, <1>10, <1>13
<1>14. CASE UNCHANGED vars BY <1>1, <1>14 DEF vars, boardVars, wsVars, ghostVars
<1> QED BY <1>11, <1>12, <1>13, <1>14 DEF Next

LEMMA PeerInfo ==
  ASSUME NEW T, NEW q \in Seq(T), InfosFromPeer(q)
  PROVE  /\ \A m : (m.type = "devinfo" => m.uuid = peer) => InfosFromPeer(Append(q, m))
         /\ q # <<>> => InfosFromPeer(Tail(q))
         /\ q # <<>> /\ Head(q).type = "devinfo" => Head(q).uuid = peer
<1>1. ASSUME NEW m, m.type = "devinfo" => m.uuid = peer
      PROVE  InfosFromPeer(Append(q, m))
  BY <1>1 DEF InfosFromPeer
<1>2. q # <<>> => InfosFromPeer(Tail(q))
  BY DEF InfosFromPeer
<1>3. q # <<>> /\ Head(q).type = "devinfo" => Head(q).uuid = peer
  BY DEF InfosFromPeer
<1> QED BY <1>1, <1>2, <1>3

InfoOk == OneInfo /\ InfosFromPeer(inbox) /\ InfosFromPeer(rx)

\* Exactly one answer per request: at most one of them is under way.
LEMMA InfoStep == IInv /\ [Next]_vars => InfoOk'
<1> SUFFICES ASSUME IInv, [Next]_vars PROVE InfoOk'
  OBVIOUS
<1>0. TypeOK /\ Phases /\ InfoOk /\ outbox \in Seq(Frames) /\ inbox \in Seq(Messages)
      /\ rx \in Seq(Messages)
  BY DEF IInv, InfoOk, TypeOK
<1>1. CASE UNCHANGED <<peer, outbox, inbox, rx>>
  BY <1>0, <1>1 DEF InfoOk, OneInfo, InfosFromPeer
<1>2. CASE LeaveLoop \/ Connects
  <2>1. /\ inbox' = <<>> /\ rx' = <<>>
        /\ outbox' = <<>> \/ outbox' = <<GetDeviceInfo>>
    BY <1>2 DEF LeaveLoop, NoSocket, Connects
  <2>2. OneIn(<<GetDeviceInfo>>) BY DEF OneIn
  <2> QED BY <2>1, <2>2 DEF InfoOk, OneInfo, InfosFromPeer, InfoIn, OneIn
<1>3. CASE SendCommand
  <2>1. UNCHANGED <<peer, inbox, rx>> BY <1>3 DEF SendCommand
  <2>2. outbox' = outbox \/ outbox' = Append(outbox, SetFrame(Head(tx_queue)))
    BY <1>3 DEF SendCommand, Sent
  <2>3. SetFrame(Head(tx_queue)).type # "devinfo" BY DEF SetFrame
  <2>4. (InfoIn(outbox') => InfoIn(outbox)) /\ (OneIn(outbox) => OneIn(outbox'))
    BY <1>0, <2>2, <2>3, AppendInfo
  <2> QED BY <1>0, <2>1, <2>4 DEF InfoOk, OneInfo, InfosFromPeer
<1>4. CASE Poll \/ PollLosesConnection
  <2>1. UNCHANGED peer /\ rx = <<>>
    BY <1>0, <1>4 DEF Poll, PollLosesConnection, Phases
  <2>2. \E k \in 0..Len(inbox) : rx' = SubSeq(inbox, 1, k)
    <3>1. CASE Poll
      <4>1. rx' = inbox
        BY <1>0, <2>1, <3>1, ConcatEmptySeq DEF Poll
      <4>2. inbox = SubSeq(inbox, 1, Len(inbox)) BY <1>0, SubSeqFull
      <4>3. Len(inbox) \in 0..Len(inbox) BY <1>0, LenProperties
      <4> QED BY <4>1, <4>2, <4>3, Zenon
    <3>2. CASE PollLosesConnection
      <4>1. PICK k \in 0..Len(inbox) : rx' = rx \o SubSeq(inbox, 1, k)
        BY <3>2 DEF PollLosesConnection
      <4>2. rx' = SubSeq(inbox, 1, k) BY <1>0, <2>1, <4>1, PrefixInfo
      <4> QED BY <4>2
    <3> QED BY <1>4, <3>1, <3>2
  <2>3. inbox' = <<>> /\ (outbox' = outbox \/ outbox' = <<>>)
    BY <1>4 DEF Poll, PollLosesConnection
  <2>4. /\ InfoIn(rx') => InfoIn(inbox)
        /\ OneIn(rx') /\ InfosFromPeer(rx')
    BY <1>0, <2>2, PrefixInfo DEF InfoOk, OneInfo
  <2> QED BY <1>0, <2>1, <2>3, <2>4, EmptyInfo DEF InfoOk, OneInfo, InfosFromPeer
<1>5. CASE HandleDeviceInfo
  <2>1. rx # <<>> /\ Head(rx).type = "devinfo" /\ rx' = Tail(rx) /\ UNCHANGED <<peer, inbox>>
    BY <1>5 DEF HandleDeviceInfo, Received
  <2>2. outbox' = outbox \/ outbox' = Append(outbox, GetDeviceInfo)
    BY <1>5 DEF HandleDeviceInfo, AsksAgain, Sent
  <2>3. InfoIn(rx) /\ ~InfoIn(rx') /\ OneIn(rx') /\ InfosFromPeer(rx')
    BY <1>0, <2>1, TailInfo, PeerInfo DEF InfoOk, OneInfo
  <2>4. ~InfoIn(outbox) /\ ~InfoIn(inbox) /\ OneIn(outbox) BY <1>0, <2>3 DEF InfoOk, OneInfo
  <2>5. OneIn(outbox') BY <1>0, <2>2, <2>4, AppendInfo
  <2> QED BY <1>0, <2>1, <2>3, <2>4, <2>5 DEF InfoOk, OneInfo, InfosFromPeer
<1>6. CASE HandleValues \/ HandleClose
  <2>1. rx # <<>> /\ rx' = Tail(rx) /\ UNCHANGED <<peer, inbox, outbox>>
    BY <1>6 DEF HandleValues, HandleClose, Received
  <2>2. (InfoIn(rx') => InfoIn(rx)) /\ OneIn(rx') /\ InfosFromPeer(rx')
    BY <1>0, <2>1, TailInfo, PeerInfo DEF InfoOk, OneInfo
  <2> QED BY <1>0, <2>1, <2>2 DEF InfoOk, OneInfo, InfosFromPeer
<1>7. CASE CardAnswersInfo
  <2>1. outbox # <<>> /\ Head(outbox).type = "devinfo" /\ outbox' = Tail(outbox)
        /\ UNCHANGED <<peer, rx>>
    BY <1>7 DEF CardAnswersInfo, CardHears
  <2>2. PICK ids, named : inbox' = Append(inbox, CardInfo(ids, named))
    BY <1>7 DEF CardAnswersInfo
  <2>3. CardInfo(ids, named).uuid = peer BY DEF CardInfo
  <2>4. InfoIn(outbox) /\ ~InfoIn(outbox') /\ OneIn(outbox')
    BY <1>0, <2>1, TailInfo DEF InfoOk, OneInfo
  <2>5. ~InfoIn(inbox) /\ ~InfoIn(rx) /\ OneIn(inbox) BY <1>0, <2>4 DEF InfoOk, OneInfo
  <2>6. OneIn(inbox') BY <1>0, <2>2, <2>5, AppendInfo
  <2>7. InfosFromPeer(inbox') BY <1>0, <2>2, <2>3, PeerInfo DEF InfoOk
  <2> QED BY <1>0, <2>1, <2>4, <2>5, <2>6, <2>7 DEF InfoOk, OneInfo, InfosFromPeer
<1>8. CASE CardAnswersSet \/ CardCloses \/ \E oid \in DOMAIN card, d \in Data : CardChanges(oid, d)
  <2>1. /\ UNCHANGED <<peer, rx>>
        /\ outbox' = outbox \/ (outbox # <<>> /\ outbox' = Tail(outbox))
    BY <1>8 DEF CardAnswersSet, CardHears, CardCloses, CardChanges
  <2>2. \E m : m.type # "devinfo" /\ inbox' = Append(inbox, m)
    <3>1. CASE CardAnswersSet
      <4>1. PICK e : inbox' = Append(inbox, [type |-> "values", elems |-> e])
        BY <3>1 DEF CardAnswersSet
      <4> QED BY <4>1
    <3>2. CASE CardCloses BY <3>2 DEF CardCloses
    <3>3. CASE \E oid \in DOMAIN card, d \in Data : CardChanges(oid, d)
      <4>1. PICK e : inbox' = Append(inbox, [type |-> "values", elems |-> e])
        BY <3>3 DEF CardChanges
      <4> QED BY <4>1
    <3> QED BY <1>8, <3>1, <3>2, <3>3
  <2>3. (InfoIn(outbox') => InfoIn(outbox)) /\ OneIn(outbox')
    BY <1>0, <2>1, TailInfo DEF InfoOk, OneInfo
  <2>4. (InfoIn(inbox') => InfoIn(inbox)) /\ OneIn(inbox') /\ InfosFromPeer(inbox')
    BY <1>0, <2>2, AppendInfo, PeerInfo DEF InfoOk, OneInfo
  <2> QED BY <1>0, <2>1, <2>3, <2>4 DEF InfoOk, OneInfo, InfosFromPeer
<1>9. CASE PollSelectError
  BY <1>0, <1>9 DEF PollSelectError, InfoOk, OneInfo, InfosFromPeer
<1>10. ASSUME Api \/ Top \/ NoAddress \/ ClearQueue \/ ConnectFails \/ Dials
                \/ HandshakeFails \/ HandshakeHangs \/ EnterLoop
                \/ QueueDrained \/ DispatchDone \/ UNCHANGED vars
       PROVE  UNCHANGED <<peer, outbox, inbox, rx>>
  BY <1>10 DEF Api, SetLogo, SetLogos, Push, SetIp, Destroy, Top, NoAddress, ClearQueue,
       ConnectFails, Dials, HandshakeFails, HandshakeHangs, EnterLoop, QueueDrained,
       DispatchDone, vars, wsVars
<1> QED
  BY <1>1, <1>2, <1>3, <1>4, <1>5, <1>6, <1>7, <1>8, <1>9, <1>10
     DEF Next, Comms, Thread, Handshake, CardSide

NoInfo == ~InfoIn(outbox) /\ ~InfoIn(inbox) /\ ~InfoIn(rx)

\* On a connection that has its device info, none is asked for or sent again.
LEMMA NoInfoStep ==
  ASSUME IInv, Next, NoInfo, ~Connects
  PROVE  NoInfo'
<1>0. TypeOK /\ Phases /\ outbox \in Seq(Frames) /\ inbox \in Seq(Messages)
      /\ rx \in Seq(Messages)
  BY DEF IInv, TypeOK
<1>1. CASE UNCHANGED <<outbox, inbox, rx>>
  BY <1>1 DEF NoInfo
<1>2. CASE LeaveLoop
  BY <1>2 DEF LeaveLoop, NoSocket, NoInfo, InfoIn
<1>3. CASE SendCommand
  <2>1. UNCHANGED <<inbox, rx>> BY <1>3 DEF SendCommand
  <2>2. outbox' = outbox \/ outbox' = Append(outbox, SetFrame(Head(tx_queue)))
    BY <1>3 DEF SendCommand, Sent
  <2>3. SetFrame(Head(tx_queue)).type # "devinfo" BY DEF SetFrame
  <2>4. InfoIn(outbox') => InfoIn(outbox) BY <1>0, <2>2, <2>3, AppendInfo
  <2> QED BY <2>1, <2>4 DEF NoInfo
<1>4. CASE Poll \/ PollLosesConnection
  <2>1. rx = <<>> BY <1>0, <1>4 DEF Poll, PollLosesConnection, Phases
  <2>2. InfoIn(rx') => InfoIn(inbox)
    <3>1. CASE Poll
      BY <1>0, <2>1, <3>1, ConcatEmptySeq DEF Poll
    <3>2. CASE PollLosesConnection
      <4>1. PICK k \in 0..Len(inbox) : rx' = rx \o SubSeq(inbox, 1, k)
        BY <3>2 DEF PollLosesConnection
      <4> QED BY <1>0, <2>1, <4>1, PrefixInfo
    <3> QED BY <1>4, <3>1, <3>2
  <2>3. inbox' = <<>> /\ (outbox' = outbox \/ outbox' = <<>>)
    BY <1>4 DEF Poll, PollLosesConnection
  <2> QED BY <2>2, <2>3, EmptyInfo DEF NoInfo
<1>5. CASE HandleDeviceInfo
  <2>1. rx # <<>> /\ Head(rx).type = "devinfo" BY <1>5 DEF HandleDeviceInfo, Received
  <2> QED BY <1>0, <2>1, TailInfo DEF NoInfo
<1>6. CASE HandleValues \/ HandleClose
  <2>1. rx # <<>> /\ rx' = Tail(rx) /\ UNCHANGED <<inbox, outbox>>
    BY <1>6 DEF HandleValues, HandleClose, Received
  <2> QED BY <1>0, <2>1, TailInfo DEF NoInfo
<1>7. CASE CardAnswersInfo
  <2>1. outbox # <<>> /\ Head(outbox).type = "devinfo"
    BY <1>7 DEF CardAnswersInfo, CardHears
  <2> QED BY <1>0, <2>1, TailInfo DEF NoInfo
<1>8. CASE CardAnswersSet
  <2>1. UNCHANGED rx /\ outbox # <<>> /\ outbox' = Tail(outbox)
    BY <1>8 DEF CardAnswersSet, CardHears
  <2>2. PICK e : inbox' = Append(inbox, [type |-> "values", elems |-> e])
    BY <1>8 DEF CardAnswersSet
  <2> QED BY <1>0, <2>1, <2>2, TailInfo, AppendInfo DEF NoInfo
<1>9. CASE CardCloses \/ \E oid \in DOMAIN card, d \in Data : CardChanges(oid, d)
  <2>1. UNCHANGED <<rx, outbox>> BY <1>9 DEF CardCloses, CardChanges
  <2>2. \E m : m.type # "devinfo" /\ inbox' = Append(inbox, m)
    <3>1. CASE CardCloses BY <3>1 DEF CardCloses
    <3>2. CASE \E oid \in DOMAIN card, d \in Data : CardChanges(oid, d)
      <4>1. PICK e : inbox' = Append(inbox, [type |-> "values", elems |-> e])
        BY <3>2 DEF CardChanges
      <4> QED BY <4>1
    <3> QED BY <1>9, <3>1, <3>2
  <2> QED BY <1>0, <2>1, <2>2, AppendInfo DEF NoInfo
<1>10. ASSUME Api \/ Top \/ NoAddress \/ ClearQueue \/ ConnectFails \/ Dials
                \/ HandshakeFails \/ HandshakeHangs \/ EnterLoop
                \/ QueueDrained \/ DispatchDone \/ PollSelectError
       PROVE  UNCHANGED <<outbox, inbox, rx>>
  BY <1>10 DEF Api, SetLogo, SetLogos, Push, SetIp, Destroy, Top, NoAddress, ClearQueue,
       ConnectFails, Dials, HandshakeFails, HandshakeHangs, EnterLoop, QueueDrained,
       DispatchDone, PollSelectError, wsVars
<1> QED
  BY <1>1, <1>2, <1>3, <1>4, <1>5, <1>6, <1>7, <1>8, <1>9, <1>10 DEF Next, Comms, Thread,
       Handshake, CardSide

\* A complete device info of the card at the other end identifies it.
LEMMA InfoIdentifies ==
  ASSUME TypeOK, peer \in Cards, NEW m \in InfoMessages(peer),
         ~SortThrows(m.logos), Complete(m)
  PROVE  InfoPaths(m.logos)[1].id = First[peer] /\ InfoPaths(m.logos)[2].id = Second[peer]
<1> DEFINE S == DOMAIN m.logos
<1>1. S \in SUBSET (Oids(peer) \cup {Junk}) /\ Above(S) # {}
  BY DEF InfoMessages, Complete
<1>2. Junk \notin S
  <2>1. Above({Junk}) = {} BY DEF Above, Junk
  <2> QED BY <1>1, <2>1 DEF SortThrows
<1>3. S \in SUBSET Oids(peer) /\ S # {} BY <1>1, <1>2 DEF Above
<1>4. LowestOf(S) = First[peer] /\ LowestOf(Above(S)) = Second[peer]
  BY <1>1, <1>3, SortFindsPaths
<1>5. /\ InfoPaths(m.logos)[1] = Entry(m.logos, LowestOf(S))
      /\ InfoPaths(m.logos)[2] = Entry(m.logos, LowestOf(Above(S)))
  BY <1>1, <1>3 DEF InfoPaths, Paths
<1> QED BY <1>4, <1>5 DEF Entry

LEMMA IdentifiedStep == IInv /\ [Next]_vars => Identified'
<1> SUFFICES ASSUME IInv, Next, ~waiting', ~Offline' PROVE Identified'
  BY DEF IInv, Identified, Offline, NoInfo, InfoIn, vars, boardVars, wsVars
<1> USE DEF Identified
<1>0. TypeOK /\ Phases /\ Identified /\ OneInfo /\ InfosFromPeer(rx)
  BY DEF IInv
<1>1. ~Connects
  BY <1>0 DEF Connects, boardVars, Phases, Offline
<1>2. ~Offline
  BY <1>0, <1>1 DEF Next, Comms, Thread, Handshake, Api, CardSide, Top, NoAddress,
       ClearQueue, ConnectFails, Dials, HandshakeFails, HandshakeHangs, LeaveLoop,
       EnterLoop, SendCommand, QueueDrained, Poll, PollLosesConnection, PollSelectError,
       DispatchDone, HandleDeviceInfo, HandleValues, HandleClose, Received, SetLogo,
       SetLogos, Push, SetIp, Destroy, CardAnswersInfo, CardAnswersSet, CardCloses,
       CardChanges, CardHears, Connected, Phases, Offline
<1>3. CASE HandleDeviceInfo
  <2>1. rx # <<>> /\ Head(rx).type = "devinfo" /\ rx \in Seq(Messages)
    BY <1>0, <1>3 DEF HandleDeviceInfo, Received, TypeOK
  <2>2. InfoIn(rx) BY <2>1, TailInfo
  <2>3. waiting BY <1>0, <1>2, <2>2
  <2>4. peer \in Cards /\ Head(rx).uuid = peer
    BY <1>0, <1>2, <2>1, PeerInfo DEF Phases
  <2>5. Head(rx) \in InfoMessages(peer)
    BY <2>1, <2>4 DEF Messages, InfoMessages, ValueMessages, CloseMessage
  <2>6. ~SortThrows(Head(rx).logos) /\ Complete(Head(rx))
    BY <1>3, <2>3 DEF HandleDeviceInfo
  <2>7. path' = InfoPaths(Head(rx).logos) /\ outbox' = outbox /\ cardUUID' = Head(rx).uuid
        /\ rx' = Tail(rx) /\ UNCHANGED <<peer, inbox>>
    BY <1>3, <2>6 DEF HandleDeviceInfo, AsksAgain
  <2>8. ~InfoIn(outbox) /\ ~InfoIn(inbox) /\ ~InfoIn(rx')
    BY <1>0, <2>1, <2>2, <2>7, TailInfo DEF OneInfo
  <2> QED BY <1>0, <2>4, <2>5, <2>6, <2>7, <2>8, InfoIdentifies
<1>4. CASE ~HandleDeviceInfo
  <2>1. UNCHANGED <<waiting, cardUUID, peer>> /\ \A p \in Paths : path'[p].id = path[p].id
    <3>1. CASE HandleValues
      BY <1>0, <3>1 DEF HandleValues, TypeOK
    <3>2. CASE ~HandleValues
      BY <1>1, <1>2, <1>4, <3>2 DEF Next, Comms, Thread, Handshake, Api, CardSide, Top,
           NoAddress, ClearQueue, ConnectFails, Dials, HandshakeFails, HandshakeHangs,
           LeaveLoop, NoSocket, EnterLoop, SendCommand, QueueDrained, Poll,
           PollLosesConnection, PollSelectError, DispatchDone, HandleClose, SetLogo,
           SetLogos, Push, SetIp, Destroy, CardAnswersInfo, CardAnswersSet, CardCloses,
           CardChanges, boardVars, wsVars, Offline
    <3> QED BY <3>1, <3>2
  <2>2. NoInfo BY <1>0, <1>2, <2>1 DEF NoInfo
  <2>3. NoInfo' BY <1>1, <2>2, NoInfoStep
  <2> QED BY <1>0, <1>2, <2>1, <2>3 DEF NoInfo, Paths
<1> QED BY <1>3, <1>4

\* The commands already sent stay addressed, and the next one is: it is made of
\* the identity and the paths the device info of this connection brought.
LEMMA AddressedStep == IInv /\ [Next]_vars => CommandsAddressed' /\ NeverCrashes'
<1> SUFFICES ASSUME IInv, [Next]_vars PROVE CommandsAddressed' /\ NeverCrashes'
  OBVIOUS
<1> USE DEF CommandsAddressed, NeverCrashes, SetFramesIn
<1>0. TypeOK /\ Phases /\ Identified /\ CommandsAddressed /\ NeverCrashes
      /\ outbox \in Seq(Frames)
  BY DEF IInv, TypeOK
<1>1. CASE UNCHANGED <<outbox, peer, pc>>
  BY <1>0, <1>1 DEF PathOid
<1>2. CASE SendCommand
  <2>1. ~waiting /\ ~Offline /\ peer \in Cards
    BY <1>0, <1>2 DEF SendCommand, Phases, Offline
  <2>2. cardUUID = peer /\ path[1].id = First[peer] /\ path[2].id = Second[peer]
    BY <1>0, <2>1 DEF Identified
  <2>3. First[peer] > 0 /\ Second[peer] > 0
    BY <2>1, CardsAssumption
  <2>4. Head(tx_queue) \in Commands /\ DOMAIN Head(tx_queue).set \subseteq Paths
    <3>1. Head(tx_queue) \in Commands BY <1>0, <1>2 DEF SendCommand, TypeOK
    <3> QED BY <3>1 DEF Commands, PathSets, Paths
  <2>5. outbox' = Sent(SetFrame(Head(tx_queue))) /\ UNCHANGED <<pc, peer>>
    BY <1>2, <2>2, <2>3, <2>4 DEF SendCommand, Numeric, Paths
  <2> DEFINE f == SetFrame(Head(tx_queue))
  <2>6. f.uuid = peer /\ \A p \in DOMAIN f.elems : f.elems[p].oid = PathOid(peer, p)
    BY <2>2, <2>4 DEF SetFrame, PathOid, Paths
  <2>7. outbox' = outbox \/ outbox' = Append(outbox, f)
    BY <2>5 DEF Sent
  <2> HIDE DEF f
  <2>8. CommandsAddressed'
    <3>1. CASE outbox' = outbox BY <1>0, <2>5, <3>1 DEF PathOid
    <3>2. CASE outbox' = Append(outbox, f) BY <1>0, <2>5, <2>6, <3>2 DEF PathOid
    <3> QED BY <2>7, <3>1, <3>2
  <2> QED BY <1>0, <2>5, <2>8
<1>3. CASE outbox' \in {<<>>, <<GetDeviceInfo>>} /\ pc' # "crashed"
  BY <1>0, <1>3 DEF GetDeviceInfo
<1>4. CASE outbox' = Append(outbox, GetDeviceInfo) /\ UNCHANGED <<peer, pc>>
  BY <1>0, <1>4 DEF GetDeviceInfo, PathOid
<1>5. CASE outbox # <<>> /\ outbox' = Tail(outbox) /\ UNCHANGED <<peer, pc>>
  BY <1>0, <1>5 DEF PathOid
<1>6. CASE UNCHANGED <<outbox, peer>> /\ pc' # "crashed"
  BY <1>0, <1>6 DEF PathOid
<1>7. ASSUME Api PROVE UNCHANGED <<outbox, peer, pc>>
  BY <1>7 DEF Api, SetLogo, SetLogos, Push, SetIp, Destroy, wsVars
<1>8. ASSUME CardSide
      PROVE  UNCHANGED <<peer, pc>> /\ (outbox' = outbox \/ (outbox # <<>> /\ outbox' = Tail(outbox)))
  BY <1>8 DEF CardSide, CardAnswersInfo, CardAnswersSet, CardCloses, CardChanges, CardHears
<1>9. ASSUME Comms
      PROVE  \/ SendCommand
             \/ UNCHANGED <<outbox, peer>> /\ pc' # "crashed"
             \/ outbox' \in {<<>>, <<GetDeviceInfo>>} /\ pc' # "crashed"
             \/ outbox' = Append(outbox, GetDeviceInfo) /\ UNCHANGED <<peer, pc>>
  BY <1>0, <1>9 DEF Comms, Thread, Handshake, Top, NoAddress, ClearQueue, ConnectFails,
     Dials, HandshakeFails, HandshakeHangs, Connects, LeaveLoop,
     NoSocket, EnterLoop, QueueDrained, DispatchDone, Poll, PollLosesConnection,
     PollSelectError, HandleDeviceInfo, AsksAgain, Sent, HandleValues, HandleClose,
     boardVars, wsVars
<1>10. CASE Api BY <1>1, <1>7, <1>10
<1>11. CASE CardSide BY <1>1, <1>5, <1>8, <1>11
<1>12. CASE Comms BY <1>2, <1>3, <1>4, <1>6, <1>9, <1>12
<1>13. CASE UNCHANGED vars BY <1>1, <1>13 DEF vars, wsVars
<1> QED BY <1>10, <1>11, <1>12, <1>13 DEF Next

LEMMA InitInvariant == Init => IInv
BY InitType, CardsAssumption
   DEF Init, IInv, Phases, Offline, FreshQueue, NoStaleCommand, OneInfo, OneIn, InfoIn,
       InfosFromPeer, Identified, CommandsAddressed, NeverCrashes, SetFramesIn

\* The inductive invariant: where the thread is, which commands are fresh, how
\* many answers are under way and whom the board takes the card for.
THEOREM Invariant == Spec => []IInv
<1>1. IInv /\ [Next]_vars => IInv'
  BY TypeStep, PhasesStep, FreshStep, InfoStep, IdentifiedStep, AddressedStep DEF IInv, InfoOk
<1> QED BY InitInvariant, <1>1, PTL DEF Spec

\* Whatever the cards, the values and the number of calls and faults, no command
\* accepted before a connection attempt is sent on that connection.
THEOREM NoStaleCommandHolds == Spec => []NoStaleCommand
<1>1. IInv => NoStaleCommand BY DEF IInv
<1> QED BY Invariant, <1>1, PTL

\* Every command under way names the card at the other end and the object ids
\* of that card's paths.
THEOREM CommandsAddressedHolds == Spec => []CommandsAddressed
<1>1. IInv => CommandsAddressed BY DEF IInv
<1> QED BY Invariant, <1>1, PTL

\* std::stoul in commsFn never sees an id that is no number.
THEOREM NeverCrashesHolds == Spec => []NeverCrashes
<1>1. IInv => NeverCrashes BY DEF IInv
<1> QED BY Invariant, <1>1, PTL

\* The identity and the ids of a board that is ready do not change while it
\* stays so.
THEOREM IdentityStays == Spec => IdentityStable
<1>1. IInv /\ IInv' /\ [Next]_vars =>
        [Ready /\ Ready' => /\ cardUUID' = cardUUID
                            /\ \A p \in Paths : path'[p].id = path[p].id]_vars
  <2> SUFFICES ASSUME IInv, IInv', [Next]_vars, Ready, Ready'
               PROVE  cardUUID' = cardUUID /\ \A p \in Paths : path'[p].id = path[p].id
    OBVIOUS
  <2>1. ~Offline /\ ~Offline' /\ ~waiting /\ ~waiting'
    BY DEF Ready, Connected, IInv, Phases, Offline
  <2>2. /\ cardUUID = peer /\ path[1].id = First[peer] /\ path[2].id = Second[peer]
        /\ cardUUID' = peer' /\ path'[1].id = First[peer'] /\ path'[2].id = Second[peer']
    BY <2>1 DEF IInv, Identified
  <2>3. peer' = peer
    BY <2>1 DEF Next, Comms, Thread, Handshake, Api, CardSide, Top, NoAddress, ClearQueue,
       ConnectFails, Dials, HandshakeFails, HandshakeHangs, Connects,
       LeaveLoop, NoSocket, EnterLoop, SendCommand, QueueDrained, Poll, PollLosesConnection,
       PollSelectError, DispatchDone, HandleDeviceInfo, HandleValues, HandleClose, SetLogo,
       SetLogos, Push, SetIp, Destroy, CardAnswersInfo, CardAnswersSet, CardCloses,
       CardChanges, vars, boardVars, wsVars, Offline
  <2> QED BY <2>2, <2>3 DEF Paths
<1> QED BY Invariant, <1>1, PTL DEF Spec, IdentityStable

-----------------------------------------------------------------------------
(* What the API reports is what the card has: along the messages that are    *)
(* not handled yet, the last that tells a path's value tells the card's.     *)

\* The values a message tells of the path with object id o.
Says(m, o) ==
  IF m.type = "values" THEN {m.elems[i].data : i \in {i \in Accepted(m.elems) : m.elems[i].oid = o}}
  ELSE IF m.type = "devinfo" THEN {m.logos[i] : i \in {i \in DOMAIN m.logos : i = o}}
  ELSE {}

Silent(q, o) == \A i \in DOMAIN q : Says(q[i], o) = {}

\* The last message of q that tells of o tells v.
LastSays(q, o, v) ==
  \A i \in DOMAIN q : (\A j \in DOMAIN q : j > i => Says(q[j], o) = {}) => Says(q[i], o) \subseteq {v}

\* An accepted value for the lower id is the first of its message, so no error
\* hides it.
FirstCounts(q) ==
  \A n \in DOMAIN q : q[n].type = "values" =>
    \A i \in Accepted(q[n].elems) : q[n].elems[i].oid = First[peer] => i \in Applied(q[n].elems)

Told(o) == LastSays(inbox, o, card[o]) /\ (Silent(inbox, o) => LastSays(rx, o, card[o]))

Shown(p) ==
  Silent(inbox, PathOid(peer, p)) /\ Silent(rx, PathOid(peer, p)) =>
    path[p].data = card[PathOid(peer, p)] \/ (p = 2 /\ 2 \in missed)

Reporting ==
  /\ pc \in {"drain", "poll"} => readyState # "CLOSED"
  /\ FirstCounts(inbox) /\ FirstCounts(rx)
  /\ Connected => /\ \A p \in Paths : Told(PathOid(peer, p))
                  /\ ~waiting => \A p \in Paths : Shown(p)

\* What is left of a queue behind its head.
LEMMA TailSays ==
  ASSUME NEW T, NEW q \in Seq(T), q # <<>>
  PROVE  /\ \A o, v : LastSays(q, o, v) => LastSays(Tail(q), o, v)
         /\ \A o : Silent(Tail(q), o) /\ Says(Head(q), o) = {} => Silent(q, o)
         /\ \A o, v : LastSays(q, o, v) /\ Silent(Tail(q), o) => Says(Head(q), o) \subseteq {v}
         /\ FirstCounts(q) => FirstCounts(Tail(q))
<1>1. /\ 1 \in DOMAIN q /\ Head(q) = q[1]
      /\ \A i \in DOMAIN Tail(q) : i + 1 \in DOMAIN q /\ i \in Nat /\ Tail(q)[i] = q[i + 1]
      /\ \A i \in DOMAIN q : i \in Nat /\ (i > 1 => i - 1 \in DOMAIN Tail(q) /\ Tail(q)[i - 1] = q[i])
      /\ \A i \in DOMAIN q : i > 1 \/ i = 1
  <2>1. /\ Len(q) \in Nat \ {0} /\ DOMAIN q = 1..Len(q) /\ Head(q) = q[1]
        /\ DOMAIN Tail(q) = 1..(Len(q) - 1)
        /\ \A i \in 1..(Len(q) - 1) : Tail(q)[i] = q[i + 1]
    OBVIOUS
  <2> QED BY <2>1
<1>2. ASSUME NEW o, NEW v, LastSays(q, o, v) PROVE LastSays(Tail(q), o, v)
  <2> SUFFICES ASSUME NEW i \in DOMAIN Tail(q), \A j \in DOMAIN Tail(q) : j > i => Says(Tail(q)[j], o) = {}
               PROVE  Says(Tail(q)[i], o) \subseteq {v}
    BY DEF LastSays
  <2>1. ASSUME NEW j \in DOMAIN q, j > i + 1 PROVE Says(q[j], o) = {}
    <3>1. j \in Nat /\ i \in Nat /\ j > 1 /\ j - 1 > i
      BY <1>1, <2>1
    <3>2. j - 1 \in DOMAIN Tail(q) /\ Tail(q)[j - 1] = q[j]
      BY <1>1, <3>1
    <3> QED BY <3>1, <3>2
  <2> QED BY <1>1, <1>2, <2>1 DEF LastSays
<1>3. ASSUME NEW o, Silent(Tail(q), o), Says(Head(q), o) = {} PROVE Silent(q, o)
  BY <1>1, <1>3 DEF Silent
<1>4. ASSUME NEW o, NEW v, LastSays(q, o, v), Silent(Tail(q), o) PROVE Says(Head(q), o) \subseteq {v}
  <2>1. \A j \in DOMAIN q : j > 1 => Says(q[j], o) = {}
    BY <1>1, <1>4 DEF Silent
  <2> QED BY <1>1, <1>4, <2>1 DEF LastSays
<1>5. FirstCounts(q) => FirstCounts(Tail(q))
  BY <1>1 DEF FirstCounts
<1> QED BY <1>2, <1>3, <1>4, <1>5

\* A message at the end of a queue, which tells what the card has now.
LEMMA AppendSays ==
  ASSUME NEW T, NEW q \in Seq(T), NEW m
  PROVE  /\ \A o, v, w : /\ LastSays(q, o, v) /\ Says(m, o) \subseteq {w}
                         /\ Says(m, o) = {} => w = v
                         => LastSays(Append(q, m), o, w)
         /\ \A o : Silent(Append(q, m), o) => Silent(q, o) /\ Says(m, o) = {}
         /\ /\ FirstCounts(q)
            /\ m.type = "values" => \A i \in Accepted(m.elems) :
                 m.elems[i].oid = First[peer] => i \in Applied(m.elems)
            => FirstCounts(Append(q, m))
<1> DEFINE a == Append(q, m)
<1>1. /\ DOMAIN q = 1..Len(q) /\ DOMAIN a = 1..(Len(q) + 1) /\ Len(q) \in Nat
      /\ \A i \in DOMAIN q : a[i] = q[i]
      /\ a[Len(q) + 1] = m
  OBVIOUS
<1> HIDE DEF a
<1>2. ASSUME NEW o, NEW v, NEW w, LastSays(q, o, v), Says(m, o) \subseteq {w},
             Says(m, o) = {} => w = v
      PROVE  LastSays(a, o, w)
  <2> SUFFICES ASSUME NEW i \in DOMAIN a, \A j \in DOMAIN a : j > i => Says(a[j], o) = {}
               PROVE  Says(a[i], o) \subseteq {w}
    BY DEF LastSays
  <2>1. CASE i = Len(q) + 1
    BY <1>1, <1>2, <2>1
  <2>2. CASE i \in DOMAIN q
    <3>1. Says(m, o) = {} /\ \A j \in DOMAIN q : j > i => Says(q[j], o) = {}
      BY <1>1, <2>2
    <3> QED BY <1>1, <1>2, <2>2, <3>1 DEF LastSays
  <2> QED BY <1>1, <2>1, <2>2
<1>3. ASSUME NEW o, Silent(a, o) PROVE Silent(q, o) /\ Says(m, o) = {}
  BY <1>1, <1>3 DEF Silent
<1>4. ASSUME FirstCounts(q),
             m.type = "values" => \A i \in Accepted(m.elems) :
               m.elems[i].oid = First[peer] => i \in Applied(m.elems)
      PROVE  FirstCounts(a)
  BY <1>1, <1>4 DEF FirstCounts
<1> QED BY <1>2, <1>3, <1>4 DEF a

\* Steps that move no message and change no value shown.
LEMMA ReportsStay ==
  ASSUME Reporting, UNCHANGED <<peer, rx, inbox, card, path, missed>>,
         pc' \in {"drain", "poll"} => readyState' # "CLOSED",
         Connected' => Connected, ~waiting' => ~waiting
  PROVE  Reporting'
BY DEF Reporting, FirstCounts, Told, Shown, PathOid

\* The card's object ids, which no foreign element has.
LEMMA OidsOfPaths ==
  ASSUME peer \in Cards
  PROVE  /\ First[peer] # Second[peer] /\ PathOid(peer, 1) = First[peer]
         /\ PathOid(peer, 2) = Second[peer]
         /\ \A p \in Paths : PathOid(peer, p) \in Oids(peer) /\ PathOid(peer, p) # Junk
BY CardsAssumption DEF PathOid, Oids, Paths, Junk

\* The card sends a message that tells what it has now.
LEMMA CardReports ==
  ASSUME TypeOK, Reporting, UNCHANGED <<pc, peer, readyState, rx, path, missed, waiting>>, Connected,
         NEW m, inbox' = Append(inbox, m),
         m.type = "values" => \A i \in Accepted(m.elems) :
           m.elems[i].oid = First[peer] => i \in Applied(m.elems),
         \A p \in Paths : /\ Says(m, PathOid(peer, p)) \subseteq {card'[PathOid(peer, p)]}
                          /\ Says(m, PathOid(peer, p)) = {}
                             => card'[PathOid(peer, p)] = card[PathOid(peer, p)]
  PROVE  Reporting'
<1> DEFINE o(p) == PathOid(peer, p)
<1>1. inbox \in Seq(Messages)
  BY DEF TypeOK
<1>2. FirstCounts(inbox')
  BY <1>1, AppendSays DEF Reporting
<1>3. \A p \in Paths : Silent(inbox', o(p)) => Silent(inbox, o(p)) /\ card'[o(p)] = card[o(p)]
  BY <1>1, AppendSays
<1>4. \A p \in Paths : LastSays(inbox', o(p), card'[o(p)])
  <2> TAKE p \in Paths
  <2>1. LastSays(inbox, o(p), card[o(p)])
    BY DEF Reporting, Told
  <2>2. Says(m, o(p)) \subseteq {card'[o(p)]} /\ (Says(m, o(p)) = {} => card'[o(p)] = card[o(p)])
    OBVIOUS
  <2> HIDE DEF o
  <2> QED BY <1>1, <2>1, <2>2, AppendSays
<1>5. \A p \in Paths : Told(o(p))'
  <2> SUFFICES ASSUME NEW p \in Paths PROVE Told(o(p))'
    OBVIOUS
  <2>1. Told(o(p))
    BY DEF Reporting
  <2> QED BY <1>3, <1>4, <2>1 DEF Told, PathOid
<1>6. ~waiting' => \A p \in Paths : Shown(p)'
  <2> SUFFICES ASSUME NEW p \in Paths, ~waiting PROVE Shown(p)'
    OBVIOUS
  <2>1. Shown(p)
    BY DEF Reporting
  <2> QED BY <1>3, <2>1 DEF Shown, PathOid
<1>7. FirstCounts(inbox)' /\ FirstCounts(rx)' /\ (pc' \in {"drain", "poll"} => readyState' # "CLOSED")
  BY <1>2 DEF Reporting, FirstCounts
<1> QED BY <1>5, <1>6, <1>7 DEF Reporting, PathOid

\* The board handles the first message it received: where that tells of a path,
\* the path takes a value it tells, or counts as missed.
LEMMA BoardTakes ==
  ASSUME TypeOK, Reporting, pc = "dispatch", rx # <<>>, rx' = Tail(rx),
         UNCHANGED <<pc, peer, inbox, card>>, Connected' => Connected,
         ~waiting' => \A p \in Paths :
           \/ /\ ~waiting /\ Says(Head(rx), PathOid(peer, p)) = {}
              /\ path'[p].data = path[p].data /\ (p = 2 /\ 2 \in missed => 2 \in missed')
           \/ path'[p].data \in Says(Head(rx), PathOid(peer, p))
           \/ p = 2 /\ 2 \in missed'
  PROVE  Reporting'
<1> DEFINE o(p) == PathOid(peer, p)
<1>1. rx \in Seq(Messages)
  BY DEF TypeOK
<1>2. FirstCounts(inbox)' /\ FirstCounts(rx)'
  <2>1. FirstCounts(Tail(rx))
    BY <1>1, TailSays DEF Reporting
  <2> QED BY <2>1 DEF Reporting, FirstCounts
<1>3. ASSUME Connected', NEW p \in Paths PROVE Told(o(p))' /\ (~waiting' => Shown(p)')
  <2>1. Told(o(p)) /\ (~waiting => Shown(p))
    BY <1>3 DEF Reporting
  <2>2. Told(o(p))'
    <3>1. LastSays(rx, o(p), card[o(p)]) => LastSays(Tail(rx), o(p), card[o(p)])
      BY <1>1, TailSays
    <3> QED BY <2>1, <3>1 DEF Told, PathOid
  <2>3. ASSUME ~waiting', Silent(inbox, o(p)), Silent(Tail(rx), o(p))
        PROVE  path'[p].data = card[o(p)] \/ (p = 2 /\ 2 \in missed')
    <3>1. Says(Head(rx), o(p)) \subseteq {card[o(p)]}
      BY <1>1, <2>1, <2>3, TailSays DEF Told
    <3>2. CASE ~waiting /\ Says(Head(rx), o(p)) = {} /\ path'[p].data = path[p].data
               /\ (p = 2 /\ 2 \in missed => 2 \in missed')
      <4>1. Silent(rx, o(p))
        BY <1>1, <2>3, <3>2, TailSays
      <4> QED BY <2>1, <2>3, <3>2, <4>1 DEF Shown
    <3>3. CASE path'[p].data \in Says(Head(rx), o(p))
      BY <3>1, <3>3
    <3> QED BY <2>3, <3>2, <3>3
  <2>4. ~waiting' => Shown(p)'
    BY <2>3 DEF Shown, PathOid
  <2> QED BY <2>2, <2>4
<1> QED BY <1>2, <1>3 DEF Reporting, PathOid

\* The handlers of the messages.
LEMMA HandlersReport ==
  ASSUME IInv, Reporting, HandleDeviceInfo \/ HandleValues \/ HandleClose
  PROVE  Reporting'
<1>1. /\ pc = "dispatch" /\ rx # <<>> /\ rx' = Tail(rx) /\ UNCHANGED <<pc, peer, inbox, card>>
      /\ Connected' => Connected
  BY DEF HandleDeviceInfo, HandleValues, HandleClose, Received, Connected, boardVars
<1>2. TypeOK /\ peer \in Cards /\ rx \in Seq(Messages) /\ ~Offline
  BY <1>1 DEF IInv, TypeOK, Phases, Offline
<1>3. Head(rx) \in Messages /\ 1 \in DOMAIN rx /\ Head(rx) = rx[1]
  BY <1>1, <1>2
<1> DEFINE m == Head(rx)
<1>4. ASSUME HandleDeviceInfo, ~waiting', NEW p \in Paths
      PROVE  path'[p].data \in Says(m, PathOid(peer, p))
  <2>1. m.type = "devinfo"
    BY <1>4 DEF HandleDeviceInfo, Received
  <2>2. waiting
    BY <1>1, <1>2, <2>1, TailInfo DEF IInv, Identified
  <2>3. ~SortThrows(m.logos) /\ Complete(m) /\ path' = InfoPaths(m.logos)
    BY <1>4, <2>2 DEF HandleDeviceInfo
  <2>4. m \in InfoMessages(peer)
    <3>1. m.uuid = peer
      BY <1>3, <2>1 DEF IInv, InfosFromPeer
    <3> QED BY <1>3, <2>1, <3>1 DEF Messages, InfoMessages, ValueMessages, CloseMessage
  <2>5. InfoPaths(m.logos)[p].id = PathOid(peer, p)
    BY <1>2, <2>3, <2>4, InfoIdentifies, OidsOfPaths DEF Paths
  <2>6. LET S == DOMAIN m.logos
        IN  /\ S # {} /\ Above(S) # {} /\ LowestOf(S) \in S /\ LowestOf(Above(S)) \in S
            /\ S \in SUBSET (Oids(peer) \cup {Junk})
    <3> DEFINE S == DOMAIN m.logos
    <3>1. S \in SUBSET (Oids(peer) \cup {Junk}) /\ Above(S) # {} /\ Above(S) \in SUBSET S
      BY <2>3, <2>4, AboveIsPart DEF InfoMessages, Complete
    <3>2. S # {}
      BY <3>1
    <3>3. LowestOf(S) \in S
      BY <1>2, <3>1, <3>2, LowestExists
    <3>4. LowestOf(Above(S)) \in S
      <4>1. Above(S) \in SUBSET (Oids(peer) \cup {Junk})
        BY <3>1
      <4> QED BY <1>2, <3>1, <4>1, LowestExists
    <3> QED BY <3>1, <3>2, <3>3, <3>4
  <2>7. \E i \in DOMAIN m.logos : InfoPaths(m.logos)[p] = Entry(m.logos, i)
    <3>1. CASE p = 1
      BY <2>6, <3>1 DEF InfoPaths, Paths
    <3>2. CASE p = 2
      BY <2>6, <3>2 DEF InfoPaths, Paths
    <3> QED BY <3>1, <3>2 DEF Paths
  <2>8. PICK i \in DOMAIN m.logos : InfoPaths(m.logos)[p] = Entry(m.logos, i)
    BY <2>7
  <2>9. i = PathOid(peer, p) /\ path'[p].data = m.logos[i]
    BY <2>3, <2>5, <2>8 DEF Entry
  <2>10. Says(m, PathOid(peer, p)) = {m.logos[k] : k \in {k \in DOMAIN m.logos : k = PathOid(peer, p)}}
    BY <2>1 DEF Says
  <2> QED BY <2>9, <2>10
<1>5. ASSUME HandleValues, ~waiting', NEW p \in Paths
      PROVE  \/ /\ ~waiting /\ Says(m, PathOid(peer, p)) = {}
                /\ path'[p].data = path[p].data /\ (p = 2 /\ 2 \in missed => 2 \in missed')
             \/ path'[p].data \in Says(m, PathOid(peer, p))
             \/ p = 2 /\ 2 \in missed'
  <2> DEFINE o == PathOid(peer, p)
             elems == m.elems
             hit(q) == {i \in Applied(elems) : Target(elems[i].oid) = q}
  <2>1. /\ m.type = "values" /\ ~waiting
        /\ path' = [q \in Paths |-> IF hit(q) = {} THEN path[q]
                                    ELSE [id |-> path[q].id,
                                          data |-> elems[CHOOSE i \in hit(q) : TRUE].data]]
        /\ missed' = (missed \ TargetsOf(elems, Applied(elems)))
                        \cup (TargetsOf(elems, Accepted(elems) \ Applied(elems)) \cap Paths)
    BY <1>5 DEF HandleValues, Received
  <2>2. \A i \in DOMAIN elems : Target(elems[i].oid) = p <=> elems[i].oid = o
    <3>1. path[1].id = First[peer] /\ path[2].id = Second[peer]
      BY <1>2, <2>1 DEF IInv, Identified
    <3> QED BY <1>2, <3>1, OidsOfPaths DEF Target, Paths
  <2>3. Says(m, o) = {elems[i].data : i \in {i \in Accepted(elems) : elems[i].oid = o}}
    BY <2>1 DEF Says
  <2>4. Applied(elems) \subseteq Accepted(elems) /\ Accepted(elems) \subseteq DOMAIN elems
    BY DEF Applied, Accepted
  <2>5. CASE hit(p) # {}
    <3>1. PICK i \in hit(p) : i = CHOOSE j \in hit(p) : TRUE
      BY <2>5
    <3>2. path'[p].data = elems[i].data
      BY <2>1, <2>5, <3>1
    <3> QED BY <2>2, <2>3, <2>4, <3>1, <3>2
  <2>6. CASE hit(p) = {} /\ Says(m, o) = {}
    <3>1. path'[p].data = path[p].data
      BY <2>1, <2>6
    <3>2. p = 2 => (2 \in missed => 2 \in missed')
      BY <2>1, <2>6 DEF TargetsOf
    <3> QED BY <2>1, <2>6, <3>1, <3>2
  <2>7. CASE hit(p) = {} /\ Says(m, o) # {}
    <3>1. PICK i \in Accepted(elems) : elems[i].oid = o
      BY <2>3, <2>7
    <3>2. i \notin Applied(elems)
      BY <2>2, <2>4, <2>7, <3>1
    <3>3. p # 1
      BY <1>2, <1>3, <2>1, <3>1, <3>2, OidsOfPaths DEF Reporting, FirstCounts
    <3>4. 2 \in missed'
      BY <2>1, <2>2, <2>4, <3>1, <3>2, <3>3 DEF TargetsOf, Paths
    <3> QED BY <3>3, <3>4 DEF Paths
  <2> QED BY <2>5, <2>6, <2>7
<1>6. ASSUME HandleClose, ~waiting', NEW p \in Paths
      PROVE  /\ ~waiting /\ Says(m, PathOid(peer, p)) = {}
             /\ path'[p].data = path[p].data /\ (2 \in missed => 2 \in missed')
  BY <1>6 DEF HandleClose, Received, Says, boardVars, ghostVars
<1> QED BY <1>1, <1>2, <1>4, <1>5, <1>6, BoardTakes

\* What the cards send.
LEMMA CardSideReports ==
  ASSUME IInv, Reporting, CardSide
  PROVE  Reporting'
<1> USE CardsAssumption
<1>1. TypeOK /\ Connected /\ peer \in Cards /\ card \in [Oids(peer) -> Data]
      /\ UNCHANGED <<pc, peer, readyState, rx, path, missed, waiting>>
  BY DEF CardSide, CardAnswersInfo, CardAnswersSet, CardCloses, CardChanges, CardHears,
       Connected, IInv, TypeOK, boardVars, ghostVars
<1>2. \A p \in Paths : PathOid(peer, p) \in Oids(peer) /\ PathOid(peer, p) # Junk
      /\ PathOid(peer, 1) = First[peer] /\ PathOid(peer, 2) = Second[peer] /\ First[peer] # Second[peer]
  BY <1>1, OidsOfPaths
<1>3. CASE CardAnswersInfo
  <2>1. UNCHANGED card
    BY <1>3 DEF CardAnswersInfo
  <2>2. PICK ids, named : inbox' = Append(inbox, CardInfo(ids, named))
    BY <1>3 DEF CardAnswersInfo
  <2> DEFINE m == CardInfo(ids, named)
  <2>3. m.type = "devinfo" /\ m.logos = [i \in ids |-> IF i = Junk THEN {} ELSE card[i]]
    BY DEF CardInfo
  <2>4. inbox' = Append(inbox, m)
    BY <2>2
  <2> HIDE DEF m
  <2>5. \A p \in Paths : Says(m, PathOid(peer, p)) \subseteq {card[PathOid(peer, p)]}
    BY <1>2, <2>3 DEF Says
  <2> QED BY <1>1, <2>1, <2>3, <2>4, <2>5, CardReports
<1>4. CASE CardAnswersSet
  <2> DEFINE f == Head(outbox)
             S == DOMAIN f.elems
  <2>1. outbox \in Seq(Frames) /\ outbox # <<>> /\ f.type = "set" /\ f = outbox[1] /\ 1 \in DOMAIN outbox
    BY <1>1, <1>4 DEF CardAnswersSet, CardHears, TypeOK
  <2>2. S \subseteq Paths /\ \A i \in S : f.elems[i].oid = PathOid(peer, i)
    <3>1. f \in SetFrames
      BY <2>1 DEF Frames, GetDeviceInfo
    <3>2. S \subseteq Paths
      BY <3>1 DEF SetFrames, PathSets, Paths
    <3> QED BY <2>1, <3>2 DEF IInv, CommandsAddressed, SetFramesIn
  <2>3. PICK res \in [S -> {"setOK", "refused", "error"}] :
          /\ card' = [o \in DOMAIN card |->
               IF \E i \in S : res[i] = "setOK" /\ f.elems[i].oid = o
                 THEN f.elems[CHOOSE i \in S : f.elems[i].oid = o].data
                 ELSE card[o]]
          /\ inbox' = Append(inbox, [type |-> "values",
               elems |-> [i \in S |->
                  [oid |-> f.elems[i].oid, data |-> f.elems[i].data, res |-> res[i]]]])
    BY <1>4 DEF CardAnswersSet
  <2> DEFINE e == [i \in S |-> [oid |-> f.elems[i].oid, data |-> f.elems[i].data, res |-> res[i]]]
             m == [type |-> "values", elems |-> e]
  <2>4. /\ DOMAIN e = S
        /\ \A i \in S : e[i].oid = PathOid(peer, i) /\ e[i].data = f.elems[i].data /\ e[i].res = res[i]
    BY <2>2
  <2>5. m.type = "values" /\ m.elems = e /\ inbox' = Append(inbox, m)
    BY <2>3
  <2> HIDE DEF e, m
  <2>6. \A i, j \in S : PathOid(peer, i) = PathOid(peer, j) => i = j
    BY <1>2, <2>2 DEF Paths
  <2>7. ASSUME NEW i \in Accepted(e), e[i].oid = First[peer] PROVE i \in Applied(e)
    <3>1. i \in S /\ e[i].res = "setOK"
      BY <2>4 DEF Accepted
    <3>2. i = 1
      BY <1>2, <2>2, <2>4, <2>7, <3>1 DEF Paths
    <3>3. \A j \in DOMAIN e : j <= i => e[j].res # "error"
      BY <2>2, <2>4, <3>1, <3>2 DEF Paths
    <3> QED BY <2>4, <3>1, <3>3 DEF Applied
  <2>8. ASSUME NEW p \in Paths
        PROVE  /\ Says(m, PathOid(peer, p)) \subseteq {card'[PathOid(peer, p)]}
               /\ Says(m, PathOid(peer, p)) = {} => card'[PathOid(peer, p)] = card[PathOid(peer, p)]
    <3> DEFINE o == PathOid(peer, p)
    <3>1. Says(m, o) = {e[i].data : i \in {i \in Accepted(e) : e[i].oid = o}}
      BY <2>5 DEF Says
    <3>2. o \in DOMAIN card
      BY <1>1, <1>2
    <3>3. ASSUME NEW i \in S, res[i] = "setOK", PathOid(peer, i) = o
          PROVE  card'[o] = f.elems[i].data /\ e[i].data \in Says(m, o)
      <4>1. card'[o] = f.elems[CHOOSE j \in S : f.elems[j].oid = o].data
        BY <2>2, <2>3, <3>2, <3>3
      <4>2. (CHOOSE j \in S : f.elems[j].oid = o) = i
        BY <2>2, <2>6, <3>3
      <4>3. i \in Accepted(e) /\ e[i].oid = o
        BY <2>4, <3>3 DEF Accepted
      <4> QED BY <3>1, <4>1, <4>2, <4>3
    <3>4. \A i \in Accepted(e) : e[i].oid = o => i \in S /\ res[i] = "setOK" /\ PathOid(peer, i) = o
      BY <2>4 DEF Accepted
    <3>5. Says(m, o) \subseteq {card'[o]}
      BY <2>4, <3>1, <3>3, <3>4
    <3>6. Says(m, o) = {} => card'[o] = card[o]
      <4>1. Says(m, o) = {} => ~\E i \in S : res[i] = "setOK" /\ f.elems[i].oid = o
        BY <2>2, <3>3
      <4> QED BY <2>3, <3>2, <4>1
    <3> QED BY <3>5, <3>6
  <2> QED BY <1>1, <2>5, <2>7, <2>8, CardReports
<1>5. CASE CardCloses
  <2> DEFINE m == [type |-> "close"]
  <2>1. m.type = "close" /\ inbox' = Append(inbox, m) /\ UNCHANGED card
    BY <1>5 DEF CardCloses
  <2> HIDE DEF m
  <2>2. \A o : Says(m, o) = {}
    BY <2>1 DEF Says
  <2> QED BY <1>1, <2>1, <2>2, CardReports
<1>6. ASSUME NEW oid \in DOMAIN card, NEW d \in Data, CardChanges(oid, d) PROVE Reporting'
  <2> DEFINE e == [i \in {1} |-> [oid |-> oid, data |-> d, res |-> "setOK"]]
             m == [type |-> "values", elems |-> e]
  <2>1. /\ m.type = "values" /\ m.elems = e /\ inbox' = Append(inbox, m)
        /\ card' = [card EXCEPT ![oid] = d]
    BY <1>6 DEF CardChanges
  <2>2. DOMAIN e = {1} /\ e[1].oid = oid /\ e[1].data = d /\ e[1].res = "setOK"
    OBVIOUS
  <2> HIDE DEF e, m
  <2>3. Accepted(e) = {1} /\ Applied(e) = {1}
    BY <2>2 DEF Accepted, Applied
  <2>4. \A o : Says(m, o) = IF oid = o THEN {d} ELSE {}
    BY <2>1, <2>2, <2>3 DEF Says
  <2>5. \A o \in Oids(peer) : card'[o] = IF oid = o THEN d ELSE card[o]
    BY <1>1, <2>1
  <2> QED BY <1>1, <1>2, <2>1, <2>3, <2>4, <2>5, CardReports
<1> QED BY <1>3, <1>4, <1>5, <1>6 DEF CardSide

\* The steps that connect, receive and give up a connection.
LEMMA SocketReports ==
  ASSUME IInv, Reporting, Connects \/ LeaveLoop \/ Poll \/ PollLosesConnection
  PROVE  Reporting'
<1>0. TypeOK /\ inbox \in Seq(Messages)
  BY DEF IInv, TypeOK
<1>1. CASE Connects
  <2>1. waiting' /\ rx' = <<>> /\ inbox' = <<>> /\ pc' = "loop"
    BY <1>1 DEF Connects, IInv, Phases, boardVars
  <2> QED BY <2>1 DEF Reporting, FirstCounts, Told, LastSays
<1>2. CASE LeaveLoop
  BY <1>2 DEF LeaveLoop, NoSocket, Reporting, FirstCounts, Connected
<1>3. CASE Poll
  <2>1. rx' = inbox /\ inbox' = <<>> /\ pc' = "dispatch" /\ UNCHANGED <<peer, card, path, missed, waiting>>
    <3>1. rx = <<>>
      BY <1>3 DEF Poll, IInv, Phases
    <3> QED BY <1>0, <1>3, <3>1, ConcatEmptySeq DEF Poll, boardVars, ghostVars
  <2>2. Connected' => Connected
    BY <1>3 DEF Poll, Connected
  <2>3. ASSUME Connected', NEW p \in Paths PROVE Told(PathOid(peer, p))' /\ (~waiting' => Shown(p)')
    <3>1. LastSays(inbox, PathOid(peer, p), card[PathOid(peer, p)]) /\ (~waiting => Shown(p))
      BY <2>2, <2>3 DEF Reporting, Told
    <3>2. Told(PathOid(peer, p))'
      BY <2>1, <3>1 DEF Told, LastSays, PathOid
    <3>3. ~waiting' => Shown(p)'
      <4>1. rx = <<>>
        BY <1>3 DEF Poll, IInv, Phases
      <4> QED BY <2>1, <3>1, <4>1 DEF Shown, Silent, PathOid
    <3> QED BY <3>2, <3>3
  <2> QED BY <2>1, <2>3 DEF Reporting, FirstCounts, PathOid
<1>4. CASE PollLosesConnection
  <2>1. /\ rx = <<>> /\ ~Connected' /\ inbox' = <<>> /\ pc' = "dispatch" /\ UNCHANGED peer
        /\ \E k \in 0..Len(inbox) : rx' = rx \o SubSeq(inbox, 1, k)
    BY <1>4 DEF PollLosesConnection, Connected, IInv, Phases
  <2>2. PICK k \in 0..Len(inbox) : rx' = SubSeq(inbox, 1, k)
    BY <1>0, <2>1, PrefixInfo
  <2>3. \A i \in DOMAIN rx' : i \in DOMAIN inbox /\ rx'[i] = inbox[i]
    BY <1>0, <2>2, SubSeqProperties
  <2> QED BY <2>1, <2>3 DEF Reporting, FirstCounts
<1> QED BY <1>1, <1>2, <1>3, <1>4

\* Every step keeps it.
LEMMA ReportingStep == IInv /\ Reporting /\ [Next]_vars => Reporting'
<1> SUFFICES ASSUME IInv, Reporting, [Next]_vars PROVE Reporting'
  OBVIOUS
<1>1. CASE Api \/ UNCHANGED vars
  <2>1. UNCHANGED <<pc, peer, readyState, rx, inbox, card, path, missed, waiting>>
    BY <1>1 DEF Api, SetLogo, SetLogos, Push, SetIp, Destroy, vars, boardVars, wsVars, ghostVars
  <2>2. (Connected' => Connected) /\ (pc' \in {"drain", "poll"} => readyState' # "CLOSED")
    BY <2>1 DEF Connected, Reporting
  <2> QED BY <2>1, <2>2, ReportsStay
<1>2. CASE Top \/ NoAddress \/ ClearQueue \/ ConnectFails \/ Dials
             \/ HandshakeFails \/ HandshakeHangs
  BY <1>2, ReportsStay
     DEF Top, NoAddress, ClearQueue, ConnectFails, Dials, HandshakeFails, HandshakeHangs,
          boardVars, wsVars, ghostVars, Connected
<1>3. CASE EnterLoop \/ SendCommand \/ QueueDrained \/ DispatchDone \/ PollSelectError
  BY <1>3, ReportsStay
     DEF EnterLoop, Leaves, SendCommand, QueueDrained, DispatchDone, PollSelectError,
          boardVars, wsVars, ghostVars, Connected, Reporting
<1> QED BY <1>1, <1>2, <1>3, HandlersReport, CardSideReports, SocketReports DEF Next,
     Comms, Thread, Handshake

\* GetLogosStatus: whoever changes the card, and whatever was lost before, a board
\* that is ready and has handled all it received reports what the card has.
THEOREM CoherentHolds == Spec => []Coherent
<1>1. Init => Reporting
  BY CardsAssumption DEF Init, Reporting, FirstCounts, Connected
<1>2. IInv /\ Reporting => Coherent
  <2> SUFFICES ASSUME IInv, Reporting, Quiet
               PROVE  /\ path[1].data = card[First[peer]]
                      /\ 2 \notin missed => path[2].data = card[Second[peer]]
    BY DEF Coherent
  <2>1. \A p \in Paths : Shown(p)
    BY DEF Quiet, Ready, Reporting
  <2>2. inbox = <<>> /\ rx = <<>>
    BY DEF Quiet
  <2> QED BY <2>1, <2>2 DEF Shown, Silent, PathOid, Paths
<1> QED BY Invariant, ReportingStep, <1>1, <1>2, PTL DEF Spec

-----------------------------------------------------------------------------
(* LogoBoard implements LogoService.                                         *)
(*                                                                           *)
(* Sequences in two parts: what is being sent and what waits behind it.      *)

LEMMA AppendToBack ==
  ASSUME NEW T, NEW s \in Seq(T), NEW t \in Seq(T), NEW o \in T
  PROVE  s \o Append(t, o) = Append(s \o t, o)
OBVIOUS

\* The front goes: the back is left.
LEMMA FrontGone ==
  ASSUME NEW T, NEW s \in Seq(T), NEW t \in Seq(T)
  PROVE  t = SubSeq(s \o t, 1, 0) \o SubSeq(s \o t, Len(s) + 1, Len(s \o t))
<1> DEFINE q == s \o t
<1>1. q \in Seq(T) /\ Len(q) = Len(s) + Len(t) /\ Len(s) \in Nat /\ Len(t) \in Nat
      /\ \A k \in 1..Len(t) : q[Len(s) + k] = t[k]
  OBVIOUS
<1> HIDE DEF q
<1>2. SubSeq(q, 1, 0) = <<>>
  BY <1>1
<1> DEFINE r == SubSeq(q, Len(s) + 1, Len(q))
<1>3. r \in Seq(T) /\ Len(r) = Len(t) /\ \A k \in 1..Len(t) : r[k] = t[k]
  BY <1>1
<1>4. r = t
  BY <1>3, SeqEqual
<1>5. <<>> \o r = r
  BY <1>3
<1> QED BY <1>2, <1>4, <1>5 DEF q

LEMMA HeadOfFront ==
  ASSUME NEW T, NEW s \in Seq(T), NEW t \in Seq(T), s # <<>>
  PROVE  /\ s \o t # <<>> /\ Head(s \o t) = Head(s)
         /\ Tail(s \o t) = Tail(s) \o t
OBVIOUS

\* One element goes from the back to the front.
LEMMA MovedUp ==
  ASSUME NEW T, NEW s \in Seq(T), NEW t \in Seq(T), t # <<>>
  PROVE  Append(s, Head(t)) \o Tail(t) = s \o t
OBVIOUS

\* The first element of the back is lost.
LEMMA FirstOfBackGone ==
  ASSUME NEW T, NEW s \in Seq(T), NEW t \in Seq(T), t # <<>>
  PROVE  /\ Len(s) \in 0..Len(s \o t) /\ Len(s) + 2 \in 1..(Len(s \o t) + 1)
         /\ s \o Tail(t) = SubSeq(s \o t, 1, Len(s))
                             \o SubSeq(s \o t, Len(s) + 2, Len(s \o t))
<1> DEFINE q == s \o t
<1>1. q \in Seq(T) /\ Len(q) = Len(s) + Len(t) /\ Len(s) \in Nat /\ Len(t) \in Nat \ {0}
      /\ (\A k \in 1..Len(t) : q[Len(s) + k] = t[k]) /\ \A k \in 1..Len(s) : q[k] = s[k]
  OBVIOUS
<1> HIDE DEF q
<1>2. SubSeq(q, 1, Len(s)) = s
  <2> DEFINE a == SubSeq(q, 1, Len(s))
  <2>1. a \in Seq(T) /\ Len(a) = Len(s) /\ \A k \in 1..Len(s) : a[k] = s[k] BY <1>1
  <2> QED BY <2>1, SeqEqual
<1>3. SubSeq(q, Len(s) + 2, Len(q)) = Tail(t)
  <2> DEFINE r == SubSeq(q, Len(s) + 2, Len(q))
  <2>0. r \in Seq(T) /\ Len(r) = Len(t) - 1
        /\ \A k \in 1..(Len(t) - 1) : r[k] = q[Len(s) + 1 + k]
    <3>1. Len(s) + 2 \in 1..(Len(q) + 1) /\ Len(q) - (Len(s) + 2) + 1 = Len(t) - 1
      BY <1>1
    <3>2. \A i \in (Len(s) + 2)..Len(q) : q[i] \in T
      BY <1>1
    <3>3. r = [k \in 1..(Len(t) - 1) |-> q[Len(s) + 1 + k]]
      BY <1>1, <3>1, SMT
    <3> HIDE DEF r
    <3> QED BY <1>1, <3>1, <3>2, <3>3
  <2>1. \A k \in 1..(Len(t) - 1) : r[k] = t[k + 1]
    <3> SUFFICES ASSUME NEW k \in 1..(Len(t) - 1) PROVE r[k] = t[k + 1]
      OBVIOUS
    <3>1. k + 1 \in 1..Len(t) /\ Len(s) + 1 + k = Len(s) + (k + 1) BY <1>1
    <3> QED BY <1>1, <2>0, <3>1
  <2>2. Tail(t) \in Seq(T) /\ Len(Tail(t)) = Len(t) - 1
        /\ \A k \in 1..(Len(t) - 1) : Tail(t)[k] = t[k + 1]
    OBVIOUS
  <2> QED BY <2>0, <2>1, <2>2, SeqEqual
<1>4. Len(s) \in 0..Len(q) /\ Len(s) + 2 \in 1..(Len(q) + 1)
  BY <1>1
<1> QED BY <1>2, <1>3, <1>4 DEF q

-----------------------------------------------------------------------------
(* The orders in the queues.                                                 *)

LEMMA FrameOrdersSeq ==
  ASSUME NEW q \in Seq(SetFrames)
  PROVE  /\ FrameOrders(q) \in Seq(Promise!Orders) /\ Len(FrameOrders(q)) = Len(q)
         /\ q # <<>> => /\ FrameOrders(Tail(q)) = Tail(FrameOrders(q))
                        /\ Head(FrameOrders(q)) =
                             [p \in DOMAIN Head(q).elems |-> Head(q).elems[p].data]
         /\ \A f \in SetFrames : FrameOrders(Append(q, f)) =
              Append(FrameOrders(q), [p \in DOMAIN f.elems |-> f.elems[p].data])
<1> DEFINE O(f) == [p \in DOMAIN f.elems |-> f.elems[p].data]
<1>1. \A f \in SetFrames : O(f) \in Promise!Orders
  <2> SUFFICES ASSUME NEW f \in SetFrames PROVE O(f) \in Promise!Orders
    OBVIOUS
  <2>1. PICK S \in PathSets : f.elems \in [S -> [oid : Ids, data : Data]]
    BY DEF SetFrames
  <2>2. S \in SUBSET Paths BY DEF PathSets, Paths
  <2> QED BY <2>1, <2>2 DEF Promise!Orders
<1>2. FrameOrders(q) = [i \in 1..Len(q) |-> O(q[i])]
  BY DEF FrameOrders
<1> HIDE DEF O
<1>3. FrameOrders(q) \in Seq(Promise!Orders) /\ Len(FrameOrders(q)) = Len(q)
  BY <1>1, <1>2
<1>4. ASSUME q # <<>>
      PROVE  FrameOrders(Tail(q)) = Tail(FrameOrders(q)) /\ Head(FrameOrders(q)) = O(Head(q))
  <2>1. FrameOrders(Tail(q)) = [i \in 1..(Len(q) - 1) |-> O(q[i + 1])]
    BY <1>4 DEF FrameOrders, O
  <2>2. Tail(FrameOrders(q)) = [i \in 1..(Len(q) - 1) |-> FrameOrders(q)[i + 1]]
    BY <1>2, <1>3, <1>4
  <2>3. \A i \in 1..(Len(q) - 1) : FrameOrders(q)[i + 1] = O(q[i + 1])
    BY <1>2
  <2> QED BY <1>2, <1>3, <1>4, <2>1, <2>2, <2>3
<1>5. ASSUME NEW f \in SetFrames
      PROVE  FrameOrders(Append(q, f)) = Append(FrameOrders(q), O(f))
  <2>1. FrameOrders(Append(q, f)) = [i \in 1..(Len(q) + 1) |-> O(Append(q, f)[i])]
    BY DEF FrameOrders, O
  <2>2. \A i \in 1..(Len(q) + 1) :
          Append(FrameOrders(q), O(f))[i] = IF i <= Len(q) THEN O(q[i]) ELSE O(f)
    BY <1>2, <1>3
  <2>3. \A i \in 1..(Len(q) + 1) :
          O(Append(q, f)[i]) = IF i <= Len(q) THEN O(q[i]) ELSE O(f)
    OBVIOUS
  <2>4. /\ FrameOrders(Append(q, f)) \in Seq(Promise!Orders)
        /\ Len(FrameOrders(Append(q, f))) = Len(q) + 1
    BY <1>1, <2>1
  <2>5. /\ Append(FrameOrders(q), O(f)) \in Seq(Promise!Orders)
        /\ Len(Append(FrameOrders(q), O(f))) = Len(q) + 1
    BY <1>1, <1>3
  <2> QED BY <2>1, <2>2, <2>3, <2>4, <2>5, SeqEqual
<1> QED BY <1>3, <1>4, <1>5 DEF O

LEMMA CommandOrdersSeq ==
  ASSUME NEW q \in Seq(Commands)
  PROVE  /\ CommandOrders(q) \in Seq(Promise!Orders) /\ Len(CommandOrders(q)) = Len(q)
         /\ q # <<>> =>
              /\ CommandOrders(Tail(q)) = Tail(CommandOrders(q))
              /\ Head(CommandOrders(q)) =
                   [p \in DOMAIN Head(q).set |-> {l \in Logos : l = Head(q).set[p]}]
         /\ \A c \in Commands : \E o \in Promise!Orders :
              CommandOrders(Append(q, c)) = Append(CommandOrders(q), o)
<1> DEFINE O(c) == [p \in DOMAIN c.set |-> {l \in Logos : l = c.set[p]}]
<1>1. \A c \in Commands : O(c) \in Promise!Orders
  <2> SUFFICES ASSUME NEW c \in Commands PROVE O(c) \in Promise!Orders
    OBVIOUS
  <2>1. PICK S \in PathSets : c.set \in [S -> Sel]
    BY DEF Commands
  <2>2. S \in SUBSET Paths BY DEF PathSets, Paths
  <2>3. O(c) \in [S -> Data] BY <2>1 DEF Data
  <2> QED BY <2>2, <2>3 DEF Promise!Orders
<1>2. CommandOrders(q) = [i \in 1..Len(q) |-> O(q[i])]
  BY DEF CommandOrders
<1> HIDE DEF O
<1>3. CommandOrders(q) \in Seq(Promise!Orders) /\ Len(CommandOrders(q)) = Len(q)
  BY <1>1, <1>2
<1>4. ASSUME q # <<>>
      PROVE  CommandOrders(Tail(q)) = Tail(CommandOrders(q))
             /\ Head(CommandOrders(q)) = O(Head(q))
  <2>1. CommandOrders(Tail(q)) = [i \in 1..(Len(q) - 1) |-> O(q[i + 1])]
    BY <1>4 DEF CommandOrders, O
  <2>2. Tail(CommandOrders(q)) = [i \in 1..(Len(q) - 1) |-> CommandOrders(q)[i + 1]]
    BY <1>2, <1>3, <1>4
  <2>3. \A i \in 1..(Len(q) - 1) : CommandOrders(q)[i + 1] = O(q[i + 1])
    BY <1>2
  <2> QED BY <1>2, <1>3, <1>4, <2>1, <2>2, <2>3
<1>5. ASSUME NEW c \in Commands
      PROVE  CommandOrders(Append(q, c)) = Append(CommandOrders(q), O(c))
  <2>1. CommandOrders(Append(q, c)) = [i \in 1..(Len(q) + 1) |-> O(Append(q, c)[i])]
    BY DEF CommandOrders, O
  <2>2. \A i \in 1..(Len(q) + 1) :
          Append(CommandOrders(q), O(c))[i] = IF i <= Len(q) THEN O(q[i]) ELSE O(c)
    BY <1>2, <1>3
  <2>3. \A i \in 1..(Len(q) + 1) :
          O(Append(q, c)[i]) = IF i <= Len(q) THEN O(q[i]) ELSE O(c)
    OBVIOUS
  <2>4. /\ CommandOrders(Append(q, c)) \in Seq(Promise!Orders)
        /\ Len(CommandOrders(Append(q, c))) = Len(q) + 1
    BY <1>1, <2>1
  <2>5. /\ Append(CommandOrders(q), O(c)) \in Seq(Promise!Orders)
        /\ Len(Append(CommandOrders(q), O(c))) = Len(q) + 1
    BY <1>1, <1>3
  <2> QED BY <2>1, <2>2, <2>3, <2>4, <2>5, SeqEqual
<1> QED BY <1>1, <1>3, <1>4, <1>5 DEF O

\* The one-hot vector of a command is what its order says.
LEMMA FrameOfCommand ==
  ASSUME NEW cmd \in Commands
  PROVE  [p \in DOMAIN SetFrame(cmd).elems |-> SetFrame(cmd).elems[p].data]
           = [p \in DOMAIN cmd.set |-> {l \in Logos : l = cmd.set[p]}]
BY DEF SetFrame, OneHot

-----------------------------------------------------------------------------
(* No other frame is mixed with the set frames: until the device info is     *)
(* there none is sent, and from then on the device info is not asked for.    *)

Unmixed == waiting => SetFramesIn(outbox) = {}

LEMMA UnmixedStep == IInv /\ Unmixed /\ [Next]_vars => Unmixed'
<1> SUFFICES ASSUME IInv, Unmixed, [Next]_vars PROVE Unmixed'
  OBVIOUS
<1> USE DEF Unmixed, SetFramesIn
<1>0. TypeOK /\ Phases /\ outbox \in Seq(Frames) BY DEF IInv, TypeOK
<1>1. CASE UNCHANGED <<outbox, waiting>>
  BY <1>1
<1>2. CASE outbox' \in {<<>>, <<GetDeviceInfo>>}
  BY <1>2 DEF GetDeviceInfo
<1>3. CASE outbox' = Append(outbox, GetDeviceInfo) /\ (waiting' => waiting)
  BY <1>0, <1>3 DEF GetDeviceInfo
<1>4. CASE outbox # <<>> /\ outbox' = Tail(outbox) /\ UNCHANGED waiting
  BY <1>0, <1>4
<1>5. CASE SendCommand
  BY <1>0, <1>5 DEF SendCommand, Phases
<1>6. CASE outbox' = outbox /\ (waiting' => waiting)
  BY <1>6
<1>7. ASSUME Api PROVE UNCHANGED <<outbox, waiting>>
  BY <1>7 DEF Api, SetLogo, SetLogos, Push, SetIp, Destroy, wsVars
<1>8. ASSUME CardSide
      PROVE  UNCHANGED waiting /\ (outbox' = outbox \/ (outbox # <<>> /\ outbox' = Tail(outbox)))
  BY <1>8 DEF CardSide, CardAnswersInfo, CardAnswersSet, CardCloses, CardChanges, CardHears,
     boardVars
<1>9. ASSUME Comms
      PROVE  \/ SendCommand
             \/ outbox' = outbox /\ (waiting' => waiting)
             \/ outbox' \in {<<>>, <<GetDeviceInfo>>}
             \/ outbox' = Append(outbox, GetDeviceInfo) /\ (waiting' => waiting)
  <2>1. CASE ClearQueue
    BY <1>0, <2>1 DEF ClearQueue, wsVars, Phases, Offline
  <2>2. CASE HandleDeviceInfo
    BY <2>2 DEF HandleDeviceInfo, AsksAgain, Sent
  <2>3. CASE Top \/ NoAddress \/ ConnectFails \/ Dials \/ HandshakeFails
             \/ HandshakeHangs \/ Connects \/ LeaveLoop \/ EnterLoop
             \/ QueueDrained \/ DispatchDone \/ Poll \/ PollLosesConnection
             \/ PollSelectError \/ HandleValues \/ HandleClose
    BY <2>3 DEF Top, NoAddress, ConnectFails, Dials, HandshakeFails, HandshakeHangs,
       Connects, LeaveLoop, NoSocket, EnterLoop,
       QueueDrained, DispatchDone, Poll, PollLosesConnection, PollSelectError,
       HandleValues, HandleClose, boardVars, wsVars
  <2> QED BY <1>9, <2>1, <2>2, <2>3 DEF Comms, Thread, Handshake
<1>10. CASE Api BY <1>1, <1>7, <1>10
<1>11. CASE CardSide BY <1>1, <1>4, <1>8, <1>11
<1>12. CASE Comms BY <1>2, <1>3, <1>5, <1>6, <1>9, <1>12
<1>13. CASE UNCHANGED vars BY <1>1, <1>13 DEF vars, boardVars, wsVars
<1> QED BY <1>10, <1>11, <1>12, <1>13 DEF Next

\* So what is being sent is the outbox or nothing.
LEMMA SendingIs ==
  ASSUME IInv, Unmixed
  PROVE  /\ Sending \in Seq(SetFrames)
         /\ waiting => Sending = <<>>
         /\ ~waiting /\ ~Offline => Sending = outbox
         /\ outbox = <<>> => Sending = <<>>
<1>1. outbox \in Seq(Frames) BY DEF IInv, TypeOK
<1>2. waiting => Sending = <<>>
  BY <1>1 DEF Unmixed, Sending, SetFramesIn
<1>3. ASSUME ~waiting, ~Offline PROVE Sending = outbox /\ outbox \in Seq(SetFrames)
  <2>1. ~InfoIn(outbox) BY <1>3 DEF IInv, Identified
  <2>2. \A i \in DOMAIN outbox : outbox[i] \in Frames /\ outbox[i].type # "devinfo"
    BY <1>1, <2>1 DEF InfoIn
  <2>3. \A i \in DOMAIN outbox : outbox[i] \in SetFrames
    BY <2>2 DEF Frames, GetDeviceInfo
  <2>4. outbox \in Seq(SetFrames) BY <1>1, <2>3
  <2>5. outbox # <<>> => Head(outbox).type = "set"
    <3>1. \A f \in SetFrames : f.type = "set" BY DEF SetFrames
    <3>2. outbox # <<>> => Head(outbox) \in SetFrames BY <2>4
    <3> QED BY <3>1, <3>2
  <2> QED BY <2>4, <2>5 DEF Sending
<1>4. Offline => outbox = <<>> BY DEF IInv, Phases
<1>5. outbox = <<>> => Sending = <<>> BY DEF Sending
<1>6. Sending \in Seq(SetFrames)
  <2>1. CASE Sending = <<>> BY <2>1
  <2>2. CASE ~waiting /\ ~Offline BY <1>3, <2>2
  <2> QED BY <1>2, <1>4, <1>5, <2>1, <2>2
<1> HIDE DEF Sending
<1> QED BY <1>2, <1>3, <1>5, <1>6

-----------------------------------------------------------------------------
(* Each step of LogoBoard is a step of LogoService or leaves it alone.       *)

pendingVars == <<outbox, tx_queue>>

\* The lights are those of the card; they stay while it does.
LEMMA LightsStay ==
  ASSUME UNCHANGED <<peer, card>>
  PROVE  UNCHANGED <<peer, Lights>>
BY DEF Lights, PathOid

\* The queue of orders is in two parts, both sequences of orders.
LEMMA PendingParts ==
  ASSUME IInv, Unmixed
  PROVE  /\ FrameOrders(Sending) \in Seq(Promise!Orders)
         /\ CommandOrders(tx_queue) \in Seq(Promise!Orders)
         /\ Pending \in Seq(Promise!Orders)
<1>1. Sending \in Seq(SetFrames) BY SendingIs
<1>2. tx_queue \in Seq(Commands) BY DEF IInv, TypeOK
<1> QED BY <1>1, <1>2, FrameOrdersSeq, CommandOrdersSeq DEF Pending

\* A command of the API is accepted.
LEMMA PushAccepts ==
  ASSUME IInv, Unmixed, NEW set, [set |-> set, epoch |-> epoch] \in Commands, Push(set)
  PROVE  Promise!Accept
<1> DEFINE cmd == [set |-> set, epoch |-> epoch]
<1>1. tx_queue' = Append(tx_queue, cmd) /\ UNCHANGED <<outbox, peer, card>>
  BY DEF Push, wsVars
<1>2. tx_queue \in Seq(Commands) BY DEF IInv, TypeOK
<1>3. PICK o \in Promise!Orders :
        CommandOrders(tx_queue') = Append(CommandOrders(tx_queue), o)
  BY <1>1, <1>2, CommandOrdersSeq
<1>4. FrameOrders(Sending)' = FrameOrders(Sending)
  BY <1>1 DEF Sending, FrameOrders
<1>5. Pending' = Append(Pending, o)
  BY <1>3, <1>4, PendingParts, AppendToBack DEF Pending
<1> QED BY <1>1, <1>5, LightsStay DEF Promise!Accept

\* What was being sent is lost, with the connection or without.
LEMMA SendingLost ==
  ASSUME IInv, Unmixed, outbox' = <<>>, UNCHANGED tx_queue
  PROVE  Promise!LosesOrders
<1> DEFINE s == FrameOrders(Sending)
           t == CommandOrders(tx_queue)
<1>1. s \in Seq(Promise!Orders) /\ t \in Seq(Promise!Orders) BY PendingParts
<1>2. Sending' = <<>> BY DEF Sending
<1>3. FrameOrders(Sending)' = <<>> /\ CommandOrders(tx_queue)' = t
  BY <1>2 DEF FrameOrders, CommandOrders
<1> HIDE DEF s, t
<1>4. Pending' = t
  BY <1>1, <1>3 DEF Pending
<1>5. Pending = s \o t BY DEF Pending, s, t
<1>6. t = SubSeq(s \o t, 1, 0) \o SubSeq(s \o t, Len(s) + 1, Len(s \o t))
  BY <1>1, FrontGone
<1>7. 0 \in 0..Len(Pending) /\ Len(s) + 1 \in 1..(Len(Pending) + 1) /\ 0 < Len(s) + 1
  BY <1>1, <1>5
<1> QED BY <1>4, <1>5, <1>6, <1>7 DEF Promise!LosesOrders

\* tx_queue.clear() is called with no socket: everything is lost.
LEMMA ClearLoses ==
  ASSUME IInv, Unmixed, ClearQueue
  PROVE  Promise!Loses
<1>1. outbox = <<>> /\ outbox' = <<>> /\ tx_queue' = <<>> /\ UNCHANGED <<peer, card>>
  BY DEF ClearQueue, IInv, Phases, Offline, wsVars
<1>2. Pending' = <<>>
  BY <1>1 DEF Pending, Sending, FrameOrders, CommandOrders
<1>3. Pending \in Seq(Promise!Orders) BY PendingParts
<1>4. SubSeq(Pending, 1, 0) \o SubSeq(Pending, Len(Pending) + 1, Len(Pending)) = <<>>
  BY <1>3
<1>5. 0 \in 0..Len(Pending) /\ Len(Pending) + 1 \in 1..(Len(Pending) + 1)
      /\ 0 < Len(Pending) + 1
  BY <1>3
<1>6. Promise!LosesOrders BY <1>2, <1>4, <1>5 DEF Promise!LosesOrders
<1> QED BY <1>1, <1>6, LightsStay DEF Promise!Loses

\* A command goes from the queue to the socket, or is lost on the way.
LEMMA SendMovesOrLoses ==
  ASSUME IInv, Unmixed, SendCommand, NeverCrashes'
  PROVE  UNCHANGED <<peer, Lights, Pending>> \/ Promise!Loses
<1> DEFINE cmd == Head(tx_queue)
           s == FrameOrders(Sending)
           t == CommandOrders(tx_queue)
<1>1. tx_queue \in Seq(Commands) /\ tx_queue # <<>> /\ tx_queue' = Tail(tx_queue)
      /\ cmd \in Commands
  BY DEF IInv, TypeOK, SendCommand
<1>2. ~waiting /\ ~Offline /\ ~waiting' /\ UNCHANGED <<peer, card>>
  BY DEF IInv, Phases, Offline, SendCommand
<1>3. /\ \A p \in DOMAIN cmd.set : Numeric(path[p].id)
      /\ outbox' = outbox \/ outbox' = Append(outbox, SetFrame(cmd))
  BY DEF SendCommand, NeverCrashes, Sent
<1>4. SetFrame(cmd) \in SetFrames
  BY <1>1, <1>3, SetFrameType DEF IInv
<1>5. Sending = outbox /\ outbox \in Seq(SetFrames)
  BY <1>2, SendingIs
<1>6. s \in Seq(Promise!Orders) /\ t \in Seq(Promise!Orders) /\ Len(t) = Len(tx_queue)
  BY <1>1, PendingParts, CommandOrdersSeq
<1>7. CommandOrders(tx_queue)' = Tail(t)
  <2>1. CommandOrders(tx_queue)' = CommandOrders(tx_queue') BY DEF CommandOrders
  <2>2. CommandOrders(Tail(tx_queue)) = Tail(CommandOrders(tx_queue))
    BY <1>1, CommandOrdersSeq
  <2> QED BY <1>1, <2>1, <2>2
<1>8. UNCHANGED <<peer, Lights>> BY <1>2, LightsStay
<1>9. t # <<>> BY <1>1, <1>6
<1>10. CASE outbox' = outbox
  <2>1. FrameOrders(Sending)' = s BY <1>10 DEF FrameOrders, Sending
  <2>2. Pending' = s \o Tail(t) BY <1>7, <2>1 DEF Pending
  <2>3. Pending = s \o t BY DEF Pending
  <2> HIDE DEF s, t
  <2>4. /\ Len(s) \in 0..Len(s \o t) /\ Len(s) + 2 \in 1..(Len(s \o t) + 1)
        /\ s \o Tail(t) = SubSeq(s \o t, 1, Len(s))
                            \o SubSeq(s \o t, Len(s) + 2, Len(s \o t))
    BY <1>6, <1>9, FirstOfBackGone
  <2>5. Len(s) < Len(s) + 2 BY <1>6
  <2>6. Promise!LosesOrders
    BY <2>2, <2>3, <2>4, <2>5, Zenon DEF Promise!LosesOrders
  <2> QED BY <1>8, <2>6 DEF Promise!Loses
<1>11. CASE outbox' = Append(outbox, SetFrame(cmd))
  <2> DEFINE f == SetFrame(cmd)
  <2>1. Head(outbox').type = "set" /\ outbox' # <<>>
    <3>1. \A g \in SetFrames : g.type = "set" BY DEF SetFrames
    <3>2. outbox' \in Seq(SetFrames) /\ outbox' # <<>> BY <1>4, <1>5, <1>11
    <3>3. Head(outbox') \in SetFrames BY <3>2
    <3> QED BY <3>1, <3>2, <3>3
  <2>2. Sending' = Append(outbox, f) BY <1>11, <2>1 DEF Sending
  <2>3. FrameOrders(Append(outbox, f)) =
          Append(FrameOrders(outbox), [p \in DOMAIN f.elems |-> f.elems[p].data])
    BY <1>4, <1>5, FrameOrdersSeq
  <2>4. [p \in DOMAIN f.elems |-> f.elems[p].data] = Head(t)
    BY <1>1, FrameOfCommand, CommandOrdersSeq
  <2>5. FrameOrders(Sending)' = Append(s, Head(t))
    <3>1. FrameOrders(Sending)' = FrameOrders(Sending') BY DEF FrameOrders
    <3> QED BY <1>5, <2>2, <2>3, <2>4, <3>1
  <2>6. Pending' = Append(s, Head(t)) \o Tail(t) /\ Pending = s \o t
    BY <1>7, <2>5 DEF Pending
  <2> HIDE DEF s, t
  <2>7. Pending' = Pending BY <1>6, <1>9, <2>6, MovedUp
  <2> QED BY <1>8, <2>7
<1> QED BY <1>3, <1>10, <1>11

\* The card carries out the order that is first, as far as it accepts it.
LEMMA SetCarriesOut ==
  ASSUME IInv, Unmixed, CardAnswersSet
  PROVE  \E S \in SUBSET Paths : Promise!CarryOut(S)
<1> DEFINE f == Head(outbox)
           D == DOMAIN f.elems
<1>1. outbox # <<>> /\ f.type = "set" /\ outbox' = Tail(outbox)
      /\ peer # NoCard /\ UNCHANGED <<peer, tx_queue, waiting>>
  BY DEF CardAnswersSet, CardHears, Connected, boardVars
<1>2. Sending = outbox /\ outbox \in Seq(SetFrames)
  <2>1. Sending = outbox BY <1>1 DEF Sending
  <2> QED BY <2>1, SendingIs
<1>3. f \in SetFrames BY <1>1, <1>2
<1>4. D \in PathSets /\ D \in SUBSET Paths
  <2>1. D \in PathSets BY <1>3 DEF SetFrames
  <2> QED BY <2>1 DEF PathSets, Paths
<1>5. PICK res \in [D -> {"setOK", "refused", "error"}] :
        card' = [o \in DOMAIN card |->
                   IF \E i \in D : res[i] = "setOK" /\ f.elems[i].oid = o
                     THEN f.elems[CHOOSE i \in D : f.elems[i].oid = o].data
                     ELSE card[o]]
  BY DEF CardAnswersSet
<1>6. /\ peer \in Cards /\ DOMAIN card = Oids(peer)
      /\ First[peer] \in Nat /\ Second[peer] \in Nat /\ First[peer] < Second[peer]
  BY <1>1, CardsAssumption DEF IInv, TypeOK
<1>7. \A p \in D : f.elems[p].oid = PathOid(peer, p)
  BY <1>1, <1>2 DEF IInv, CommandsAddressed, SetFramesIn
<1>8. \A p, q \in Paths : PathOid(peer, p) \in Oids(peer)
                          /\ (PathOid(peer, p) = PathOid(peer, q) => p = q)
  BY <1>6 DEF PathOid, Oids, Paths
<1> DEFINE s == FrameOrders(Sending)
           t == CommandOrders(tx_queue)
           S == {p \in D : res[p] = "setOK"}
           o == [p \in D |-> f.elems[p].data]
<1>9. /\ s \in Seq(Promise!Orders) /\ t \in Seq(Promise!Orders) /\ s # <<>>
      /\ Head(s) = o /\ FrameOrders(Tail(outbox)) = Tail(s)
  <2>1. s \in Seq(Promise!Orders) /\ t \in Seq(Promise!Orders) BY PendingParts
  <2>2. s = FrameOrders(outbox) BY <1>2
  <2>3. Len(FrameOrders(outbox)) = Len(outbox) BY <1>2, FrameOrdersSeq
  <2>4. Len(outbox) > 0 BY <1>1, <1>2
  <2>5. s # <<>> BY <2>2, <2>3, <2>4
  <2>6. FrameOrders(Tail(outbox)) = Tail(FrameOrders(outbox)) /\ Head(FrameOrders(outbox)) = o
    BY <1>1, <1>2, FrameOrdersSeq
  <2> QED BY <2>1, <2>2, <2>5, <2>6
<1>10. FrameOrders(Sending)' = Tail(s)
  <2>1. Sending' = Tail(outbox)
    <3>1. CASE Tail(outbox) = <<>> BY <1>1, <3>1 DEF Sending
    <3>2. CASE Tail(outbox) # <<>>
      <4>1. \A g \in SetFrames : g.type = "set" BY DEF SetFrames
      <4>2. Head(Tail(outbox)) \in SetFrames BY <1>1, <1>2, <3>2
      <4> QED BY <1>1, <3>2, <4>1, <4>2 DEF Sending
    <3> QED BY <3>1, <3>2
  <2>2. FrameOrders(Sending)' = FrameOrders(Sending') BY DEF FrameOrders
  <2> QED BY <1>9, <2>1, <2>2
<1>11. CommandOrders(tx_queue)' = t
  BY <1>1 DEF CommandOrders
<1>12. /\ Pending' = Tail(Pending) /\ Pending # <<>> /\ Head(Pending) = o
  <2>1. Pending' = Tail(s) \o t /\ Pending = s \o t
    BY <1>10, <1>11 DEF Pending
  <2> HIDE DEF s, t
  <2> QED BY <1>9, <2>1, HeadOfFront
<1>13. Lights' = [p \in Paths |-> IF p \in S THEN o[p] ELSE Lights[p]]
  <2>1. Lights' = [p \in Paths |-> card'[PathOid(peer, p)]]
    BY <1>1 DEF Lights, PathOid
  <2>2. ASSUME NEW p \in Paths
        PROVE  card'[PathOid(peer, p)] = IF p \in S THEN o[p] ELSE Lights[p]
    <3>1. \A i \in D : f.elems[i].oid = PathOid(peer, p) <=> i = p
      BY <1>4, <1>7, <1>8, <2>2
    <3>2. CASE p \in S
      <4>1. (CHOOSE i \in D : f.elems[i].oid = PathOid(peer, p)) = p
        BY <3>1, <3>2
      <4>2. card'[PathOid(peer, p)] = f.elems[p].data
        BY <1>5, <1>6, <1>8, <2>2, <3>1, <3>2, <4>1
      <4> QED BY <3>2, <4>2
    <3>3. CASE p \notin S
      <4>1. ~ \E i \in D : res[i] = "setOK" /\ f.elems[i].oid = PathOid(peer, p)
        BY <3>1, <3>3
      <4>2. card'[PathOid(peer, p)] = card[PathOid(peer, p)]
        BY <1>5, <1>6, <1>8, <2>2, <4>1
      <4> QED BY <1>1, <2>2, <3>3, <4>2 DEF Lights
    <3> QED BY <3>2, <3>3
  <2> QED BY <2>1, <2>2
<1>14. S \in SUBSET Paths /\ S \subseteq DOMAIN Head(Pending)
  BY <1>4, <1>12
<1>15. Lights' = [p \in Paths |-> IF p \in S THEN Head(Pending)[p] ELSE Lights[p]]
  BY <1>12, <1>13
<1>16. Promise!CarryOut(S)
  <2> HIDE DEF S
  <2> QED BY <1>1, <1>12, <1>14, <1>15 DEF Promise!CarryOut
<1> QED BY <1>14, <1>16

\* Answers about the device change no order, and come before any is sent.
LEMMA InfoLeavesOrders ==
  ASSUME IInv, Unmixed, CardAnswersInfo
  PROVE  UNCHANGED <<peer, Lights, Pending>>
<1>1. outbox # <<>> /\ Head(outbox).type = "devinfo" /\ outbox' = Tail(outbox)
      /\ UNCHANGED <<peer, card, tx_queue>>
  BY DEF CardAnswersInfo, CardHears, boardVars
<1>2. outbox \in Seq(Frames) BY DEF IInv, TypeOK
<1>3. InfoIn(outbox) /\ OneIn(outbox)
  BY <1>1, <1>2 DEF IInv, OneInfo, InfoIn
<1>4. ~Offline BY <1>1 DEF IInv, Phases
<1>5. waiting BY <1>3, <1>4 DEF IInv, Identified
<1>6. Sending = <<>> BY <1>5, SendingIs
<1>7. Sending' = <<>>
  <2>1. SetFramesIn(outbox) = {} BY <1>5 DEF Unmixed
  <2>2. Tail(outbox) # <<>> => Head(Tail(outbox)).type # "set"
    BY <1>1, <1>2, <2>1 DEF SetFramesIn
  <2> QED BY <1>1, <2>2 DEF Sending
<1>8. Pending' = Pending BY <1>1, <1>6, <1>7 DEF Pending, FrameOrders, CommandOrders
<1> QED BY <1>1, <1>8, LightsStay

\* Nor does what the board does with such an answer.
LEMMA DeviceInfoLeavesOrders ==
  ASSUME IInv, Unmixed, HandleDeviceInfo
  PROVE  UNCHANGED <<peer, Lights, Pending>>
<1>1. pc = "dispatch" /\ rx # <<>> /\ Head(rx).type = "devinfo"
      /\ UNCHANGED <<peer, card, tx_queue>>
  BY DEF HandleDeviceInfo, Received
<1>2. InfoIn(rx) BY <1>1 DEF IInv, TypeOK, InfoIn
<1>3. waiting BY <1>1, <1>2 DEF IInv, Identified, Offline
<1>4. Sending = <<>> BY <1>3, SendingIs
<1>5. outbox \in Seq(Frames) /\ SetFramesIn(outbox) = {}
  BY <1>3 DEF IInv, TypeOK, Unmixed
<1>6. outbox' = outbox \/ outbox' = Append(outbox, GetDeviceInfo)
  BY DEF HandleDeviceInfo, AsksAgain, Sent
<1>7. Sending' = <<>>
  BY <1>5, <1>6 DEF Sending, SetFramesIn, GetDeviceInfo
<1>8. Pending' = Pending BY <1>1, <1>4, <1>7 DEF Pending, FrameOrders, CommandOrders
<1> QED BY <1>1, <1>8, LightsStay

\* Any step of the board is a step of the service, or none.
LEMMA ServiceStep ==
  IInv /\ Unmixed /\ NeverCrashes' /\ [Next]_vars
    => [Promise!Next]_<<peer, Lights, Pending>>
<1> SUFFICES ASSUME IInv, Unmixed, NeverCrashes', [Next]_vars
             PROVE  [Promise!Next]_<<peer, Lights, Pending>>
  OBVIOUS
<1> DEFINE Same == UNCHANGED <<peer, Lights, Pending>>
           Does == \/ Promise!Accept \/ Promise!Loses \/ Promise!Detach
                   \/ \E S \in SUBSET Paths : Promise!CarryOut(S)
                   \/ \E p \in Paths, d \in Data : Promise!SomebodyElse(p, d)
                   \/ \E c \in Cards : Promise!Attach(c)
<1> SUFFICES Does \/ Same
  BY DEF Promise!Next, Promise!Changes
<1>0. TypeOK /\ Phases BY DEF IInv
<1>1. CASE UNCHANGED <<peer, card, outbox, tx_queue>>
  BY <1>1, LightsStay DEF Pending, Sending, FrameOrders, CommandOrders
<1>2. ASSUME NEW p \in Paths, NEW s \in Sel, SetLogo(p, s) PROVE Promise!Accept
  <2>1. [set |-> [q \in {p} |-> s], epoch |-> epoch] \in Commands
    BY <1>0 DEF Commands, PathSets, Paths, TypeOK
  <2> QED BY <1>2, <2>1, PushAccepts DEF SetLogo
<1>3. ASSUME NEW s1 \in Sel, NEW s2 \in Sel, SetLogos(s1, s2) PROVE Promise!Accept
  <2>1. [set |-> [q \in Paths |-> IF q = 1 THEN s1 ELSE s2], epoch |-> epoch] \in Commands
    BY <1>0 DEF Commands, PathSets, Paths, TypeOK
  <2> QED BY <1>3, <2>1, PushAccepts DEF SetLogos
<1>4. CASE ClearQueue BY <1>4, ClearLoses
<1>5. CASE Connects
  <2>1. /\ peer = NoCard /\ outbox = <<>> /\ UNCHANGED tx_queue
        /\ peer' \in Cards /\ outbox' = <<GetDeviceInfo>>
        /\ card' \in [Oids(peer') -> Data]
    BY <1>0, <1>5 DEF Connects, Phases, Offline, TypeOK, boardVars
  <2>2. Sending = <<>> /\ Sending' = <<>>
    BY <2>1 DEF Sending, GetDeviceInfo
  <2>3. Pending' = Pending
    BY <2>1, <2>2 DEF Pending, FrameOrders, CommandOrders
  <2>4. \A p \in Paths : PathOid(peer', p) \in Oids(peer')
    BY DEF PathOid, Oids
  <2>5. Lights' \in [Paths -> Data]
    <3>1. Lights' = [p \in Paths |-> card'[PathOid(peer', p)]]
      BY <2>1, CardsAssumption DEF Lights, PathOid
    <3> QED BY <2>1, <2>4, <3>1
  <2>6. Promise!Attach(peer') BY <2>1, <2>3, <2>5 DEF Promise!Attach
  <2> QED BY <2>1, <2>6
<1>6. CASE LeaveLoop
  <2>1. /\ peer # NoCard /\ peer' = NoCard /\ outbox' = <<>> /\ UNCHANGED tx_queue
    BY <1>0, <1>6, CardsAssumption DEF LeaveLoop, NoSocket, Phases, Offline, boardVars
  <2>2. Lights' = <<>> BY <2>1 DEF Lights
  <2> QED BY <2>1, <2>2, SendingLost DEF Promise!Detach
<1>7. CASE SendCommand BY <1>7, SendMovesOrLoses
<1>8. CASE Poll \/ PollLosesConnection
  <2>1. UNCHANGED <<peer, card, tx_queue>> /\ (outbox' = outbox \/ outbox' = <<>>)
    BY <1>8 DEF Poll, PollLosesConnection, boardVars
  <2>2. CASE outbox' = <<>> BY <2>1, <2>2, SendingLost, LightsStay DEF Promise!Loses
  <2> QED BY <1>1, <2>1, <2>2
<1>9. CASE HandleDeviceInfo BY <1>9, DeviceInfoLeavesOrders
<1>10. CASE CardAnswersInfo BY <1>10, InfoLeavesOrders
<1>11. CASE CardAnswersSet BY <1>11, SetCarriesOut
<1>12. ASSUME NEW oid \in DOMAIN card, NEW d \in Data, CardChanges(oid, d)
       PROVE  \E p \in Paths, e \in Data : Promise!SomebodyElse(p, e)
  <2>1. peer \in Cards /\ card \in [Oids(peer) -> Data] /\ oid \in Oids(peer)
        /\ First[peer] < Second[peer] /\ First[peer] \in Nat /\ Second[peer] \in Nat
    BY <1>0, <1>12, CardsAssumption DEF CardChanges, Connected, TypeOK
  <2>2. card' = [card EXCEPT ![oid] = d] /\ UNCHANGED <<peer, outbox, tx_queue>>
    BY <1>12 DEF CardChanges, boardVars
  <2>3. PICK p \in Paths : PathOid(peer, p) = oid
    BY <2>1 DEF PathOid, Oids, Paths
  <2>4. \A q \in Paths : PathOid(peer, q) \in Oids(peer) /\ (PathOid(peer, q) = oid => q = p)
    BY <2>1, <2>3 DEF PathOid, Oids, Paths
  <2>5. Lights = [q \in Paths |-> card[PathOid(peer, q)]]
        /\ Lights' = [q \in Paths |-> card'[PathOid(peer, q)]]
    BY <2>1, <2>2, CardsAssumption DEF Lights, PathOid
  <2>6. Lights' = [Lights EXCEPT ![p] = d]
    <3>1. \A q \in Paths : card'[PathOid(peer, q)] = IF q = p THEN d ELSE Lights[q]
      BY <2>1, <2>2, <2>3, <2>4, <2>5
    <3> QED BY <2>5, <3>1
  <2>7. UNCHANGED Pending BY <2>2 DEF Pending, Sending, FrameOrders, CommandOrders
  <2> QED BY <2>1, <2>2, <2>6, <2>7, CardsAssumption DEF Promise!SomebodyElse
<1>13. CASE Top \/ NoAddress \/ ConnectFails \/ Dials \/ HandshakeFails \/ HandshakeHangs
            \/ EnterLoop \/ QueueDrained \/ PollSelectError
            \/ DispatchDone \/ HandleValues \/ HandleClose \/ CardCloses \/ Destroy
            \/ \E a \in Cards \cup {NoCard} : SetIp(a)
  <2>1. UNCHANGED <<peer, card, outbox, tx_queue>>
    BY <1>13 DEF Top, NoAddress, ConnectFails, Dials, HandshakeFails, HandshakeHangs,
       EnterLoop, QueueDrained, PollSelectError,
       DispatchDone, HandleValues, HandleClose, CardCloses, Destroy, SetIp, boardVars, wsVars
  <2> QED BY <1>1, <2>1
<1>14. CASE UNCHANGED vars BY <1>1, <1>14 DEF vars, boardVars, wsVars
<1> QED
  BY <1>2, <1>3, <1>4, <1>5, <1>6, <1>7, <1>8, <1>9, <1>10, <1>11, <1>12, <1>13, <1>14
     DEF Next, Comms, Thread, Handshake, Api, CardSide

LEMMA ServiceInit == Init => Promise!Init
BY DEF Init, Promise!Init, Lights, Pending, Sending, FrameOrders, CommandOrders

\* Whatever the cards, the values and the number of calls and faults, the board
\* keeps the promise of LogoService: what is carried out was accepted, in the
\* order of its acceptance, once, and path by path as it was ordered.
THEOREM ServiceImplemented == Spec => ImplementsService
<1>1. Init => Unmixed BY DEF Init, Unmixed, SetFramesIn
<1>2. Spec => []Unmixed
  BY <1>1, Invariant, UnmixedStep, PTL DEF Spec
<1>3. IInv => NeverCrashes BY DEF IInv
<1> QED
  BY <1>2, <1>3, Invariant, ServiceInit, ServiceStep, PTL
     DEF Spec, ImplementsService, Promise!Spec

=============================================================================
