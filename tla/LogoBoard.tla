------------------------------ MODULE LogoBoard ------------------------------
(***************************************************************************)
(* One LogoClass object (LogoControl/LogoClass.cpp): the communications    *)
(* thread commsFn, the API calls other threads make on the object, the     *)
(* WebSocket it owns, and - external - the Reflex cards it talks to.       *)
(*                                                                         *)
(* Abstractions.  A path's data (vector<bool>) is the set of the positions *)
(* that are on, NoData the empty vector of a path nobody reported yet.  An *)
(* object id is an integer: 0 the empty string, Junk a text std::stol      *)
(* rejects.  txbuf and the bytes on their way are one queue per direction; *)
(* pings, logging and the scalar fields (temperatures, titles...) are left *)
(* out, except that a device info may lack the two names.                  *)
(***************************************************************************)
EXTENDS Integers, Sequences

CONSTANTS
  Cards,       \* the cards that exist, each at an address of its own
  NoCard,      \* no address (the empty ip_), no peer
  First,       \* First[c], Second[c]: the object ids of the card's two
  Second,      \*   "Logo Enable" elements, the lower one first
  Sel,         \* the LogoSel values callers pass; 0 is off
  Logos,       \* the positions of a path's vector
  Replies,     \* the kinds of device info a card may send
  MaxCalls,    \* bound: commands (SetLogo, SetLogos)
  MaxMoves,    \* bound: calls of Ip(addr), the constructor's among them
  MaxFaults,   \* bound: faults (lost connection, defective reply...)
  MaxUpdates   \* bound: unsolicited updates waiting in the inbox

Junk == -1
Paths == {1, 2}
Data == SUBSET Logos
NoData == {0}                             \* no vector has a position 0
ReplyKinds == {"full", "partial", "junk"}

ASSUME CardsAssumption ==
  /\ NoCard \notin Cards
  /\ First \in [Cards -> Nat \ {0}] /\ Second \in [Cards -> Nat \ {0}]
  /\ \A c \in Cards : First[c] < Second[c]

ASSUME ValuesAssumption ==
  /\ Sel \subseteq Nat /\ Logos \subseteq Nat \ {0}
  /\ Replies \subseteq ReplyKinds

ASSUME BoundsAssumption ==
  MaxCalls \in Nat /\ MaxMoves \in Nat /\ MaxFaults \in Nat /\ MaxUpdates \in Nat

VARIABLES
  pc,          \* where commsFn is
  bStop,       \* the stop flag; the constructor does not initialise it
  alive,       \* the destructor has not begun
  ip,          \* ip_
  cardUUID,
  path,        \* path1, path2: [id, data]
  tx_queue,    \* commands accepted from the API
  waiting,     \* bWaitingForDeviceInfo
  dialed,      \* the address of the connection attempt under way
  peer,        \* the card ws is connected to, NoCard when ws is null
  readyState,  \* ws->getReadyState()
  rx,          \* messages polled and not dispatched
  outbox,      \* messages on their way to the card
  inbox,       \* messages on their way to the program
  card,        \* card[id]: the data of the paths of peer (external)
  epoch,       \* history: parity of the connection attempt
  missed,      \* history: paths whose accepted value was skipped
  calls, moves, faults

boardVars == <<bStop, alive, ip, cardUUID, path, tx_queue, waiting>>
wsVars == <<dialed, peer, readyState, rx, outbox, inbox>>
ghostVars == <<epoch, missed>>
vars == <<pc, boardVars, wsVars, card, ghostVars, calls, moves, faults>>

Oids(c) == {First[c], Second[c]}
Numeric(id) == id > 0                     \* std::stoul(id) returns
Connected == peer # NoCard /\ readyState # "CLOSED"
Ready == Connected /\ readyState = "OPEN" /\ ~waiting

Init ==
  /\ pc = "top"
  /\ bStop \in BOOLEAN
  /\ alive = TRUE
  /\ ip = NoCard
  /\ cardUUID = NoCard
  /\ path = [p \in Paths |-> [id |-> 0, data |-> NoData]]
  /\ tx_queue = <<>>
  /\ waiting = TRUE
  /\ dialed = NoCard /\ peer = NoCard /\ readyState = "CLOSED"
  /\ rx = <<>> /\ outbox = <<>> /\ inbox = <<>>
  /\ card = <<>>
  /\ epoch = 0 /\ missed = {}
  /\ calls = 0 /\ moves = 0 /\ faults = 0

Fault == faults < MaxFaults /\ faults' = faults + 1

-----------------------------------------------------------------------------
(* The API, called by the HTTP server's threads and by the constructor.    *)

Push(set) ==
  /\ alive /\ calls < MaxCalls /\ calls' = calls + 1
  /\ tx_queue' = Append(tx_queue, [set |-> set, epoch |-> epoch])
  /\ UNCHANGED <<pc, bStop, alive, ip, cardUUID, path, waiting, wsVars, card,
                 ghostVars, moves, faults>>

SetLogo(pathNo, sel) == pathNo \in Paths /\ Push([p \in {pathNo} |-> sel])

SetLogos(sel1, sel2) == Push([p \in Paths |-> IF p = 1 THEN sel1 ELSE sel2])

SetIp(addr) ==
  /\ alive /\ moves < MaxMoves /\ moves' = moves + 1
  /\ ip' = addr
  /\ UNCHANGED <<pc, bStop, alive, cardUUID, path, tx_queue, waiting, wsVars,
                 card, ghostVars, calls, faults>>

\* The destructor sets bStop; its join waits for pc = "done".
Destroy ==
  /\ alive
  /\ alive' = FALSE /\ bStop' = TRUE
  /\ UNCHANGED <<pc, ip, cardUUID, path, tx_queue, waiting, wsVars, card,
                 ghostVars, calls, moves, faults>>

-----------------------------------------------------------------------------
(* The WebSocket, as commsFn uses it.                                      *)

GetDeviceInfo == [type |-> "devinfo"]

\* sendData drops what is sent while CLOSING or CLOSED.
Sent(frame) == IF readyState = "OPEN" THEN Append(outbox, frame) ELSE outbox

NoSocket ==
  /\ dialed' = dialed /\ peer' = NoCard /\ readyState' = "CLOSED"
  /\ rx' = <<>> /\ outbox' = <<>> /\ inbox' = <<>> /\ card' = <<>>

-----------------------------------------------------------------------------
(* commsFn, the outer loop.                                                *)

\* while (!bStop).  The test local_ip != ip_ drops a socket that is null here
\* already, so it changes nothing.
Top ==
  /\ pc = "top"
  /\ pc' = IF bStop THEN "done" ELSE "reconnect"
  /\ UNCHANGED <<boardVars, wsVars, card, ghostVars, calls, moves, faults>>

\* if (ip_.empty()) sleep; continue
NoAddress ==
  /\ pc = "reconnect" /\ ip = NoCard
  /\ pc' = "top"
  /\ UNCHANGED <<boardVars, wsVars, card, ghostVars, calls, moves, faults>>

\* Seeded fault: the queue is not cleared.
KeepQueue ==
  /\ pc = "reconnect" /\ ip # NoCard
  /\ waiting' = TRUE
  /\ tx_queue' = tx_queue /\ epoch' = 1 - epoch
  /\ pc' = "connect"
  /\ UNCHANGED <<bStop, alive, ip, cardUUID, path, wsVars, card, missed,
                 calls, moves, faults>>

\* bWaitingForDeviceInfo = true; tx_queue.clear().  A new attempt begins.
ClearQueue ==
  /\ pc = "reconnect" /\ ip # NoCard
  /\ waiting' = TRUE
  /\ tx_queue' = <<>> /\ epoch' = 1 - epoch
  /\ pc' = "connect"
  /\ UNCHANGED <<bStop, alive, ip, cardUUID, path, wsVars, card, missed,
                 calls, moves, faults>>

\* buildWebSocket is given the address ip_ holds now; connect() succeeds, and the
\* socket, which blocks, waits for the answer to the handshake.
Dials ==
  /\ pc = "connect" /\ ip # NoCard
  /\ dialed' = ip
  /\ pc' = "handshake"
  /\ UNCHANGED <<boardVars, peer, readyState, rx, outbox, inbox, card, ghostVars,
                 calls, moves, faults>>

\* There is no connection, and buildWebSocket returns null: sleep; continue.  An
\* empty address always fails.
ConnectFails ==
  /\ pc = "connect"
  /\ IF ip = NoCard THEN UNCHANGED faults ELSE Fault
  /\ pc' = "top"
  /\ UNCHANGED <<boardVars, wsVars, card, ghostVars, calls, moves>>

\* The peer closes, answers with another status, or the connection is reset in the
\* status line, which ends when it has 4096 characters.
HandshakeFails ==
  /\ pc = "handshake" /\ Fault
  /\ dialed' = NoCard
  /\ pc' = "top"
  /\ UNCHANGED <<boardVars, peer, readyState, rx, outbox, inbox, card, ghostVars,
                 calls, moves>>

\* The peer falls silent, and recv never returns; or the connection is reset in the
\* headers: recv returns -1, which is not 0, and the last character is taken again
\* and again for a header that never ends.
HandshakeHangs ==
  /\ pc = "handshake" /\ Fault
  /\ dialed' = NoCard
  /\ pc' = "stuck"
  /\ UNCHANGED <<boardVars, peer, readyState, rx, outbox, inbox, card, ghostVars,
                 calls, moves>>

\* The card has answered: ws is built, and the device info asked for.  The card
\* holds whatever it was last told, by anybody.
Connects ==
  /\ pc = "handshake"
  /\ dialed' = NoCard
  /\ peer' = dialed /\ readyState' = "OPEN"
  /\ card' \in [Oids(dialed) -> Data]
  /\ rx' = <<>> /\ inbox' = <<>> /\ outbox' = <<GetDeviceInfo>>
  /\ missed' = {}
  /\ pc' = "loop"
  /\ UNCHANGED <<boardVars, epoch, calls, moves, faults>>

-----------------------------------------------------------------------------
(* commsFn, the inner loop while the socket is not CLOSED.                 *)

\* Seeded fault: bStop is not looked at in the inner loop.
LeavesOnlyClosed == readyState = "CLOSED"

Leaves == readyState = "CLOSED" \/ bStop

\* CLOSED, or bStop seen: close() and break.  ws = nullptr; the close frame is
\* never flushed, because no poll follows.
LeaveLoop ==
  /\ pc = "loop" /\ Leaves
  /\ NoSocket
  /\ pc' = "top"
  /\ UNCHANGED <<boardVars, ghostVars, calls, moves, faults>>

EnterLoop ==
  /\ pc = "loop" /\ ~Leaves
  /\ pc' = IF waiting THEN "poll" ELSE "drain"
  /\ UNCHANGED <<boardVars, wsVars, card, ghostVars, calls, moves, faults>>

\* Seeded fault: one position too far.
NextHot(sel) == {l + 1 : l \in {l \in Logos : l = sel}}

\* The one-hot array built from a LogoSel.
OneHot(sel) == {l \in Logos : l = sel}

SetFrame(cmd) ==
  [type |-> "set", uuid |-> cardUUID, epoch |-> cmd.epoch,
   elems |-> [p \in DOMAIN cmd.set |->
                [oid |-> path[p].id, data |-> OneHot(cmd.set[p])]]]

\* One round of while (tx_queue.try_pop(cmd)).  std::stoul(path.id) is outside
\* every try block: on an id that is no number it ends the process.
SendCommand ==
  /\ pc = "drain" /\ tx_queue # <<>>
  /\ tx_queue' = Tail(tx_queue)
  /\ IF \A p \in DOMAIN Head(tx_queue).set : Numeric(path[p].id)
       THEN outbox' = Sent(SetFrame(Head(tx_queue))) /\ UNCHANGED pc
       ELSE pc' = "crashed" /\ UNCHANGED outbox
  /\ UNCHANGED <<bStop, alive, ip, cardUUID, path, waiting, dialed, peer,
                 readyState, rx, inbox, card, ghostVars, calls, moves, faults>>

QueueDrained ==
  /\ pc = "drain" /\ tx_queue = <<>>
  /\ pc' = "poll"
  /\ UNCHANGED <<boardVars, wsVars, card, ghostVars, calls, moves, faults>>

\* poll receives what has arrived and flushes txbuf; a CLOSING socket with
\* nothing left to send becomes CLOSED.
Poll ==
  /\ pc = "poll"
  /\ rx' = rx \o inbox /\ inbox' = <<>>
  /\ IF readyState = "CLOSING"
       THEN readyState' = "CLOSED" /\ outbox' = <<>>
       ELSE UNCHANGED <<readyState, outbox>>
  /\ pc' = "dispatch"
  /\ UNCHANGED <<boardVars, dialed, peer, card, ghostVars, calls, moves, faults>>

\* recv or send failed: the part of the data that had arrived is kept.
PollLosesConnection ==
  /\ pc = "poll" /\ Fault
  /\ \E k \in 0..Len(inbox) : rx' = rx \o SubSeq(inbox, 1, k)
  /\ readyState' = "CLOSED" /\ inbox' = <<>> /\ outbox' = <<>>
  /\ pc' = "dispatch"
  /\ UNCHANGED <<boardVars, dialed, peer, card, ghostVars, calls, moves>>

\* select failed: close() and return before anything is received or flushed.
PollSelectError ==
  /\ pc = "poll" /\ Fault
  /\ readyState' = "CLOSING"
  /\ pc' = "dispatch"
  /\ UNCHANGED <<boardVars, dialed, peer, rx, outbox, inbox, card, ghostVars,
                 calls, moves>>

DispatchDone ==
  /\ pc = "dispatch" /\ rx = <<>>
  /\ pc' = "loop"
  /\ UNCHANGED <<boardVars, wsVars, card, ghostVars, calls, moves, faults>>

-----------------------------------------------------------------------------
(* The message handler, one message per step.                              *)

Received(type) == pc = "dispatch" /\ rx # <<>> /\ Head(rx).type = type

\* Seeded fault: the comparison of the sort turned round.
HighestOf(S) == CHOOSE i \in S : \A j \in S : i >= j

LowestOf(S) == CHOOSE i \in S : \A j \in S : i <= j

\* std::sort by std::stol(id) compares every element once there are two.
SortThrows(logos) == Junk \in DOMAIN logos /\ DOMAIN logos # {Junk}

\* All but the lowest.
Above(S) == {i \in S : \E j \in S : j < i}

Entry(logos, id) == [id |-> id, data |-> logos[id]]

\* path1 and path2 after handleDeviceInfo: as many as there are elements.
InfoPaths(logos) ==
  [p \in Paths |->
     CASE p = 1 /\ DOMAIN logos # {} -> Entry(logos, LowestOf(DOMAIN logos))
       [] p = 2 /\ Above(DOMAIN logos) # {} -> Entry(logos, LowestOf(Above(DOMAIN logos)))
       [] OTHER -> path[p]]

\* Seeded fault: the second path is not asked for.
NamesSuffice(m) == m.named

\* The value handleDeviceInfo returns: both paths and both names were there.
Complete(m) == m.named /\ Above(DOMAIN m.logos) # {}

\* Seeded faults: always ask again; never ask again.
AsksAlways(m) == Sent(GetDeviceInfo)
AsksNever(m) == outbox

AsksAgain(m) == IF Complete(m) THEN outbox ELSE Sent(GetDeviceInfo)

\* The card's uuid is stored before the elements are looked at, so it stays
\* when the sort throws; then nothing asks for the device info again.
HandleDeviceInfo ==
  /\ Received("devinfo")
  /\ LET m == Head(rx) IN
       /\ cardUUID' = m.uuid
       /\ IF SortThrows(m.logos)
            THEN UNCHANGED <<path, waiting, outbox>>
            ELSE /\ path' = InfoPaths(m.logos)
                 /\ waiting' = (waiting /\ ~Complete(m))
                 /\ outbox' = AsksAgain(m)
  /\ rx' = Tail(rx)
  /\ UNCHANGED <<pc, bStop, alive, ip, tx_queue, dialed, peer, readyState,
                 inbox, card, ghostVars, calls, moves, faults>>

\* The path an object id names, 0 for none; path1 is asked first.
Target(oid) ==
  IF oid = path[1].id THEN 1 ELSE IF oid = path[2].id THEN 2 ELSE 0

\* Seeded fault: setRes is not compared with "setOK".
AppliedAnyResult(elems) ==
  {i \in DOMAIN elems : \A j \in DOMAIN elems : j <= i => elems[j].res # "error"}

\* The elements that count: setOK, and no element before them is an error.
Applied(elems) ==
  {i \in DOMAIN elems : /\ elems[i].res = "setOK"
                        /\ \A j \in DOMAIN elems : j <= i => elems[j].res # "error"}

Accepted(elems) == {i \in DOMAIN elems : elems[i].res = "setOK"}

TargetsOf(elems, S) == {Target(elems[i].oid) : i \in S}

\* setResult, data_updates, updates and setOids: each stores the values that
\* count in the paths their object ids name.
HandleValues ==
  /\ Received("values")
  /\ LET elems == Head(rx).elems
         hit(p) == {i \in Applied(elems) : Target(elems[i].oid) = p}
     IN  /\ path' = [p \in Paths |->
                       IF hit(p) = {} THEN path[p]
                       ELSE [id |-> path[p].id,
                             data |-> elems[CHOOSE i \in hit(p) : TRUE].data]]
         /\ missed' = (missed \ TargetsOf(elems, Applied(elems)))
                         \cup (TargetsOf(elems, Accepted(elems) \ Applied(elems))
                                 \cap Paths)
  /\ rx' = Tail(rx)
  /\ UNCHANGED <<pc, bStop, alive, ip, cardUUID, tx_queue, waiting, dialed,
                 peer, readyState, outbox, inbox, card, epoch, calls, moves, faults>>

\* A CLOSE frame (or one that is no WebSocket frame): close().
HandleClose ==
  /\ Received("close")
  /\ readyState' = IF readyState = "OPEN" THEN "CLOSING" ELSE readyState
  /\ rx' = Tail(rx)
  /\ UNCHANGED <<pc, boardVars, dialed, peer, outbox, inbox, card, ghostVars,
                 calls, moves, faults>>

-----------------------------------------------------------------------------
(* The cards (external), as the handlers above use them.                   *)

CardHears == Connected /\ outbox # <<>>

CardInfo(ids, named) ==
  [type |-> "devinfo", uuid |-> peer, named |-> named,
   logos |-> [i \in ids |-> IF i = Junk THEN {} ELSE card[i]]]

\* A card answers a request for its device info; while it starts up it may
\* leave elements out, and a foreign element may carry an id that is no number.
CardAnswersInfo ==
  /\ CardHears /\ Head(outbox).type = "devinfo"
  /\ \/ /\ "full" \in Replies
        /\ inbox' = Append(inbox, CardInfo(Oids(peer), TRUE))
        /\ UNCHANGED faults
     \/ /\ "partial" \in Replies /\ Fault
        /\ \E ids \in SUBSET Oids(peer), named \in BOOLEAN :
             inbox' = Append(inbox, CardInfo(ids, named))
     \/ /\ "junk" \in Replies /\ Fault
        /\ \E ids \in {{}, Oids(peer)} :
             inbox' = Append(inbox, CardInfo(ids \cup {Junk}, TRUE))
  /\ outbox' = Tail(outbox)
  /\ UNCHANGED <<pc, boardVars, dialed, peer, readyState, rx, card, ghostVars,
                 calls, moves>>

\* setOid may be refused; in setOids an element may also be an error.  The card
\* stores what it accepts and says so.
CardAnswersSet ==
  /\ CardHears /\ Head(outbox).type = "set"
  /\ LET f == Head(outbox)
         mine(i) == f.uuid = peer /\ f.elems[i].oid \in Oids(peer)
     IN \E res \in [DOMAIN f.elems -> {"setOK", "refused", "error"}] :
          /\ \A i \in DOMAIN f.elems : res[i] = "setOK" => mine(i)
          /\ DOMAIN f.elems # Paths => \A i \in DOMAIN f.elems : res[i] # "error"
          /\ card' = [o \in DOMAIN card |->
               IF \E i \in DOMAIN f.elems : res[i] = "setOK" /\ f.elems[i].oid = o
                 THEN f.elems[CHOOSE i \in DOMAIN f.elems : f.elems[i].oid = o].data
                 ELSE card[o]]
          /\ inbox' = Append(inbox, [type |-> "values",
               elems |-> [i \in DOMAIN f.elems |->
                  [oid |-> f.elems[i].oid, data |-> f.elems[i].data, res |-> res[i]]]])
  /\ outbox' = Tail(outbox)
  /\ UNCHANGED <<pc, boardVars, dialed, peer, readyState, rx, ghostVars, calls,
                 moves, faults>>

\* Somebody else changes a path of the card, and the card tells.
CardChanges(oid, d) ==
  /\ Connected /\ card[oid] # d
  /\ card' = [card EXCEPT ![oid] = d]
  /\ Len(inbox) < MaxUpdates
  /\ inbox' = Append(inbox, [type |-> "values", elems |->
                [i \in {1} |-> [oid |-> oid, data |-> d, res |-> "setOK"]]])
  /\ UNCHANGED <<pc, boardVars, dialed, peer, readyState, rx, outbox, ghostVars,
                 calls, moves, faults>>

CardCloses ==
  /\ Connected /\ Fault
  /\ inbox' = Append(inbox, [type |-> "close"])
  /\ UNCHANGED <<pc, boardVars, dialed, peer, readyState, rx, outbox, card,
                 ghostVars, calls, moves>>

-----------------------------------------------------------------------------
Thread ==
  \/ Top \/ NoAddress \/ ClearQueue \/ ConnectFails \/ Dials
  \/ LeaveLoop \/ EnterLoop \/ SendCommand \/ QueueDrained
  \/ Poll \/ PollLosesConnection \/ PollSelectError \/ DispatchDone
  \/ HandleDeviceInfo \/ HandleValues \/ HandleClose

Handshake == Connects \/ HandshakeFails \/ HandshakeHangs

Comms == Thread \/ Handshake

Api ==
  \/ \E p \in Paths, s \in Sel : SetLogo(p, s)
  \/ \E s1 \in Sel, s2 \in Sel : SetLogos(s1, s2)
  \/ \E a \in Cards \cup {NoCard} : SetIp(a)
  \/ Destroy

CardSide ==
  \/ CardAnswersInfo \/ CardAnswersSet \/ CardCloses
  \/ \E oid \in DOMAIN card, d \in Data : CardChanges(oid, d)

Next == Comms \/ Api \/ CardSide

Spec == Init /\ [][Next]_vars

\* The thread is scheduled, and a card that is connected answers, the handshake too
\* unless a fault ends it or hangs it up.
FairSpec ==
  Spec /\ WF_vars(Thread) /\ WF_vars(Connects \/ CardAnswersInfo \/ CardAnswersSet)

-----------------------------------------------------------------------------
(* Properties.                                                             *)

Ids == (UNION {Oids(c) : c \in Cards}) \cup {0, Junk}

PathSets == {{1}, {2}, {1, 2}}

Commands == [set : UNION {[S -> Sel] : S \in PathSets}, epoch : {0, 1}]

SetFrames ==
  [type : {"set"}, uuid : Cards \cup {NoCard}, epoch : {0, 1},
   elems : UNION {[S -> [oid : Ids, data : Data]] : S \in PathSets}]

Frames == {GetDeviceInfo} \cup SetFrames

Elements == [oid : Ids, data : Data, res : {"setOK", "refused", "error"}]

InfoMessages(c) ==
  [type : {"devinfo"}, uuid : {c}, named : BOOLEAN,
   logos : UNION {[S -> Data] : S \in SUBSET (Oids(c) \cup {Junk})}]

ValueMessages == [type : {"values"}, elems : UNION {[S -> Elements] : S \in PathSets}]

CloseMessage == [type |-> "close"]

Messages == (UNION {InfoMessages(c) : c \in Cards}) \cup ValueMessages \cup {CloseMessage}

TypeOK ==
  /\ pc \in {"top", "reconnect", "connect", "handshake", "loop", "drain", "poll",
             "dispatch", "done", "crashed", "stuck"}
  /\ bStop \in BOOLEAN /\ alive \in BOOLEAN /\ waiting \in BOOLEAN
  /\ ip \in Cards \cup {NoCard} /\ cardUUID \in Cards \cup {NoCard}
  /\ peer \in Cards \cup {NoCard}
  /\ dialed \in IF pc = "handshake" THEN Cards ELSE {NoCard}
  /\ path \in [Paths -> [id : Ids, data : Data \cup {NoData}]]
  /\ tx_queue \in Seq(Commands)
  /\ readyState \in {"OPEN", "CLOSING", "CLOSED"}
  /\ outbox \in Seq(Frames) /\ inbox \in Seq(Messages) /\ rx \in Seq(Messages)
  /\ card \in IF peer = NoCard THEN {<<>>} ELSE [Oids(peer) -> Data]
  /\ epoch \in {0, 1} /\ missed \subseteq Paths
  /\ calls \in 0..MaxCalls /\ moves \in 0..MaxMoves /\ faults \in 0..MaxFaults

PathOid(c, p) == IF p = 1 THEN First[c] ELSE Second[c]

SetFramesIn(q) == {i \in DOMAIN q : q[i].type = "set"}

\* tx_queue.clear() before every connection attempt: a command accepted before
\* an attempt began is never sent on the connection that attempt opens, however
\* long the board was away.
NoStaleCommand == \A i \in SetFramesIn(outbox) : outbox[i].epoch = epoch

\* bWaitingForDeviceInfo, the sort in handleDeviceInfo and the order of its
\* stores: whatever card the address leads to, every command that is sent names
\* that card and puts the value for path 1 under its lower object id.
CommandsAddressed ==
  \A i \in SetFramesIn(outbox) :
    /\ outbox[i].uuid = peer
    /\ \A p \in DOMAIN outbox[i].elems : outbox[i].elems[p].oid = PathOid(peer, p)

\* std::stoul(path.id) in commsFn runs outside every try block: no order of
\* calls, replies and reconnections brings it an id that is no number.
NeverCrashes == pc # "crashed"

\* What GetLogosStatus reports: on a connection that has its device info, with
\* nothing left to receive, path 1 holds the card's value, and so does path 2
\* unless the card accepted a value for it behind an element in error, which
\* ends the loop over setOids.
Quiet == Ready /\ inbox = <<>> /\ rx = <<>>

Coherent ==
  Quiet => /\ path[1].data = card[First[peer]]
           /\ 2 \notin missed => path[2].data = card[Second[peer]]

\* The device info is asked for once per answer, so none arrives on a
\* connection that already has it: the identity the API reports stays put.
IdentityStable ==
  [][Ready /\ Ready' => /\ cardUUID' = cardUUID
                        /\ \A p \in Paths : path'[p].id = path[p].id]_vars

\* What the API's callers may rely on (LogoService).  The orders pending are the
\* set frames on their way to the card, which no other frame is mixed with, and
\* behind them the commands in tx_queue.
Sending == IF outbox # <<>> /\ Head(outbox).type = "set" THEN outbox ELSE <<>>

FrameOrders(q) ==
  [i \in DOMAIN q |-> [p \in DOMAIN q[i].elems |-> q[i].elems[p].data]]

CommandOrders(q) ==
  [i \in DOMAIN q |-> [p \in DOMAIN q[i].set |-> {l \in Logos : l = q[i].set[p]}]]

Pending == FrameOrders(Sending) \o CommandOrders(tx_queue)

Lights == IF peer = NoCard THEN <<>> ELSE [p \in Paths |-> card[PathOid(peer, p)]]

Promise == INSTANCE LogoService WITH at <- peer, lights <- Lights, pending <- Pending

\* The board implements that service: whatever is reordered, lost, refused or
\* reconnected, no command is carried out twice, on the other path, with another
\* value, or after one that was accepted later.
ImplementsService == Promise!Spec

\* The destructor's join returns: once bStop is set the thread ends, wherever it is,
\* unless a handshake has hung it up.  There it looks at bStop no more, and the join
\* waits for ever.
StopEnds == ~alive ~> pc \in {"done", "stuck"}

\* After the last fault and the last call the board is connected, has its device
\* info and has sent every command it kept, unless a handshake has hung it up.
EventuallyServes ==
  <>[](\/ bStop \/ ip = NoCard \/ pc = "stuck"
       \/ Ready /\ tx_queue = <<>> /\ outbox = <<>>)

=============================================================================
