------------------------------- MODULE EasyWs -------------------------------
(***************************************************************************)
(* The WebSocket client (Common/WebsocketClient/easywsclient.cpp) as       *)
(* commsFn drives it: calls of send and close, then poll, then dispatch,   *)
(* all on one thread; and - external - the network and the peer.           *)
(*                                                                         *)
(* Abstractions.  The socket carries bytes and cuts them anywhere; a frame *)
(* is one byte of header and size bytes of payload, so it can be cut.  A   *)
(* byte knows its frame, its place in it and whether it is masked.  The    *)
(* handshake has succeeded.  Memory is not bounded.                        *)
(***************************************************************************)
EXTENDS Integers, Sequences

CONSTANTS
  MaxUp,         \* bound: messages of the peer
  MaxFragments,  \* bound: frames of a message of the peer
  MaxControls,   \* bound: its PING and PONG frames
  MaxSends,      \* bound: calls of send and sendPing
  MaxFaults      \* bound: lost connections and defective frames

ASSUME BoundsAssumption ==
  /\ MaxUp \in Nat /\ MaxFragments \in Nat \ {0} /\ MaxControls \in Nat
  /\ MaxSends \in Nat /\ MaxFaults \in Nat

VARIABLES
  pc,            \* "call", "dispatch", "callback": the message handler runs, "stopped"
  readyState, isRxBad,
  rxbuf, txbuf, receivedData,
  toUs,          \* bytes on their way from the peer
  toPeer,        \* bytes of a frame the peer has not got all of
  fragments,     \* the frames the peer has sent of the message it is sending
  peerClosed,    \* the peer has sent its CLOSE, and sends no more
  peerSent,      \* history: the messages the peer has sent
  delivered,     \* history: the messages the handler was given
  accepted,      \* history: the frames put into txbuf
  peerGot,       \* history: the frames the peer has read
  controls, sends, faults

bufVars == <<rxbuf, receivedData, txbuf>>
upVars == <<peerSent, delivered>>
downVars == <<accepted, peerGot>>
peerVars == <<fragments, peerClosed, controls>>
vars == <<pc, readyState, isRxBad, bufVars, toUs, toPeer, peerVars, upVars, downVars,
          sends, faults>>

\* The frames there are; val tells them apart.
Values == (0..MaxUp) \X (0..(MaxFragments + MaxControls + MaxSends))

Frames ==
  [op : {"text", "cont", "ping", "pong", "close", "bad", "huge"}, fin : BOOLEAN,
   size : {0, 1}, val : Values]

ByteType == [frame : Frames, at : {1, 2}, masked : BOOLEAN]

Frame(op, fin, size, val) == [op |-> op, fin |-> fin, size |-> size, val |-> val]

Bytes(f) == [i \in 1..(1 + f.size) |-> [frame |-> f, at |-> i, masked |-> FALSE]]

First(s, n) == SubSeq(s, 1, n)
Without(s, n) == SubSeq(s, n + 1, Len(s))

Init ==
  /\ pc = "call" /\ readyState = "OPEN" /\ isRxBad = FALSE
  /\ rxbuf = <<>> /\ txbuf = <<>> /\ receivedData = <<>>
  /\ toUs = <<>> /\ toPeer = <<>>
  /\ fragments = 0 /\ peerClosed = FALSE
  /\ peerSent = <<>> /\ delivered = <<>> /\ accepted = <<>> /\ peerGot = <<>>
  /\ controls = 0 /\ sends = 0 /\ faults = 0

Fault == faults < MaxFaults /\ faults' = faults + 1

-----------------------------------------------------------------------------
(* send and close.                                                         *)

Flip(b) == [b EXCEPT !.masked = ~@]

\* Seeded fault: the payload is looked for behind the header's place in txbuf
\* instead of at its end.
MaskFront(t, f) == [i \in DOMAIN t |-> IF i \in 2..(1 + f.size) THEN Flip(t[i]) ELSE t[i]]

\* The last bytes of txbuf, as many as the message has, are masked.
Mask(t, f) == [i \in DOMAIN t |-> IF i > Len(t) - f.size THEN Flip(t[i]) ELSE t[i]]

\* Seeded fault: sendData looks at CLOSED only.
SendsUnlessClosed(f) ==
  IF readyState = "CLOSED"
    THEN UNCHANGED <<txbuf, accepted>>
    ELSE txbuf' = Mask(txbuf \o Bytes(f), f) /\ accepted' = Append(accepted, f)

\* sendData drops what is sent while CLOSING or CLOSED.
SendData(f) ==
  IF readyState \in {"CLOSING", "CLOSED"}
    THEN UNCHANGED <<txbuf, accepted>>
    ELSE txbuf' = Mask(txbuf \o Bytes(f), f) /\ accepted' = Append(accepted, f)

NoValue == <<0, 0>>

CloseFrame == Frame("close", TRUE, 0, NoValue)

\* close()
DoClose ==
  IF readyState \in {"CLOSING", "CLOSED"}
    THEN UNCHANGED <<readyState, txbuf, accepted>>
    ELSE /\ readyState' = "CLOSING"
         /\ txbuf' = txbuf \o Bytes(CloseFrame)
         /\ accepted' = Append(accepted, CloseFrame)

\* commsFn before poll, or its message handler inside dispatch; only the handler
\* sends a PING.
Send ==
  /\ pc = "callback" \/ (pc = "call" /\ readyState # "CLOSED")
  /\ sends < MaxSends /\ sends' = sends + 1
  /\ \/ SendData(Frame("text", TRUE, 1, <<0, sends'>>))
     \/ pc = "callback" /\ SendData(Frame("ping", TRUE, 0, <<0, sends'>>))
  /\ UNCHANGED <<pc, readyState, isRxBad, rxbuf, receivedData, toUs, toPeer, peerVars,
                 upVars, peerGot, faults>>

\* On bStop commsFn closes and leaves its loop: nothing polls any more.
Close ==
  /\ pc = "call" /\ readyState # "CLOSED" /\ pc' = "stopped"
  /\ DoClose
  /\ UNCHANGED <<isRxBad, rxbuf, receivedData, toUs, toPeer, peerVars, upVars, peerGot,
                 sends, faults>>

-----------------------------------------------------------------------------
(* poll.                                                                   *)

\* commsFn has left its loop, or leaves it after the frames that are there.
Over == readyState = "CLOSED" \/ pc = "stopped"

\* What the peer has read when the bytes b have come: one frame after the other
\* off the front, unmasked, and the bytes that are left.
PeerReads(b) ==
  LET read[s \in Seq(ByteType)] ==
        IF s = <<>> \/ Len(s) < 1 + Head(s).frame.size THEN [frames |-> <<>>, rest |-> s]
        ELSE LET f == Head(s).frame
                 n == 1 + f.size
                 whole == \A i \in 1..n : s[i] = [frame |-> f, at |-> i, masked |-> i > 1]
                 tail == read[Without(s, n)]
             IN  [frames |-> <<IF whole THEN f ELSE Frame("bad", TRUE, 0, NoValue)>>
                             \o tail.frames,
                  rest |-> tail.rest]
  IN  read[b]

\* All that is on its way has come, except perhaps the end of the last frame.
Arrived == {k \in 0..Len(toUs) : \A i \in (k + 1)..Len(toUs) : toUs[i].at > 1}

\* The first k bytes that are there are received, the first j of txbuf sent.  The
\* peer only watches: it reads what it can at once.
Moves(k, j) ==
  LET reading == PeerReads(toPeer \o First(txbuf, j))
  IN  /\ rxbuf' = rxbuf \o First(toUs, k) /\ toUs' = Without(toUs, k)
      /\ txbuf' = Without(txbuf, j) /\ toPeer' = reading.rest
      /\ peerGot' = peerGot \o reading.frames

\* Receives what has come, sends what the socket takes: any part of either.  A
\* CLOSING socket with nothing left to send is closed.
Poll ==
  /\ pc = "call" /\ readyState # "CLOSED" /\ pc' = "dispatch"
  /\ \E k \in Arrived, j \in 0..Len(txbuf) : Moves(k, j)
  /\ readyState' = IF txbuf' = <<>> /\ readyState = "CLOSING" THEN "CLOSED" ELSE readyState
  /\ UNCHANGED <<isRxBad, receivedData, peerVars, upVars, accepted, sends, faults>>

\* recv or send fails: the connection is closed at once.  A peer that has closed
\* makes recv fail when everything it sent was received.
PollFails ==
  /\ pc = "call" /\ readyState # "CLOSED" /\ pc' = "dispatch"
  /\ readyState' = "CLOSED"
  /\ \E k \in Arrived, j \in 0..Len(txbuf) :
       /\ Moves(k, j)
       /\ IF peerClosed /\ k = Len(toUs) /\ j = 0 THEN UNCHANGED faults ELSE Fault
  /\ UNCHANGED <<isRxBad, receivedData, peerVars, upVars, accepted, sends>>

\* select fails: close() and return.
PollSelectError ==
  /\ pc = "call" /\ readyState # "CLOSED" /\ pc' = "dispatch"
  /\ Fault /\ DoClose
  /\ UNCHANGED <<isRxBad, rxbuf, receivedData, toUs, toPeer, peerVars, upVars, peerGot, sends>>

-----------------------------------------------------------------------------
(* dispatch: one frame per step.                                           *)

Op == Head(rxbuf).frame.op
Total == 1 + Head(rxbuf).frame.size

\* Seeded fault: a frame waits for the next one.
NeedsOneMore == rxbuf # <<>> /\ (Op = "huge" \/ Len(rxbuf) > Total)

\* rxbuf.size() against the header's size, then the header's and the payload's.
FrameThere == rxbuf # <<>> /\ (Op = "huge" \/ Len(rxbuf) >= Total)

Dispatching == pc = "dispatch" /\ ~isRxBad /\ FrameThere

DispatchEnds ==
  /\ pc = "dispatch" /\ (isRxBad \/ ~FrameThere)
  /\ pc' = "call"
  /\ UNCHANGED <<readyState, isRxBad, bufVars, toUs, toPeer, peerVars, upVars, downVars,
                 sends, faults>>

Consume == rxbuf' = Without(rxbuf, Total)

Payload == [i \in 1..(Total - 1) |-> rxbuf[1 + i].frame.val]

\* TEXT, BINARY and CONTINUATION frames feed receivedData; FIN hands it over.
HandleData ==
  /\ Dispatching /\ Op \in {"text", "cont"} /\ Consume
  /\ IF Head(rxbuf).frame.fin
       THEN /\ delivered' = Append(delivered, receivedData \o Payload)
            /\ receivedData' = <<>> /\ pc' = "callback"
       ELSE /\ receivedData' = receivedData \o Payload
            /\ UNCHANGED <<delivered, pc>>
  /\ UNCHANGED <<readyState, isRxBad, txbuf, toUs, toPeer, peerVars, peerSent, downVars,
                 sends, faults>>

CallbackReturns ==
  /\ pc = "callback" /\ pc' = "dispatch"
  /\ UNCHANGED <<readyState, isRxBad, bufVars, toUs, toPeer, peerVars, upVars, downVars,
                 sends, faults>>

\* A PING is answered with its data, a PONG is nothing.
HandlePing ==
  /\ Dispatching /\ Op \in {"ping", "pong"} /\ Consume
  /\ IF Op = "ping"
       THEN SendData(Frame("pong", TRUE, 0, Head(rxbuf).frame.val))
       ELSE UNCHANGED <<txbuf, accepted>>
  /\ UNCHANGED <<pc, readyState, isRxBad, receivedData, toUs, toPeer, peerVars, upVars, peerGot,
                 sends, faults>>

\* CLOSE, or an opcode that is none.  The frames behind it are still handled.
HandleClose ==
  /\ Dispatching /\ Op \in {"close", "bad"} /\ Consume
  /\ DoClose
  /\ UNCHANGED <<pc, isRxBad, receivedData, toUs, toPeer, peerVars, upVars, peerGot, sends, faults>>

\* A length no frame can have: nothing is received from here on.
HandleHuge ==
  /\ Dispatching /\ Op = "huge" /\ pc' = "call"
  /\ isRxBad' = TRUE /\ DoClose
  /\ UNCHANGED <<rxbuf, receivedData, toUs, toPeer, peerVars, upVars, peerGot, sends, faults>>

-----------------------------------------------------------------------------
(* The peer (external): it sends legal frames, control frames between      *)
(* those of a message included, and, as a fault, one that is not legal.    *)
(* What it sends to a connection that is over is lost, and not modelled;   *)
(* what it sends while a dispatch runs is not seen before the next poll;   *)
(* and a frame of which nothing has come yet might as well be sent later.  *)

PeerSends(f) == ~peerClosed /\ pc = "call" /\ ~Over /\ toUs' = toUs \o Bytes(f)

PeerFragment(fin) ==
  /\ Len(peerSent) < MaxUp
  /\ fin \/ fragments + 1 < MaxFragments
  /\ PeerSends(Frame(IF fragments = 0 THEN "text" ELSE "cont", fin, 1,
                     <<Len(peerSent) + 1, fragments + 1>>))
  /\ fragments' = IF fin THEN 0 ELSE fragments + 1
  /\ peerSent' = IF ~fin THEN peerSent
                 ELSE Append(peerSent, [i \in 1..(fragments + 1) |-> <<Len(peerSent) + 1, i>>])
  /\ UNCHANGED <<pc, readyState, isRxBad, bufVars, toPeer, peerClosed, controls, delivered,
                 downVars, sends, faults>>

PeerControl(op) ==
  /\ controls < MaxControls /\ controls' = controls + 1
  /\ PeerSends(Frame(op, TRUE, 0, <<0, controls'>>))
  /\ UNCHANGED <<pc, readyState, isRxBad, bufVars, toPeer, fragments, peerClosed, upVars,
                 downVars, sends, faults>>

PeerCloses ==
  /\ peerClosed' = TRUE
  /\ PeerSends(Frame("close", TRUE, 1, NoValue))
  /\ UNCHANGED <<pc, readyState, isRxBad, bufVars, toPeer, fragments, controls, upVars,
                 downVars, sends, faults>>

PeerErrs(op) ==
  /\ Fault
  /\ PeerSends(Frame(op, TRUE, 1, NoValue))
  /\ UNCHANGED <<pc, readyState, isRxBad, bufVars, toPeer, peerVars, upVars, downVars, sends>>

-----------------------------------------------------------------------------
Dispatch ==
  \/ HandleData \/ HandlePing \/ HandleClose \/ HandleHuge
  \/ CallbackReturns \/ DispatchEnds

Peer ==
  \/ \E fin \in BOOLEAN : PeerFragment(fin)
  \/ \E op \in {"ping", "pong"} : PeerControl(op)
  \/ \E op \in {"bad", "huge"} : PeerErrs(op)
  \/ PeerCloses

Next == Send \/ Close \/ Poll \/ PollFails \/ PollSelectError \/ Dispatch \/ Peer

Spec == Init /\ [][Next]_vars

\* commsFn goes on polling and dispatching; a network that is up brings something
\* again and again, and takes something again and again.
FairSpec ==
  /\ Spec
  /\ WF_vars(Poll \/ Dispatch)
  /\ SF_vars(Poll /\ rxbuf' # rxbuf) /\ SF_vars(Poll /\ txbuf' # txbuf)

-----------------------------------------------------------------------------
(* Properties.                                                             *)

\* Towards the program the client is a channel of whole messages, however the
\* bytes are cut, fragments are split and control frames stand between them,
\* and whatever frames are behind a CLOSE.
PeerMessages ==
  {[i \in 1..k |-> <<n, i>>] : n \in 1..MaxUp, k \in 1..MaxFragments}

FromPeer == INSTANCE Channel WITH Messages <- PeerMessages, sent <- peerSent, got <- delivered

\* Towards the peer it is a channel of whole frames, each masked once, however
\* many were in txbuf when they were put in and wherever the socket cut them.
OurFrames == {f \in Frames : f.op \in {"text", "ping", "pong", "close"}}

ToPeer == INSTANCE Channel WITH Messages <- OurFrames, sent <- accepted, got <- peerGot

\* The client implements both channels, the promise LogoBoard relies on.
ImplementsChannels == FromPeer!Spec /\ ToPeer!Spec

\* Nothing is put behind our CLOSE frame, neither by the program nor by a PING
\* that is handled after it.
CloseIsLast == \A i \in DOMAIN accepted : accepted[i].op = "close" => i = Len(accepted)

\* A socket that is CLOSING becomes CLOSED, and commsFn leaves its loop, unless
\* bStop made it leave before.
ClosingEnds == (readyState = "CLOSING") ~> Over

\* If the connection lasts, then once nothing more is sent (the bounds) every
\* message of the peer has been handed over and every frame has reached the peer.
Arrive ==
  <>[](Over \/ (peerGot = accepted /\ (isRxBad \/ delivered = peerSent)))

\* Nothing stays in a buffer, and no connection half closed, for good.
Progress == ClosingEnds /\ Arrive

=============================================================================
