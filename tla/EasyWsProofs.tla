----------------------------- MODULE EasyWsProofs -----------------------------
(***************************************************************************)
(* Proofs about EasyWs, for any number of messages, fragments and faults.  *)
(***************************************************************************)
EXTENDS EasyWs, SequenceTheorems, WellFoundedInduction, TLAPS

\* The part of TypeOK that what is accepted depends on: a PONG carries the data
\* of a PING, which came through rxbuf and toUs.
Typed ==
  /\ readyState \in {"OPEN", "CLOSING", "CLOSED"}
  /\ rxbuf \in Seq(ByteType) /\ toUs \in Seq(ByteType)
  /\ accepted \in Seq(Frames)
  /\ fragments \in 0..(MaxFragments - 1) /\ controls \in 0..MaxControls
  /\ sends \in 0..MaxSends
  /\ peerSent \in Seq(Seq(Values))

\* While the socket is OPEN no CLOSE was put into txbuf.
OpenUntilClose == readyState = "OPEN" => \A i \in DOMAIN accepted : accepted[i].op # "close"

IInv == Typed /\ OpenUntilClose /\ CloseIsLast

\* The initial states satisfy the invariant.
LEMMA InitIInv == Init => IInv
  BY BoundsAssumption DEF Init, IInv, Typed, OpenUntilClose, CloseIsLast

\* The bytes of a frame are bytes.
LEMMA BytesType == ASSUME NEW f \in Frames PROVE Bytes(f) \in Seq(ByteType)
<1>1. f.size \in {0, 1} /\ 1 + f.size \in Nat
  BY DEF Frames
<1>2. \A i \in 1..(1 + f.size) : [frame |-> f, at |-> i, masked |-> FALSE] \in ByteType
  BY <1>1 DEF ByteType
<1> QED BY <1>1, <1>2 DEF Bytes

\* A frame put into txbuf while OPEN, other than CLOSE, keeps what is known of
\* accepted.
LEMMA SendDataKeeps ==
  ASSUME IInv, NEW f \in Frames, f.op # "close", SendData(f), UNCHANGED readyState
  PROVE  accepted' \in Seq(Frames) /\ OpenUntilClose' /\ CloseIsLast'
<1> USE DEF IInv, Typed
<1>1. CASE readyState \in {"CLOSING", "CLOSED"}
  BY <1>1 DEF SendData, OpenUntilClose, CloseIsLast
<1>2. CASE readyState = "OPEN"
  <2>1. accepted' = Append(accepted, f)
    BY <1>2 DEF SendData
  <2>2. \A i \in DOMAIN accepted' : accepted'[i].op # "close"
    BY <2>1, <1>2 DEF OpenUntilClose
  <2> QED BY <2>1, <2>2 DEF OpenUntilClose, CloseIsLast
<1> QED BY <1>1, <1>2

\* close() puts in one CLOSE, and the socket is OPEN no more.
LEMMA DoCloseKeeps ==
  ASSUME IInv, DoClose
  PROVE  /\ readyState' \in {"CLOSING", "CLOSED"}
         /\ accepted' \in Seq(Frames) /\ OpenUntilClose' /\ CloseIsLast'
<1> USE DEF IInv, Typed
<1>1. CASE readyState \in {"CLOSING", "CLOSED"}
  BY <1>1 DEF DoClose, OpenUntilClose, CloseIsLast
<1>2. CASE readyState = "OPEN"
  <2>1. readyState' = "CLOSING" /\ accepted' = Append(accepted, CloseFrame)
    BY <1>2 DEF DoClose
  <2>2. NoValue \in Values
    BY BoundsAssumption DEF NoValue, Values
  <2>3. CloseFrame \in Frames
    BY <2>2 DEF CloseFrame, Frame, Frames
  <2>4. accepted' \in Seq(Frames) /\ Len(accepted') = Len(accepted) + 1
        /\ \A i \in 1..Len(accepted) : accepted'[i] = accepted[i]
    BY <2>1, <2>3
  <2>5. \A i \in 1..Len(accepted) : accepted[i].op # "close"
    BY <1>2 DEF OpenUntilClose
  <2>6. DOMAIN accepted' = 1..(Len(accepted) + 1) /\ Len(accepted) \in Nat
    BY <2>4
  <2>7. CloseIsLast'
    BY <2>4, <2>5, <2>6 DEF CloseIsLast
  <2> QED BY <2>1, <2>4, <2>7 DEF OpenUntilClose
<1> QED BY <1>1, <1>2

\* What leaves accepted and readyState alone, or closes the socket for good,
\* keeps the two parts about them.
LEMMA Kept ==
  ASSUME IInv, UNCHANGED accepted, readyState' \in {readyState, "CLOSING", "CLOSED"}
  PROVE  /\ readyState' \in {"OPEN", "CLOSING", "CLOSED"}
         /\ accepted' \in Seq(Frames) /\ OpenUntilClose' /\ CloseIsLast'
  BY DEF IInv, Typed, OpenUntilClose, CloseIsLast

\* What the peer sends is made of bytes.
LEMMA PeerSendsKeeps ==
  ASSUME IInv, NEW f \in Frames, PeerSends(f)
  PROVE  toUs' \in Seq(ByteType)
  BY BytesType DEF IInv, Typed, PeerSends

\* Both buffers still hold bytes when some have moved.
LEMMA MovesKeeps ==
  ASSUME IInv, NEW k \in Arrived, NEW j \in 0..Len(txbuf), Moves(k, j)
  PROVE  rxbuf' \in Seq(ByteType) /\ toUs' \in Seq(ByteType)
<1>1. k \in 0..Len(toUs) /\ toUs \in Seq(ByteType) /\ rxbuf \in Seq(ByteType)
  BY DEF Arrived, IInv, Typed
<1>2. First(toUs, k) \in Seq(ByteType) /\ Without(toUs, k) \in Seq(ByteType)
  BY <1>1 DEF First, Without
<1> QED BY <1>1, <1>2 DEF Moves

\* A frame consumed leaves bytes.
LEMMA ConsumeKeeps ==
  ASSUME IInv, Dispatching, Consume
  PROVE  rxbuf' \in Seq(ByteType)
<1>1. rxbuf \in Seq(ByteType) /\ rxbuf # <<>>
  BY DEF IInv, Typed, Dispatching, FrameThere
<1>2. Head(rxbuf) \in ByteType
  BY <1>1
<1>3. Head(rxbuf).frame.size \in {0, 1}
  BY <1>2 DEF ByteType, Frames
<1> QED BY <1>1, <1>3 DEF Consume, Without, Total

-----------------------------------------------------------------------------
\* The calls of commsFn keep the invariant.
LEMMA CallStep == ASSUME IInv, Send \/ Close PROVE IInv'
<1>1. CASE Send
  <2> DEFINE text == Frame("text", TRUE, 1, <<0, sends'>>)
             ping == Frame("ping", TRUE, 0, <<0, sends'>>)
  <2>1. sends \in 0..MaxSends /\ sends' \in 0..MaxSends
    BY <1>1, BoundsAssumption DEF Send, IInv, Typed
  <2>2. <<0, sends'>> \in Values
    BY <2>1, BoundsAssumption DEF Values
  <2>3. text \in Frames /\ text.op = "text" /\ ping \in Frames /\ ping.op = "ping"
    BY <2>2 DEF Frame, Frames
  <2>4. SendData(text) \/ SendData(ping)
    BY <1>1 DEF Send
  <2>5. UNCHANGED <<readyState, rxbuf, toUs, fragments, controls, peerSent>>
    BY <1>1 DEF Send, peerVars, upVars
  <2>6. accepted' \in Seq(Frames) /\ OpenUntilClose' /\ CloseIsLast'
    BY <2>3, <2>4, <2>5, SendDataKeeps
  <2> QED BY <2>1, <2>5, <2>6 DEF IInv, Typed
<1>2. CASE Close
  <2>1. DoClose /\ UNCHANGED <<rxbuf, toUs, fragments, controls, sends, peerSent>>
    BY <1>2 DEF Close, peerVars, upVars
  <2> QED BY <2>1, DoCloseKeeps DEF IInv, Typed
<1> QED BY <1>1, <1>2

\* Polling keeps it.
LEMMA PollStep == ASSUME IInv, Poll \/ PollFails \/ PollSelectError PROVE IInv'
<1>1. CASE Poll \/ PollFails
  <2>1. /\ readyState' \in {readyState, "CLOSED"}
        /\ UNCHANGED <<accepted, fragments, controls, sends, peerSent>>
    BY <1>1 DEF Poll, PollFails, peerVars, upVars
  <2>2. rxbuf' \in Seq(ByteType) /\ toUs' \in Seq(ByteType)
    BY <1>1, MovesKeeps DEF Poll, PollFails
  <2> QED BY <2>1, <2>2, Kept DEF IInv, Typed
<1>2. CASE PollSelectError
  <2>1. DoClose /\ UNCHANGED <<rxbuf, toUs, fragments, controls, sends, peerSent>>
    BY <1>2 DEF PollSelectError, peerVars, upVars
  <2> QED BY <2>1, DoCloseKeeps DEF IInv, Typed
<1> QED BY <1>1, <1>2

\* Dispatching keeps it, a PING behind a CLOSE included.
LEMMA DispatchStep == ASSUME IInv, Dispatch PROVE IInv'
<1>1. CASE HandleData
  <2>1. /\ Dispatching /\ Consume
        /\ UNCHANGED <<readyState, toUs, accepted, fragments, controls, sends, peerSent>>
    BY <1>1 DEF HandleData, peerVars, downVars
  <2> QED BY <2>1, ConsumeKeeps, Kept DEF IInv, Typed
<1>2. CASE HandlePing
  <2> DEFINE pong == Frame("pong", TRUE, 0, Head(rxbuf).frame.val)
  <2>1. /\ Dispatching /\ Consume
        /\ SendData(pong) \/ UNCHANGED accepted
        /\ UNCHANGED <<readyState, toUs, fragments, controls, sends, peerSent>>
    BY <1>2 DEF HandlePing, peerVars, upVars
  <2>2. Head(rxbuf) \in ByteType
    BY <2>1 DEF IInv, Typed, Dispatching, FrameThere
  <2>3. pong \in Frames /\ pong.op = "pong"
    BY <2>2 DEF ByteType, Frame, Frames
  <2>4. accepted' \in Seq(Frames) /\ OpenUntilClose' /\ CloseIsLast'
    BY <2>1, <2>3, SendDataKeeps, Kept
  <2> QED BY <2>1, <2>4, ConsumeKeeps DEF IInv, Typed
<1>3. CASE HandleClose
  <2>1. /\ Dispatching /\ Consume /\ DoClose
        /\ UNCHANGED <<toUs, fragments, controls, sends, peerSent>>
    BY <1>3 DEF HandleClose, peerVars, upVars
  <2> QED BY <2>1, ConsumeKeeps, DoCloseKeeps DEF IInv, Typed
<1>4. CASE HandleHuge
  <2>1. DoClose /\ UNCHANGED <<rxbuf, toUs, fragments, controls, sends, peerSent>>
    BY <1>4 DEF HandleHuge, peerVars, upVars
  <2> QED BY <2>1, DoCloseKeeps DEF IInv, Typed
<1>5. CASE CallbackReturns \/ DispatchEnds
  <2>1. UNCHANGED <<readyState, rxbuf, toUs, accepted, fragments, controls, sends, peerSent>>
    BY <1>5 DEF CallbackReturns, DispatchEnds, bufVars, peerVars, upVars, downVars
  <2> QED BY <2>1, Kept DEF IInv, Typed
<1> QED BY <1>1, <1>2, <1>3, <1>4, <1>5 DEF Dispatch

\* The peer keeps it.
LEMMA PeerStep == ASSUME IInv, Peer PROVE IInv'
<1> USE BoundsAssumption
<1>1. ASSUME NEW fin \in BOOLEAN, PeerFragment(fin) PROVE IInv'
  <2> DEFINE n == Len(peerSent) + 1
             f == Frame(IF fragments = 0 THEN "text" ELSE "cont", fin, 1, <<n, fragments + 1>>)
             message == [i \in 1..(fragments + 1) |-> <<n, i>>]
  <2>1. /\ PeerSends(f)
        /\ UNCHANGED <<readyState, rxbuf, accepted, controls, sends>>
    BY <1>1 DEF PeerFragment, bufVars, downVars
  <2>2. n \in 1..MaxUp /\ fragments \in 0..(MaxFragments - 1)
    BY <1>1 DEF PeerFragment, IInv, Typed
  <2>3. \A i \in 1..(fragments + 1) : <<n, i>> \in Values
    BY <2>2 DEF Values
  <2>4. f \in Frames
    BY <2>2, <2>3 DEF Frame, Frames
  <2>5. message \in Seq(Values)
    BY <2>2, <2>3
  <2>6. peerSent' \in Seq(Seq(Values))
    BY <1>1, <2>5 DEF PeerFragment, IInv, Typed
  <2>7. fragments' \in 0..(MaxFragments - 1)
    BY <1>1, <2>2 DEF PeerFragment
  <2> QED BY <2>1, <2>4, <2>6, <2>7, PeerSendsKeeps, Kept DEF IInv, Typed
<1>2. ASSUME NEW op \in {"ping", "pong"}, PeerControl(op) PROVE IInv'
  <2>1. /\ PeerSends(Frame(op, TRUE, 0, <<0, controls'>>))
        /\ UNCHANGED <<readyState, rxbuf, accepted, fragments, sends, peerSent>>
    BY <1>2 DEF PeerControl, bufVars, upVars, downVars
  <2>2. controls' \in 0..MaxControls
    BY <1>2 DEF PeerControl, IInv, Typed
  <2>3. Frame(op, TRUE, 0, <<0, controls'>>) \in Frames
    BY <2>2 DEF Frame, Frames, Values
  <2> QED BY <2>1, <2>2, <2>3, PeerSendsKeeps, Kept DEF IInv, Typed
<1>3. ASSUME NEW op \in {"bad", "huge", "close"}, PeerSends(Frame(op, TRUE, 1, NoValue)),
             UNCHANGED <<readyState, rxbuf, accepted, fragments, controls, sends, peerSent>>
      PROVE  IInv'
  <2>1. Frame(op, TRUE, 1, NoValue) \in Frames
    BY DEF Frame, Frames, Values, NoValue
  <2> QED BY <1>3, <2>1, PeerSendsKeeps, Kept DEF IInv, Typed
<1>4. CASE PeerCloses
  BY <1>3, <1>4 DEF PeerCloses, bufVars, upVars, downVars
<1>5. ASSUME NEW op \in {"bad", "huge"}, PeerErrs(op) PROVE IInv'
  BY <1>3, <1>5 DEF PeerErrs, bufVars, peerVars, upVars, downVars
<1> QED BY <1>1, <1>2, <1>4, <1>5 DEF Peer

\* Every step keeps it.
LEMMA Step == IInv /\ [Next]_vars => IInv'
<1>1. ASSUME IInv, UNCHANGED vars PROVE IInv'
  BY <1>1 DEF IInv, Typed, OpenUntilClose, CloseIsLast, vars, bufVars, upVars, downVars, peerVars
<1> QED BY <1>1, CallStep, PollStep, DispatchStep, PeerStep DEF Next

-----------------------------------------------------------------------------
\* The invariant holds of every behaviour.
THEOREM Invariant == Spec => []IInv
  BY InitIInv, Step, PTL DEF Spec

\* Whatever the peer sends and the program asks for, nothing is put into txbuf
\* behind the CLOSE frame, and there is one CLOSE frame at most.
THEOREM CloseIsLastHolds == Spec => []CloseIsLast
<1>1. IInv => CloseIsLast
  BY DEF IInv
<1> QED BY <1>1, Invariant, PTL

-----------------------------------------------------------------------------
(* PeerReads.  The library's induction theorems take an operator, which    *)
(* the provers here cannot instantiate; that < on Nat is well founded says *)
(* the same of a set of numbers.                                           *)

\* A set of numbers that is not empty has a least one.
LEMMA Least == ASSUME NEW N \in SUBSET Nat, N # {} PROVE \E n \in N : \A m \in N : n <= m
<1>1. PICK n \in N : \A m \in N : <<m, n>> \notin OpToRel(<, Nat)
  BY NatLessThanWellFounded, WFMin
<1>2. \A m \in N : ~(m < n)
  BY <1>1 DEF OpToRel
<1> QED BY <1>2

\* Every sequence of bytes is in a set that has each of them whenever it has the
\* shorter ones.
LEMMA ShortFirst ==
  ASSUME NEW P, NEW T,
         \A s \in Seq(T) : (\A t \in Seq(T) : Len(t) < Len(s) => t \in P) => s \in P
  PROVE  Seq(T) \subseteq P
<1> DEFINE N == {Len(s) : s \in Seq(T) \ P}
<1> SUFFICES ASSUME Seq(T) \ P # {} PROVE FALSE
  OBVIOUS
<1>0. \A s \in Seq(T) : Len(s) \in Nat
  OBVIOUS
<1>1. N \in SUBSET Nat /\ N # {}
  <2>1. N \in SUBSET Nat
    BY <1>0
  <2>2. PICK s \in Seq(T) \ P : TRUE
    OBVIOUS
  <2>3. Len(s) \in N
    BY <2>2
  <2> QED BY <2>1, <2>3
<1> HIDE DEF N
<1>2. PICK n \in N : \A m \in N : n <= m
  BY <1>1, Least
<1>3. PICK s \in Seq(T) \ P : Len(s) = n
  BY <1>2 DEF N
<1>4. ASSUME NEW t \in Seq(T), Len(t) < Len(s) PROVE t \in P
  <2>1. t \notin P => Len(t) \in N
    BY DEF N
  <2>2. Len(t) \in Nat /\ Len(s) \in Nat
    OBVIOUS
  <2> QED BY <1>2, <1>3, <1>4, <2>1, <2>2
<1> QED BY <1>3, <1>4

\* Taking bytes off the front.
LEMMA WithoutSome ==
  ASSUME NEW T, NEW s \in Seq(T), NEW n \in 0..Len(s)
  PROVE  /\ Without(s, n) \in Seq(T) /\ Len(Without(s, n)) = Len(s) - n
         /\ \A i \in 1..(Len(s) - n) : Without(s, n)[i] = s[n + i]
<1>1. Len(s) \in Nat /\ n \in Nat
  OBVIOUS
<1>2. Without(s, n) = [i \in 1..(Len(s) - n) |-> s[n + i]]
  BY <1>1 DEF Without
<1> QED BY <1>1, <1>2

\* The first bytes.
LEMMA FirstSome ==
  ASSUME NEW T, NEW s \in Seq(T), NEW n \in 0..Len(s)
  PROVE  /\ First(s, n) \in Seq(T) /\ Len(First(s, n)) = n
         /\ \A i \in 1..n : First(s, n)[i] = s[i]
<1>1. Len(s) \in Nat /\ n \in Nat
  OBVIOUS
<1> QED BY <1>1 DEF First

\* There is a frame at the front, whole or not, and it takes this many bytes.
Partial(s) == s = <<>> \/ Len(s) < 1 + Head(s).frame.size

\* A frame at the front can be taken off.
LEMMA FrontFrame ==
  ASSUME NEW s \in Seq(ByteType), ~Partial(s)
  PROVE  /\ 1 + Head(s).frame.size \in 1..Len(s)
         /\ Without(s, 1 + Head(s).frame.size) \in Seq(ByteType)
         /\ Len(Without(s, 1 + Head(s).frame.size)) < Len(s)
<1>1. s # <<>> /\ Head(s) \in ByteType /\ Len(s) \in Nat
  BY DEF Partial
<1>2. Head(s).frame.size \in {0, 1}
  BY <1>1 DEF ByteType, Frames
<1>3. 1 + Head(s).frame.size \in 1..Len(s)
  BY <1>1, <1>2 DEF Partial
<1> DEFINE n == 1 + Head(s).frame.size
<1>4. n \in 0..Len(s)
  BY <1>1, <1>3
<1> HIDE DEF n
<1>5. Without(s, n) \in Seq(ByteType) /\ Len(Without(s, n)) = Len(s) - n
  BY <1>4, WithoutSome
<1>6. n \in 1..Len(s)
  BY <1>3 DEF n
<1> QED BY <1>1, <1>5, <1>6 DEF n

\* What the frame at the front is read as, and what is read with the rest.
ReadAs(s) ==
  LET f == Head(s).frame
      n == 1 + f.size
  IN  IF \A i \in 1..n : s[i] = [frame |-> f, at |-> i, masked |-> i > 1]
        THEN f ELSE Frame("bad", TRUE, 0, NoValue)

Rest(s) == Without(s, 1 + Head(s).frame.size)

OneStep(read, s) ==
  IF Partial(s) THEN [frames |-> <<>>, rest |-> s]
  ELSE [frames |-> <<ReadAs(s)>> \o read[Rest(s)].frames, rest |-> read[Rest(s)].rest]

\* The function by which PeerReads is defined exists.
LEMMA PeerReadsUnfolds ==
  ASSUME NEW b \in Seq(ByteType)
  PROVE  PeerReads(b) =
           IF Partial(b) THEN [frames |-> <<>>, rest |-> b]
           ELSE [frames |-> <<ReadAs(b)>> \o PeerReads(Rest(b)).frames,
                 rest |-> PeerReads(Rest(b)).rest]
<1> DEFINE S(n) == {s \in Seq(ByteType) : Len(s) <= n}
           Upto(n, f) == f = [s \in S(n) |-> OneStep(f, s)]
<1>1. \A s \in Seq(ByteType) : ~Partial(s) => Rest(s) \in Seq(ByteType) /\ Len(Rest(s)) < Len(s)
  BY FrontFrame DEF Rest
<1>2. ASSUME NEW f, NEW g, NEW s \in Seq(ByteType), ~Partial(s) => f[Rest(s)] = g[Rest(s)]
      PROVE  OneStep(f, s) = OneStep(g, s)
  BY <1>2 DEF OneStep
<1>3. ASSUME NEW n \in Nat, NEW m \in Nat, NEW f, NEW g, Upto(n, f), Upto(m, g)
      PROVE  \A s \in Seq(ByteType) : Len(s) <= n /\ Len(s) <= m => f[s] = g[s]
  <2> DEFINE P == {s \in Seq(ByteType) : Len(s) <= n /\ Len(s) <= m => f[s] = g[s]}
  <2>1. ASSUME NEW s \in Seq(ByteType), \A t \in Seq(ByteType) : Len(t) < Len(s) => t \in P
        PROVE  s \in P
    <3> SUFFICES ASSUME Len(s) <= n, Len(s) <= m PROVE f[s] = g[s]
      OBVIOUS
    <3>1. f[s] = OneStep(f, s) /\ g[s] = OneStep(g, s)
      BY <1>3
    <3>2. ASSUME ~Partial(s) PROVE f[Rest(s)] = g[Rest(s)]
      <4>1. Rest(s) \in Seq(ByteType) /\ Len(Rest(s)) < Len(s)
        BY <1>1, <3>2
      <4>2. Len(Rest(s)) \in Nat /\ Len(s) \in Nat
        BY <4>1
      <4>3. Rest(s) \in P
        BY <2>1, <4>1
      <4> QED BY <4>1, <4>2, <4>3
    <3> QED BY <1>2, <3>1, <3>2
  <2> HIDE DEF P
  <2>2. Seq(ByteType) \subseteq P
    BY <2>1, ShortFirst
  <2> QED BY <2>2 DEF P
<1>4. ASSUME NEW n \in Nat PROVE \E f : Upto(n, f)
  <2> DEFINE N == {k \in Nat : ~\E f : Upto(k, f)}
  <2> SUFFICES ASSUME N # {} PROVE FALSE
    OBVIOUS
  <2>1. PICK k \in N : \A m \in N : k <= m
    <3>1. N \in SUBSET Nat
      OBVIOUS
    <3> HIDE DEF N
    <3> QED BY <3>1, Least
  <2>2. \E f : \A s \in S(k) : ~Partial(s) => f[Rest(s)] = OneStep(f, Rest(s))
    <3>1. CASE k = 0
      <4>1. \A s \in S(k) : Partial(s)
        BY <3>1 DEF Partial
      <4> QED BY <4>1
    <3>2. CASE k # 0
      <4>1. k - 1 \in Nat /\ ~(k - 1 \in N)
        <5>1. k \in Nat
          OBVIOUS
        <5> HIDE DEF N
        <5> QED BY <2>1, <3>2, <5>1
      <4>2. PICK f : Upto(k - 1, f)
        <5> HIDE DEF Upto
        <5> QED BY <4>1
      <4>3. ASSUME NEW s \in S(k), ~Partial(s) PROVE f[Rest(s)] = OneStep(f, Rest(s))
        <5>1. Rest(s) \in Seq(ByteType) /\ Len(Rest(s)) < Len(s) /\ Len(Rest(s)) \in Nat
          BY <1>1, <4>3
        <5>2. Rest(s) \in S(k - 1)
          BY <5>1, <4>1
        <5> QED BY <4>2, <5>2
      <4> QED BY <4>3
    <3> QED BY <3>1, <3>2
  <2>3. PICK f : \A s \in S(k) : ~Partial(s) => f[Rest(s)] = OneStep(f, Rest(s))
    BY <2>2
  <2> DEFINE g == [s \in S(k) |-> OneStep(f, s)]
  <2>4. ASSUME NEW s \in S(k) PROVE OneStep(g, s) = OneStep(f, s)
    <3>1. ASSUME ~Partial(s) PROVE g[Rest(s)] = f[Rest(s)]
      <4>1. Rest(s) \in Seq(ByteType) /\ Len(Rest(s)) < Len(s) /\ Len(Rest(s)) \in Nat
        BY <1>1, <3>1
      <4>2. Rest(s) \in S(k)
        BY <4>1
      <4> QED BY <2>3, <3>1, <4>2
    <3> QED BY <1>2, <3>1
  <2>5. Upto(k, g)
    BY <2>4
  <2> HIDE DEF Upto, g
  <2> QED BY <2>1, <2>5
<1> DEFINE F(n) == CHOOSE f : Upto(n, f)
           h == [s \in Seq(ByteType) |-> F(Len(s))[s]]
<1>5. ASSUME NEW n \in Nat PROVE Upto(n, F(n))
  <2> HIDE DEF Upto
  <2> QED BY <1>4
<1>6. ASSUME NEW s \in Seq(ByteType) PROVE h[s] = OneStep(h, s)
  <2> HIDE DEF F
  <2>0. Len(s) \in Nat /\ Upto(Len(s), F(Len(s)))
    <3>1. Len(s) \in Nat
      OBVIOUS
    <3> HIDE DEF Upto
    <3> QED BY <1>5, <3>1
  <2>1. F(Len(s))[s] = OneStep(F(Len(s)), s)
    BY <2>0
  <2>2. ASSUME ~Partial(s) PROVE h[Rest(s)] = F(Len(s))[Rest(s)]
    <3>1. Rest(s) \in Seq(ByteType) /\ Len(Rest(s)) < Len(s) /\ Len(Rest(s)) \in Nat
      BY <1>1, <2>2
    <3>2. Upto(Len(Rest(s)), F(Len(Rest(s))))
      BY <1>5, <3>1
    <3>3. F(Len(Rest(s)))[Rest(s)] = F(Len(s))[Rest(s)]
      <4> HIDE DEF Upto
      <4> QED BY <1>3, <2>0, <3>1, <3>2
    <3> QED BY <3>1, <3>3
  <2>3. OneStep(h, s) = OneStep(F(Len(s)), s)
    <3> HIDE DEF h
    <3> QED BY <1>2, <2>2
  <2> QED BY <2>1, <2>3
<1> DEFINE R(f) == f = [s \in Seq(ByteType) |-> OneStep(f, s)]
           read == CHOOSE f : R(f)
<1>7. R(read)
  <2>1. R(h)
    BY <1>6
  <2> HIDE DEF R, h
  <2> QED BY <2>1
<1>8. \A s \in Seq(ByteType) : PeerReads(s) = read[s]
  BY DEF PeerReads, OneStep, Partial, ReadAs, Rest
<1> HIDE DEF read
<1>9. \A s \in Seq(ByteType) : PeerReads(s) = OneStep(read, s)
  BY <1>7, <1>8
<1>10. ~Partial(b) => read[Rest(b)] = PeerReads(Rest(b))
  BY <1>1, <1>8
<1> QED BY <1>9, <1>10 DEF OneStep

\* Sequences put together.
LEMMA Joined ==
  ASSUME NEW T, NEW s \in Seq(T), NEW u \in Seq(T)
  PROVE  /\ s \o u \in Seq(T) /\ Len(s \o u) = Len(s) + Len(u)
         /\ \A i \in 1..Len(s) : (s \o u)[i] = s[i]
         /\ \A i \in 1..Len(u) : (s \o u)[Len(s) + i] = u[i]
<1>1. s \o u \in Seq(T) /\ Len(s \o u) = Len(s) + Len(u) /\ Len(s) \in Nat /\ Len(u) \in Nat
  OBVIOUS
<1>2. \A i \in 1..Len(s) : (s \o u)[i] = s[i]
  OBVIOUS
<1>3. ASSUME NEW i \in 1..Len(u) PROVE (s \o u)[Len(s) + i] = u[i]
  OBVIOUS
<1> QED BY <1>1, <1>2, <1>3

\* What is taken off the front of the first of two sequences.
LEMMA FrontOfBoth ==
  ASSUME NEW T, NEW s \in Seq(T), NEW u \in Seq(T), NEW n \in 0..Len(s)
  PROVE  /\ Without(s, n) \o u \in Seq(T) /\ Len(Without(s, n) \o u) = Len(s \o u) - n
         /\ \A i \in 1..Len(Without(s, n) \o u) : (Without(s, n) \o u)[i] = (s \o u)[n + i]
<1> DEFINE t == Without(s, n)
           v == t \o u
           w == s \o u
<1>1. Len(s) \in Nat /\ Len(u) \in Nat /\ n \in Nat /\ n <= Len(s)
  OBVIOUS
<1>2. t \in Seq(T) /\ Len(t) = Len(s) - n /\ \A i \in 1..(Len(s) - n) : t[i] = s[n + i]
  BY WithoutSome
<1>3. /\ Len(w) = Len(s) + Len(u)
      /\ \A i \in 1..Len(s) : w[i] = s[i]
      /\ \A i \in 1..Len(u) : w[Len(s) + i] = u[i]
  BY Joined
<1> HIDE DEF t, w
<1>4. /\ v \in Seq(T) /\ Len(v) = Len(t) + Len(u)
      /\ \A i \in 1..Len(t) : v[i] = t[i]
      /\ \A i \in 1..Len(u) : v[Len(t) + i] = u[i]
  <2>1. t \in Seq(T)
    BY <1>2
  <2>2. v \in Seq(T) /\ Len(v) = Len(t) + Len(u)
    BY <2>1, Joined
  <2>3. \A i \in 1..Len(t) : v[i] = t[i]
    BY <2>1, Joined
  <2>4. \A i \in 1..Len(u) : v[Len(t) + i] = u[i]
    BY <2>1, Joined
  <2> QED BY <2>2, <2>3, <2>4
<1> HIDE DEF v
<1>5. ASSUME NEW i \in 1..Len(v) PROVE v[i] = w[n + i]
  <2>1. CASE i \in 1..Len(t)
    <3>1. n + i \in 1..Len(s) /\ i \in 1..(Len(s) - n)
      BY <1>1, <1>2, <2>1
    <3> QED BY <1>2, <1>3, <1>4, <2>1, <3>1
  <2>2. CASE i \notin 1..Len(t)
    <3>1. i - Len(t) \in 1..Len(u) /\ Len(t) + (i - Len(t)) = i /\ n + i = Len(s) + (i - Len(t))
      BY <1>1, <1>2, <1>4, <2>2
    <3>2. v[Len(t) + (i - Len(t))] = u[i - Len(t)] /\ w[Len(s) + (i - Len(t))] = u[i - Len(t)]
      BY <1>3, <1>4, <3>1
    <3> QED BY <3>1, <3>2
  <2> QED BY <2>1, <2>2
<1>6. Len(v) = Len(w) - n
  BY <1>1, <1>2, <1>3, <1>4
<1> QED BY <1>4, <1>5, <1>6 DEF v, w, t

\* A sequence is its head and its tail.
LEMMA HeadBack ==
  ASSUME NEW T, NEW s \in Seq(T), s # <<>>
  PROVE  Head(s) \in T /\ Tail(s) \in Seq(T) /\ s = <<Head(s)>> \o Tail(s)
<1> DEFINE w == <<Head(s)>> \o Tail(s)
<1>1. /\ Head(s) \in T /\ Tail(s) \in Seq(T) /\ Len(Tail(s)) = Len(s) - 1 /\ Len(s) \in Nat \ {0}
      /\ Head(s) = s[1] /\ \A i \in 1..(Len(s) - 1) : Tail(s)[i] = s[i + 1]
  OBVIOUS
<1>2. w \in Seq(T) /\ Len(w) = Len(s) /\ w[1] = s[1]
  BY <1>1
<1>3. ASSUME NEW i \in 1..Len(s), i # 1 PROVE w[i] = s[i]
  BY <1>1, <1>3
<1> HIDE DEF w
<1>4. w = s
  BY <1>1, <1>2, <1>3, SeqEqual
<1> QED BY <1>1, <1>4 DEF w

\* One element and two sequences, put together either way.
LEMMA Regrouped ==
  ASSUME NEW T, NEW x \in T, NEW r \in Seq(T), NEW s \in Seq(T), NEW fs,
         fs = <<x>> \o (r \o s)
  PROVE  <<x>> \o r \in Seq(T) /\ fs = (<<x>> \o r) \o s
  OBVIOUS

-----------------------------------------------------------------------------
(* The bytes of several frames.                                            *)

\* The i-th byte of a frame, the payload masked or not.
Byte(f, i, masks) == [frame |-> f, at |-> i, masked |-> masks /\ i > 1]

\* The sequence s is cut into the frames fs at the places ends[0], ends[1] ...
CutAt(s, fs, masks, ends) ==
  /\ ends \in [0..Len(fs) -> 0..Len(s)]
  /\ ends[0] = 0 /\ ends[Len(fs)] = Len(s)
  /\ \A i, j \in 0..Len(fs) : i <= j => ends[i] <= ends[j]
  /\ \A i \in 1..Len(fs) :
       /\ ends[i] = ends[i - 1] + 1 + fs[i].size
       /\ \A k \in 1..(1 + fs[i].size) : s[ends[i - 1] + k] = Byte(fs[i], k, masks)

Cut(s, fs, masks) == \E ends : CutAt(s, fs, masks, ends)

\* No bytes are no frames.
LEMMA CutNothing == ASSUME NEW masks PROVE Cut(<<>>, <<>>, masks)
<1>1. CutAt(<<>>, <<>>, masks, [i \in {0} |-> 0])
  BY DEF CutAt
<1> QED BY <1>1 DEF Cut

\* A frame's bytes are added at the end.
LEMMA CutAdds ==
  ASSUME NEW masks, NEW s \in Seq(ByteType), NEW fs \in Seq(Frames), Cut(s, fs, masks),
         NEW f \in Frames, NEW t \in Seq(ByteType), Len(t) = Len(s) + 1 + f.size,
         \A i \in 1..Len(s) : t[i] = s[i],
         \A k \in 1..(1 + f.size) : t[Len(s) + k] = Byte(f, k, masks)
  PROVE  Cut(t, Append(fs, f), masks)
<1>1. PICK ends : CutAt(s, fs, masks, ends)
  BY DEF Cut
<1> DEFINE gs == Append(fs, f)
           m == Len(fs)
           ends2 == [i \in 0..(m + 1) |-> IF i = m + 1 THEN Len(t) ELSE ends[i]]
<1>2. /\ m \in Nat /\ Len(s) \in Nat /\ Len(t) \in Nat /\ f.size \in Nat /\ Len(s) <= Len(t)
      /\ \A i \in 1..m : fs[i].size \in Nat
  <2>1. f.size \in Nat
    BY DEF Frames
  <2>2. \A i \in 1..m : fs[i] \in Frames
    OBVIOUS
  <2>3. \A i \in 1..m : fs[i].size \in Nat
    BY <2>2 DEF Frames
  <2> QED BY <2>1, <2>3
<1>3. Len(gs) = m + 1 /\ gs[m + 1] = f /\ \A i \in 1..m : gs[i] = fs[i]
  OBVIOUS
<1> HIDE DEF gs, m
<1>4. /\ ends \in [0..m -> 0..Len(s)] /\ ends[0] = 0 /\ ends[m] = Len(s)
      /\ \A i, j \in 0..m : i <= j => ends[i] <= ends[j]
      /\ \A i \in 1..m :
           /\ ends[i] = ends[i - 1] + 1 + fs[i].size
           /\ \A k \in 1..(1 + fs[i].size) : s[ends[i - 1] + k] = Byte(fs[i], k, masks)
  BY <1>1 DEF CutAt, m
<1>5. /\ ends2 \in [0..(m + 1) -> 0..Len(t)] /\ ends2[m + 1] = Len(t)
      /\ \A i \in 0..m : ends2[i] = ends[i] /\ ends[i] \in 0..Len(s)
  BY <1>2, <1>4
<1> HIDE DEF ends2
<1>6. ends2[0] = 0
  BY <1>2, <1>4, <1>5
<1>7. \A i, j \in 0..(m + 1) : i <= j => ends2[i] <= ends2[j]
  <2> SUFFICES ASSUME NEW i \in 0..(m + 1), NEW j \in 0..(m + 1), i <= j PROVE ends2[i] <= ends2[j]
    OBVIOUS
  <2>1. CASE j \in 0..m
    BY <1>2, <1>4, <1>5, <2>1
  <2>2. CASE j = m + 1
    BY <1>2, <1>5, <2>2
  <2> QED BY <1>2, <2>1, <2>2
<1>8. ASSUME NEW i \in 1..(m + 1)
      PROVE  /\ ends2[i] = ends2[i - 1] + 1 + gs[i].size
             /\ \A k \in 1..(1 + gs[i].size) : t[ends2[i - 1] + k] = Byte(gs[i], k, masks)
  <2>1. CASE i = m + 1
    <3>1. ends2[i - 1] = Len(s) /\ gs[i] = f
      BY <1>2, <1>3, <1>4, <1>5, <2>1
    <3> QED BY <1>2, <1>5, <2>1, <3>1
  <2>2. CASE i \in 1..m
    <3>1. /\ i - 1 \in 0..m /\ i \in 0..m /\ ends2[i - 1] = ends[i - 1] /\ ends2[i] = ends[i]
          /\ gs[i] = fs[i]
      BY <1>2, <1>3, <1>5, <2>2
    <3>2. /\ ends[i] = ends[i - 1] + 1 + fs[i].size /\ ends[i] \in 0..Len(s)
          /\ ends[i - 1] \in 0..Len(s) /\ fs[i].size \in Nat
      BY <1>2, <1>4, <1>5, <2>2, <3>1
    <3>3. ASSUME NEW k \in 1..(1 + fs[i].size) PROVE t[ends[i - 1] + k] = Byte(fs[i], k, masks)
      <4>1. ends[i - 1] + k \in 1..Len(s)
        <5> DEFINE a == ends[i - 1]
                   z == fs[i].size
        <5>1. a \in Nat /\ z \in Nat /\ a + 1 + z <= Len(s) /\ k \in 1..(1 + z) /\ Len(s) \in Nat
          BY <1>2, <3>2
        <5> HIDE DEF a, z
        <5>2. a + k \in 1..Len(s)
          BY <5>1
        <5> QED BY <5>2 DEF a
      <4>2. t[ends[i - 1] + k] = s[ends[i - 1] + k]
        BY <4>1
      <4> QED BY <1>4, <2>2, <4>2
    <3> QED BY <3>1, <3>2, <3>3
  <2> QED BY <1>2, <2>1, <2>2
<1>9. CutAt(t, gs, masks, ends2)
  BY <1>3, <1>5, <1>6, <1>7, <1>8 DEF CutAt
<1> QED BY <1>9 DEF Cut, gs

\* The frame at the front.
LEMMA CutHas ==
  ASSUME NEW masks, NEW s \in Seq(ByteType), NEW fs \in Seq(Frames), Cut(s, fs, masks)
  PROVE  /\ s = <<>> <=> fs = <<>>
         /\ s # <<>> => /\ Head(s).frame = Head(fs) /\ 1 + Head(fs).size \in 1..Len(s)
                        /\ \A k \in 1..(1 + Head(fs).size) : s[k] = Byte(Head(fs), k, masks)
<1>1. PICK ends : CutAt(s, fs, masks, ends)
  BY DEF Cut
<1>2. Len(s) \in Nat /\ Len(fs) \in Nat
  OBVIOUS
<1>3. fs = <<>> => Len(s) = 0
  BY <1>1 DEF CutAt
<1>4. ASSUME fs # <<>>
      PROVE  /\ Len(s) # 0 /\ 1 + Head(fs).size \in 1..Len(s)
             /\ \A k \in 1..(1 + Head(fs).size) : s[k] = Byte(Head(fs), k, masks)
  <2>1. 1 \in 1..Len(fs) /\ Head(fs) = fs[1] /\ fs[1] \in Frames /\ 1 \in 0..Len(fs)
    BY <1>2, <1>4
  <2>2. fs[1].size \in {0, 1}
    BY <2>1 DEF Frames
  <2>3. /\ ends[1] = ends[0] + 1 + fs[1].size /\ ends[0] = 0 /\ ends[1] \in 0..Len(s)
        /\ \A k \in 1..(1 + fs[1].size) : s[ends[0] + k] = Byte(fs[1], k, masks)
    BY <1>1, <2>1 DEF CutAt
  <2>4. \A k \in 1..(1 + fs[1].size) : ends[0] + k = k
    BY <2>2, <2>3
  <2> QED BY <1>2, <2>1, <2>2, <2>3, <2>4
<1>5. s # <<>> => Head(s) = s[1]
  OBVIOUS
<1>6. fs # <<>> => 1 \in 1..(1 + Head(fs).size)
  BY <1>2, <1>4
<1>7. fs # <<>> => Head(s).frame = Head(fs)
  <2> SUFFICES ASSUME fs # <<>> PROVE Head(s).frame = Head(fs)
    OBVIOUS
  <2>1. s # <<>> /\ s[1] = Byte(Head(fs), 1, masks)
    BY <1>4, <1>6
  <2> QED BY <1>5, <2>1 DEF Byte
<1> QED BY <1>3, <1>4, <1>7

\* Its bytes are taken off.
LEMMA CutTakes ==
  ASSUME NEW masks, NEW s \in Seq(ByteType), NEW fs \in Seq(Frames), Cut(s, fs, masks), s # <<>>,
         NEW t \in Seq(ByteType), Len(t) = Len(s) - (1 + Head(fs).size),
         \A i \in 1..Len(t) : t[i] = s[1 + Head(fs).size + i]
  PROVE  Cut(t, Tail(fs), masks)
<1>1. PICK ends : CutAt(s, fs, masks, ends)
  BY DEF Cut
<1>2. fs # <<>> /\ 1 + Head(fs).size \in 1..Len(s)
  BY CutHas
<1> DEFINE gs == Tail(fs)
           m == Len(fs) - 1
           n == 1 + Head(fs).size
           ends2 == [i \in 0..m |-> ends[i + 1] - n]
<1>3. /\ m \in Nat /\ Len(fs) = m + 1 /\ Len(s) \in Nat /\ n \in 1..Len(s) /\ Head(fs) = fs[1]
      /\ \A i \in 1..(m + 1) : fs[i].size \in Nat
  <2>1. \A i \in 1..Len(fs) : fs[i] \in Frames
    OBVIOUS
  <2>2. \A i \in 1..Len(fs) : fs[i].size \in Nat
    BY <2>1 DEF Frames
  <2> QED BY <1>2, <2>2
<1>4. Len(gs) = m /\ \A i \in 1..m : gs[i] = fs[i + 1]
  BY <1>2
<1>5. n = 1 + fs[1].size /\ Len(t) = Len(s) - n /\ \A i \in 1..Len(t) : t[i] = s[n + i]
  BY <1>3
<1> HIDE DEF gs, m, n
<1>6. /\ ends \in [0..(m + 1) -> 0..Len(s)] /\ ends[0] = 0 /\ ends[m + 1] = Len(s)
      /\ \A i, j \in 0..(m + 1) : i <= j => ends[i] <= ends[j]
      /\ \A i \in 1..(m + 1) :
           /\ ends[i] = ends[i - 1] + 1 + fs[i].size
           /\ \A k \in 1..(1 + fs[i].size) : s[ends[i - 1] + k] = Byte(fs[i], k, masks)
  BY <1>1, <1>3 DEF CutAt
<1>7. ends[1] = n
  BY <1>3, <1>5, <1>6
<1>8. \A i \in 0..m : ends[i + 1] \in n..Len(s) /\ ends2[i] = ends[i + 1] - n
  BY <1>3, <1>6, <1>7
<1>9. ends2 \in [0..m -> 0..Len(t)]
  BY <1>3, <1>5, <1>8
<1> HIDE DEF ends2
<1>10. ends2[0] = 0 /\ ends2[m] = Len(t)
  <2>1. 0 \in 0..m /\ m \in 0..m /\ 0 + 1 = 1
    BY <1>3
  <2>2. ends2[0] = ends[0 + 1] - n /\ ends2[m] = ends[m + 1] - n
    BY <1>8, <2>1
  <2>3. ends2[0] = n - n
    BY <1>7, <2>1, <2>2
  <2> QED BY <1>3, <1>5, <1>6, <2>2, <2>3
<1>11. \A i, j \in 0..m : i <= j => ends2[i] <= ends2[j]
  <2> SUFFICES ASSUME NEW i \in 0..m, NEW j \in 0..m, i <= j PROVE ends2[i] <= ends2[j]
    OBVIOUS
  <2>1. i + 1 \in 0..(m + 1) /\ j + 1 \in 0..(m + 1) /\ i + 1 <= j + 1
    BY <1>3
  <2>2. ends[i + 1] <= ends[j + 1]
    BY <1>6, <2>1
  <2> QED BY <1>3, <1>8, <2>2
<1>12. ASSUME NEW i \in 1..m
       PROVE  /\ ends2[i] = ends2[i - 1] + 1 + gs[i].size
              /\ \A k \in 1..(1 + gs[i].size) : t[ends2[i - 1] + k] = Byte(gs[i], k, masks)
  <2>1. /\ i + 1 \in 1..(m + 1) /\ gs[i] = fs[i + 1] /\ fs[i + 1].size \in Nat
        /\ ends2[i] = ends[i + 1] - n /\ ends2[i - 1] = ends[i] - n
        /\ ends[i] \in n..Len(s) /\ ends[i + 1] \in n..Len(s)
    <3>1. i \in 0..m /\ i - 1 \in 0..m /\ (i - 1) + 1 = i /\ i + 1 \in 1..(m + 1)
      BY <1>3
    <3>2. /\ ends2[i - 1] = ends[(i - 1) + 1] - n /\ ends[(i - 1) + 1] \in n..Len(s)
          /\ ends2[i] = ends[i + 1] - n /\ ends[i + 1] \in n..Len(s)
      BY <1>8, <3>1
    <3> QED BY <1>3, <1>4, <3>1, <3>2
  <2>2. ends[i + 1] = ends[i] + 1 + fs[i + 1].size
    <3>1. (i + 1) - 1 = i
      BY <1>3
    <3>2. ends[i + 1] = ends[(i + 1) - 1] + 1 + fs[i + 1].size
      BY <1>6, <2>1
    <3> QED BY <3>1, <3>2
  <2>3. ASSUME NEW k \in 1..(1 + fs[i + 1].size)
        PROVE  t[ends2[i - 1] + k] = Byte(fs[i + 1], k, masks)
    <3>1. ends2[i - 1] + k \in 1..Len(t) /\ n + (ends2[i - 1] + k) = ends[i] + k
      <4> DEFINE a == ends[i]
                 z == fs[i + 1].size
                 b == ends2[i - 1]
      <4>1. /\ b = a - n /\ a \in Nat /\ n \in Nat /\ n <= a /\ z \in Nat /\ Len(s) \in Nat
            /\ a + 1 + z <= Len(s) /\ k \in 1..(1 + z) /\ Len(t) = Len(s) - n
        <5>1. a \in n..Len(s) /\ z \in Nat /\ b = a - n
          BY <2>1
        <5>2. a + 1 + z \in n..Len(s)
          BY <2>1, <2>2
        <5> HIDE DEF a, b, z
        <5>3. n \in Nat /\ Len(s) \in Nat /\ Len(t) = Len(s) - n
          BY <1>3, <1>5
        <5>4. k \in 1..(1 + z)
          BY DEF z
        <5> QED BY <5>1, <5>2, <5>3, <5>4
      <4> HIDE DEF a, b, z
      <4>2. b + k \in 1..Len(t) /\ n + (b + k) = a + k
        BY <4>1
      <4> QED BY <4>2 DEF a, b
    <3>2. t[ends2[i - 1] + k] = s[ends[i] + k]
      BY <1>5, <3>1
    <3>3. s[ends[(i + 1) - 1] + k] = Byte(fs[i + 1], k, masks)
      BY <1>6, <2>1
    <3>4. (i + 1) - 1 = i
      BY <1>3
    <3> QED BY <3>2, <3>3, <3>4
  <2>4. ends2[i] = ends2[i - 1] + 1 + fs[i + 1].size
    <3> DEFINE a == ends[i]
               c == ends[i + 1]
               z == fs[i + 1].size
    <3>1. a \in n..Len(s) /\ c \in n..Len(s) /\ z \in Nat /\ c = a + 1 + z
      BY <2>1, <2>2
    <3>2. ends2[i] = c - n /\ ends2[i - 1] = a - n
      BY <2>1
    <3> HIDE DEF a, c, z
    <3>3. c - n = a - n + 1 + z
      BY <1>3, <3>1
    <3> QED BY <3>2, <3>3 DEF z
  <2> QED BY <2>1, <2>3, <2>4
<1>13. CutAt(t, gs, masks, ends2)
  BY <1>4, <1>9, <1>10, <1>11, <1>12 DEF CutAt
<1> QED BY <1>13 DEF Cut, gs

\* What the peer reads of the first bytes are the first frames, and what is left is
\* the beginning of the others.
LEMMA ReadsFrames ==
  ASSUME NEW u \in Seq(ByteType)
  PROVE  \A s \in Seq(ByteType) : \A fs \in Seq(Frames) :
           Cut(s \o u, fs, TRUE) =>
             \E gs, hs \in Seq(Frames) :
               /\ fs = gs \o hs /\ PeerReads(s).frames = gs
               /\ PeerReads(s).rest \in Seq(ByteType) /\ Cut(PeerReads(s).rest \o u, hs, TRUE)
<1> DEFINE Good(s, fs) ==
             \E gs, hs \in Seq(Frames) :
               /\ fs = gs \o hs /\ PeerReads(s).frames = gs
               /\ PeerReads(s).rest \in Seq(ByteType) /\ Cut(PeerReads(s).rest \o u, hs, TRUE)
           P == {s \in Seq(ByteType) :
                   \A fs \in Seq(Frames) : Cut(s \o u, fs, TRUE) => Good(s, fs)}
<1>1. ASSUME NEW s \in Seq(ByteType), \A t \in Seq(ByteType) : Len(t) < Len(s) => t \in P
      PROVE  s \in P
  <2> SUFFICES ASSUME NEW fs \in Seq(Frames), Cut(s \o u, fs, TRUE) PROVE Good(s, fs)
    OBVIOUS
  <2>1. CASE Partial(s)
    <3>1. PeerReads(s) = [frames |-> <<>>, rest |-> s]
      BY <2>1, PeerReadsUnfolds
    <3>2. fs = <<>> \o fs /\ <<>> \in Seq(Frames)
      OBVIOUS
    <3>3. PeerReads(s).frames = <<>> /\ PeerReads(s).rest = s
      BY <3>1
    <3> WITNESS <<>> \in Seq(Frames), fs \in Seq(Frames)
    <3> QED BY <3>2, <3>3
  <2>2. CASE ~Partial(s)
    <3> DEFINE f == Head(fs)
               n == 1 + Head(s).frame.size
               w == s \o u
               t == Rest(s)
    <3>1. /\ n \in 1..Len(s) /\ t \in Seq(ByteType) /\ Len(t) = Len(s) - n
          /\ \A i \in 1..(Len(s) - n) : t[i] = s[n + i]
      <4>1. n \in 1..Len(s) /\ n \in 0..Len(s)
        BY <2>2, FrontFrame
      <4> HIDE DEF n
      <4>2. t = Without(s, n)
        BY DEF Rest, n
      <4> HIDE DEF t
      <4> QED BY <4>1, <4>2, WithoutSome
    <3>2. /\ w \in Seq(ByteType) /\ w # <<>> /\ Len(w) = Len(s) + Len(u) /\ Head(w) = Head(s)
          /\ \A i \in 1..Len(s) : w[i] = s[i]
          /\ \A i \in 1..Len(u) : w[Len(s) + i] = u[i]
          /\ Len(s) \in Nat /\ Len(u) \in Nat
      <4>1. Len(s) \in Nat /\ Len(u) \in Nat /\ Len(s) # 0
        BY <3>1
      <4>2. /\ w \in Seq(ByteType) /\ Len(w) = Len(s) + Len(u)
            /\ \A i \in 1..Len(s) : w[i] = s[i]
            /\ \A i \in 1..Len(u) : w[Len(s) + i] = u[i]
        BY Joined
      <4> HIDE DEF w
      <4> QED BY <4>1, <4>2
    <3>3. /\ fs # <<>> /\ Head(s).frame = f /\ n = 1 + f.size
          /\ \A k \in 1..n : s[k] = Byte(f, k, TRUE)
      <4> HIDE DEF w
      <4>1. /\ fs # <<>> /\ Head(w).frame = f
            /\ \A k \in 1..(1 + f.size) : w[k] = Byte(f, k, TRUE)
        BY <3>2, CutHas DEF w
      <4>2. n = 1 + f.size
        BY <3>2, <4>1
      <4>3. \A k \in 1..n : k \in 1..Len(s)
        BY <3>1, <3>2
      <4> QED BY <3>2, <4>1, <4>2, <4>3
    <3>4. ReadAs(s) = f
      <4>1. \A k \in 1..n : Byte(f, k, TRUE) = [frame |-> f, at |-> k, masked |-> k > 1]
        BY DEF Byte
      <4> HIDE DEF n, f
      <4> QED BY <3>3, <4>1 DEF ReadAs, n
    <3>5. Cut(t \o u, Tail(fs), TRUE)
      <4> DEFINE v == t \o u
      <4>1. /\ v \in Seq(ByteType) /\ Len(v) = Len(w) - n
            /\ \A i \in 1..Len(v) : v[i] = w[n + i]
        <5>1. n \in 0..Len(s) /\ t = Without(s, n)
          BY <3>1, <3>2 DEF Rest
        <5> HIDE DEF n, t
        <5>2. v = Without(s, n) \o u
          BY <5>1
        <5> HIDE DEF v, w
        <5>3. v \in Seq(ByteType) /\ Len(v) = Len(w) - n
          BY <5>1, <5>2, FrontOfBoth DEF w
        <5>4. \A i \in 1..Len(v) : v[i] = w[n + i]
          BY <5>1, <5>2, FrontOfBoth DEF w
        <5> QED BY <5>3, <5>4
      <4>2. Cut(w, fs, TRUE) /\ n = 1 + Head(fs).size
        BY <3>3
      <4> HIDE DEF v, w, t, n
      <4>3. Cut(v, Tail(fs), TRUE)
        BY <3>2, <4>1, <4>2, CutTakes
      <4> QED BY <4>3 DEF v
    <3>6. t \in P /\ Tail(fs) \in Seq(Frames) /\ f \in Frames /\ fs = <<f>> \o Tail(fs)
      <4>1. Len(t) < Len(s)
        BY <3>1, <3>2
      <4>2. t \in P
        BY <1>1, <3>1, <4>1
      <4>3. f \in Frames /\ Tail(fs) \in Seq(Frames) /\ fs = <<f>> \o Tail(fs)
        BY <3>3, HeadBack
      <4> QED BY <4>2, <4>3
    <3> HIDE DEF f, n, w, t
    <3>7. PICK gs \in Seq(Frames), hs \in Seq(Frames) :
            /\ Tail(fs) = gs \o hs /\ PeerReads(t).frames = gs
            /\ PeerReads(t).rest \in Seq(ByteType) /\ Cut(PeerReads(t).rest \o u, hs, TRUE)
      BY <3>5, <3>6
    <3>8. PeerReads(s) = [frames |-> <<f>> \o gs, rest |-> PeerReads(t).rest]
      BY <2>2, <3>4, <3>7, PeerReadsUnfolds DEF t
    <3>9. <<f>> \o gs \in Seq(Frames) /\ fs = (<<f>> \o gs) \o hs
      <4>1. fs = <<f>> \o (gs \o hs)
        BY <3>6, <3>7
      <4> QED BY <3>6, <4>1, Regrouped
    <3>10. PeerReads(s).frames = <<f>> \o gs /\ PeerReads(s).rest = PeerReads(t).rest
      BY <3>8
    <3> WITNESS <<f>> \o gs \in Seq(Frames), hs \in Seq(Frames)
    <3> QED BY <3>7, <3>9, <3>10
  <2> QED BY <2>1, <2>2
<1> HIDE DEF P, Good
<1>2. Seq(ByteType) \subseteq P
  BY <1>1, ShortFirst
<1> QED BY <1>2 DEF P, Good

\* The bytes w are those of the frame f.
BytesOf(w, f, masks) ==
  /\ w \in Seq(ByteType) /\ Len(w) = 1 + f.size
  /\ \A k \in 1..(1 + f.size) : w[k] = Byte(f, k, masks)

\* The same of bytes w put behind s.
LEMMA CutJoins ==
  ASSUME NEW masks, NEW s \in Seq(ByteType), NEW fs \in Seq(Frames), Cut(s, fs, masks),
         NEW f \in Frames, NEW w, BytesOf(w, f, masks)
  PROVE  Cut(s \o w, Append(fs, f), masks)
<1> USE DEF BytesOf
<1> DEFINE t == s \o w
<1>1. /\ t \in Seq(ByteType) /\ Len(t) = Len(s) + Len(w)
      /\ \A i \in 1..Len(s) : t[i] = s[i]
      /\ \A i \in 1..Len(w) : t[Len(s) + i] = w[i]
  BY Joined
<1>2. f.size \in {0, 1} /\ Len(s) \in Nat
  BY DEF Frames
<1> HIDE DEF t
<1>3. Len(t) = Len(s) + 1 + f.size
  BY <1>1, <1>2
<1>4. Cut(t, Append(fs, f), masks)
  BY <1>1, <1>3, CutAdds
<1> QED BY <1>4 DEF t

\* Putting together is associative.
LEMMA Regroup ==
  /\ \A s, u, v \in Seq(ByteType) : s \o (u \o v) = (s \o u) \o v
  /\ \A s, u, v \in Seq(Frames) : s \o (u \o v) = (s \o u) \o v
<1>1. \A s, u, v \in Seq(ByteType) : s \o (u \o v) = (s \o u) \o v
  OBVIOUS
<1>2. \A s, u, v \in Seq(Frames) : s \o (u \o v) = (s \o u) \o v
  OBVIOUS
<1> QED BY <1>1, <1>2

\* Appending to two sequences of frames is appending to the second.
LEMMA AppendJoins ==
  \A s, u \in Seq(Frames), x \in Frames : Append(s \o u, x) = s \o Append(u, x)
  OBVIOUS

\* The first of two sequences is the beginning of both together.
LEMMA PrefixOf ==
  ASSUME NEW T, NEW s \in Seq(T), NEW u \in Seq(T)
  PROVE  s = SubSeq(s \o u, 1, Len(s)) /\ s \o u = SubSeq(s \o u, 1, Len(s) + Len(u))
         /\ Len(s \o u) = Len(s) + Len(u)
  OBVIOUS

\* A sequence is its first n elements and the others.
LEMMA FirstAndOthers ==
  ASSUME NEW T, NEW s \in Seq(T), NEW n \in 0..Len(s)
  PROVE  s = First(s, n) \o Without(s, n)
<1> DEFINE a == First(s, n)
           b == Without(s, n)
           w == a \o b
<1>1. Len(s) \in Nat /\ n \in Nat /\ n <= Len(s)
  OBVIOUS
<1>2. a \in Seq(T) /\ Len(a) = n /\ \A i \in 1..n : a[i] = s[i]
  BY FirstSome
<1>3. b \in Seq(T) /\ Len(b) = Len(s) - n /\ \A i \in 1..(Len(s) - n) : b[i] = s[n + i]
  BY WithoutSome
<1> HIDE DEF a, b
<1>4. /\ w \in Seq(T) /\ Len(w) = Len(a) + Len(b)
      /\ \A i \in 1..Len(a) : w[i] = a[i]
      /\ \A i \in 1..Len(b) : w[Len(a) + i] = b[i]
  BY <1>2, <1>3, Joined
<1> HIDE DEF w
<1>5. ASSUME NEW i \in 1..Len(s) PROVE w[i] = s[i]
  <2>1. CASE i \in 1..n
    BY <1>2, <1>4, <2>1
  <2>2. CASE i \notin 1..n
    <3>1. i - n \in 1..(Len(s) - n) /\ n + (i - n) = i
      BY <1>1, <2>2
    <3>2. b[i - n] = s[n + (i - n)] /\ w[Len(a) + (i - n)] = b[i - n]
      BY <1>3, <1>4, <3>1
    <3> QED BY <1>2, <3>1, <3>2
  <2> QED BY <2>1, <2>2
<1>6. w = s
  <2>1. Len(w) = Len(s)
    BY <1>1, <1>2, <1>3, <1>4
  <2> QED BY <1>4, <1>5, <2>1, SeqEqual
<1> QED BY <1>6 DEF w, a, b

-----------------------------------------------------------------------------
(* Towards the peer.                                                       *)

Buffers == txbuf \in Seq(ByteType) /\ toPeer \in Seq(ByteType) /\ peerGot \in Seq(Frames)

\* The peer has got the first frames of those accepted, and what is on its way
\* and in txbuf is cut into the others, each masked.
Down ==
  \E fs \in Seq(Frames) : accepted = peerGot \o fs /\ Cut(toPeer \o txbuf, fs, TRUE)

DownStep == Buffers' /\ Down' /\ [ToPeer!Next]_<<accepted, peerGot>>

\* Bytes put into txbuf.
LEMMA Puts ==
  ASSUME Typed, Buffers, Down, NEW f \in OurFrames,
         NEW w, BytesOf(w, f, TRUE),
         txbuf' = txbuf \o w, accepted' = Append(accepted, f), UNCHANGED <<toPeer, peerGot>>
  PROVE  DownStep
<1>1. PICK fs \in Seq(Frames) : accepted = peerGot \o fs /\ Cut(toPeer \o txbuf, fs, TRUE)
  BY DEF Down
<1>2. f \in Frames
  BY DEF OurFrames
<1>0. /\ peerGot \in Seq(Frames) /\ toPeer \in Seq(ByteType) /\ txbuf \in Seq(ByteType)
      /\ w \in Seq(ByteType)
  BY DEF Buffers, BytesOf
<1>3. accepted' = peerGot \o Append(fs, f) /\ Append(fs, f) \in Seq(Frames)
  <2>1. Append(peerGot \o fs, f) = peerGot \o Append(fs, f)
    BY <1>0, <1>2, AppendJoins
  <2>2. Append(fs, f) \in Seq(Frames)
    BY <1>2
  <2> QED BY <1>1, <2>1, <2>2
<1>4. toPeer \o txbuf \in Seq(ByteType) /\ toPeer \o (txbuf \o w) = (toPeer \o txbuf) \o w
  <2>1. toPeer \o txbuf \in Seq(ByteType)
    BY <1>0, Joined
  <2>2. toPeer \o (txbuf \o w) = (toPeer \o txbuf) \o w
    BY <1>0, Regroup
  <2> QED BY <2>1, <2>2
<1>5. Cut((toPeer \o txbuf) \o w, Append(fs, f), TRUE)
  BY <1>1, <1>2, <1>4, CutJoins
<1>6. Down'
  BY <1>3, <1>4, <1>5 DEF Down
<1>7. Buffers'
  BY <1>0, Joined DEF Buffers
<1>8. ToPeer!Send(f)
  BY DEF ToPeer!Send
<1> QED BY <1>6, <1>7, <1>8 DEF DownStep, ToPeer!Next

\* The bytes of a frame as the socket takes them.
Masked(f) == [k \in 1..(1 + f.size) |-> Byte(f, k, TRUE)]

\* The masked bytes of a frame are its bytes.
LEMMA MaskedType == ASSUME NEW f \in Frames PROVE BytesOf(Masked(f), f, TRUE)
<1>1. f.size \in {0, 1} /\ 1 + f.size \in Nat
  BY DEF Frames
<1>2. \A k \in 1..(1 + f.size) : Byte(f, k, TRUE) \in ByteType
  BY <1>1 DEF Byte, ByteType
<1>3. Masked(f) \in Seq(ByteType)
  <2>1. Masked(f) \in [1..(1 + f.size) -> ByteType]
    BY <1>2 DEF Masked
  <2> QED BY <1>1, <2>1
<1>4. Len(Masked(f)) = 1 + f.size
  BY <1>1 DEF Masked
<1> QED BY <1>3, <1>4 DEF BytesOf, Masked

\* The bytes of a frame at the end, masked, are its bytes in their masked form.
LEMMA MaskEnd ==
  ASSUME NEW s \in Seq(ByteType), NEW f \in Frames
  PROVE  Mask(s \o Bytes(f), f) = s \o Masked(f)
<1> DEFINE b == Bytes(f)
           w == Masked(f)
           t == s \o b
           m == Mask(t, f)
           v == s \o w
           n == Len(s)
<1>1. f.size \in {0, 1} /\ n \in Nat
  BY DEF Frames
<1>2. /\ b \in Seq(ByteType) /\ Len(b) = 1 + f.size
      /\ \A k \in 1..(1 + f.size) : b[k] = [frame |-> f, at |-> k, masked |-> FALSE]
  BY <1>1, BytesType DEF Bytes
<1>3. /\ w \in Seq(ByteType) /\ Len(w) = 1 + f.size
      /\ \A k \in 1..(1 + f.size) : w[k] = Byte(f, k, TRUE)
  BY MaskedType DEF BytesOf
<1> HIDE DEF b, w
<1>4. /\ t \in Seq(ByteType) /\ Len(t) = n + Len(b)
      /\ \A i \in 1..n : t[i] = s[i]
      /\ \A i \in 1..Len(b) : t[n + i] = b[i]
  BY <1>2, Joined
<1>5. /\ v \in Seq(ByteType) /\ Len(v) = n + Len(w)
      /\ \A i \in 1..n : v[i] = s[i]
      /\ \A i \in 1..Len(w) : v[n + i] = w[i]
  BY <1>3, Joined
<1> HIDE DEF t, v, n
<1>6. ASSUME NEW i \in 1..Len(t)
      PROVE  (IF i > Len(t) - f.size THEN Flip(t[i]) ELSE t[i]) = v[i]
  <2>1. CASE i \in 1..n
    BY <1>1, <1>2, <1>4, <1>5, <2>1
  <2>2. CASE i = n + 1
    <3>1. t[i] = b[1] /\ v[i] = w[1] /\ ~(i > Len(t) - f.size)
      BY <1>1, <1>2, <1>3, <1>4, <1>5, <2>2
    <3>2. b[1] = [frame |-> f, at |-> 1, masked |-> FALSE] /\ w[1] = Byte(f, 1, TRUE)
      <4>1. 1 \in 1..(1 + f.size)
        BY <1>1
      <4> QED BY <1>2, <1>3, <4>1
    <3>3. (TRUE /\ 1 > 1) = FALSE
      OBVIOUS
    <3>4. b[1] = w[1]
      BY <3>2, <3>3 DEF Byte
    <3> QED BY <3>1, <3>4
  <2>3. CASE i = n + 2 /\ f.size = 1
    <3>1. t[i] = b[2] /\ v[i] = w[2] /\ i > Len(t) - f.size
      BY <1>1, <1>2, <1>3, <1>4, <1>5, <2>3
    <3>2. Flip(b[2]) = w[2]
      BY <1>1, <1>2, <1>3, <2>3 DEF Byte, Flip
    <3> QED BY <3>1, <3>2
  <2>4. i \in 1..n \/ i = n + 1 \/ (i = n + 2 /\ f.size = 1)
    BY <1>1, <1>2, <1>4
  <2> QED BY <2>1, <2>2, <2>3, <2>4
<1>7. m = v
  <2>1. DOMAIN t = 1..Len(t) /\ Len(v) = Len(t)
    BY <1>2, <1>3, <1>4, <1>5
  <2>2. m = [i \in 1..Len(t) |-> v[i]]
    BY <1>6, <2>1 DEF Mask
  <2>3. v = [i \in 1..Len(v) |-> v[i]]
    BY <1>5
  <2> QED BY <2>1, <2>2, <2>3
<1> QED BY <1>7 DEF t, v, b, w

\* sendData is a step of the channel to the peer: the frame is put in, or dropped.
LEMMA SendDataDown ==
  ASSUME Typed, Buffers, Down, NEW f \in OurFrames, SendData(f), UNCHANGED <<toPeer, peerGot>>
  PROVE  DownStep
<1>1. CASE readyState \in {"CLOSING", "CLOSED"}
  BY <1>1 DEF SendData, DownStep, Buffers, Down
<1>2. CASE readyState \notin {"CLOSING", "CLOSED"}
  <2>1. txbuf' = Mask(txbuf \o Bytes(f), f) /\ accepted' = Append(accepted, f)
    BY <1>2 DEF SendData
  <2>2. f \in Frames /\ txbuf \in Seq(ByteType)
    BY DEF OurFrames, Buffers
  <2>3. Mask(txbuf \o Bytes(f), f) = txbuf \o Masked(f) /\ BytesOf(Masked(f), f, TRUE)
    BY <2>2, MaskEnd, MaskedType
  <2> QED BY <2>1, <2>3, Puts
<1> QED BY <1>1, <1>2

\* So is close().
LEMMA DoCloseDown ==
  ASSUME Typed, Buffers, Down, DoClose, UNCHANGED <<toPeer, peerGot>>
  PROVE  DownStep
<1>1. CASE readyState \in {"CLOSING", "CLOSED"}
  BY <1>1 DEF DoClose, DownStep, Buffers, Down
<1>2. CASE readyState \notin {"CLOSING", "CLOSED"}
  <2> DEFINE w == Bytes(CloseFrame)
  <2>1. txbuf' = txbuf \o w /\ accepted' = Append(accepted, CloseFrame)
    BY <1>2 DEF DoClose
  <2>2. NoValue \in Values
    BY BoundsAssumption DEF NoValue, Values
  <2>3. CloseFrame \in Frames /\ CloseFrame \in OurFrames /\ CloseFrame.size = 0
    BY <2>2 DEF CloseFrame, Frame, Frames, OurFrames
  <2>4. BytesOf(w, CloseFrame, TRUE)
    <3>1. w \in Seq(ByteType)
      BY <2>3, BytesType
    <3>2. w = [k \in 1..1 |-> [frame |-> CloseFrame, at |-> k, masked |-> FALSE]]
      BY <2>3 DEF Bytes
    <3>3. \A k \in 1..1 : [frame |-> CloseFrame, at |-> k, masked |-> FALSE] = Byte(CloseFrame, k, TRUE)
      <4>1. \A k \in 1..1 : (TRUE /\ k > 1) = FALSE
        OBVIOUS
      <4> QED BY <4>1 DEF Byte
    <3>4. Len(w) = 1 /\ \A k \in 1..1 : w[k] = [frame |-> CloseFrame, at |-> k, masked |-> FALSE]
      <4> HIDE DEF w
      <4> QED BY <3>2
    <3> HIDE DEF w
    <3>5. 1 + CloseFrame.size = 1
      BY <2>3
    <3>6. \A k \in 1..1 : w[k] = Byte(CloseFrame, k, TRUE)
      BY <3>3, <3>4
    <3> QED BY <3>1, <3>4, <3>5, <3>6 DEF BytesOf
  <2> HIDE DEF w
  <2> QED BY <2>1, <2>3, <2>4, Puts
<1> QED BY <1>1, <1>2

\* So is sending part of txbuf: the peer gets the frames that are complete, if any.
LEMMA MovesDown ==
  ASSUME Typed, Buffers, Down, NEW k \in Arrived, NEW j \in 0..Len(txbuf), Moves(k, j),
         UNCHANGED accepted
  PROVE  DownStep
<1> DEFINE s == toPeer \o First(txbuf, j)
           u == Without(txbuf, j)
<1>1. PICK fs \in Seq(Frames) : accepted = peerGot \o fs /\ Cut(toPeer \o txbuf, fs, TRUE)
  BY DEF Down
<1>2. First(txbuf, j) \in Seq(ByteType) /\ u \in Seq(ByteType) /\ txbuf = First(txbuf, j) \o u
      /\ toPeer \in Seq(ByteType)
  BY FirstSome, WithoutSome, FirstAndOthers DEF Buffers
<1>3. s \in Seq(ByteType) /\ toPeer \o txbuf = s \o u
  <2>1. s \in Seq(ByteType)
    BY <1>2, Joined
  <2>2. toPeer \o (First(txbuf, j) \o u) = s \o u
    <3> HIDE DEF u
    <3> QED BY <1>2, Regroup
  <2> QED BY <1>2, <2>1, <2>2
<1>4. /\ txbuf' = u /\ toPeer' = PeerReads(s).rest /\ peerGot' = peerGot \o PeerReads(s).frames
  BY DEF Moves
<1> HIDE DEF s, u
<1>5. PICK gs \in Seq(Frames), hs \in Seq(Frames) :
        /\ fs = gs \o hs /\ PeerReads(s).frames = gs
        /\ PeerReads(s).rest \in Seq(ByteType) /\ Cut(PeerReads(s).rest \o u, hs, TRUE)
  BY <1>1, <1>2, <1>3, ReadsFrames
<1>6. accepted' = peerGot' \o hs /\ peerGot' \in Seq(Frames) /\ peerGot' = peerGot \o gs
  <2>1. peerGot' = peerGot \o gs /\ accepted' = peerGot \o (gs \o hs) /\ peerGot \in Seq(Frames)
    BY <1>1, <1>4, <1>5 DEF Buffers
  <2>2. peerGot \o (gs \o hs) = (peerGot \o gs) \o hs /\ peerGot \o gs \in Seq(Frames)
    BY <2>1, Regroup, Joined
  <2> QED BY <2>1, <2>2
<1>7. Buffers' /\ Down'
  BY <1>2, <1>4, <1>5, <1>6 DEF Buffers, Down
<1>8. [ToPeer!Next]_<<accepted, peerGot>>
  <2>1. CASE gs = <<>>
    <3>1. peerGot' = peerGot
      BY <1>6, <2>1 DEF Buffers
    <3> QED BY <3>1
  <2>2. CASE gs # <<>>
    <3> DEFINE n == Len(peerGot) + Len(gs)
    <3>1. peerGot' = SubSeq(accepted, 1, n) /\ n <= Len(accepted) /\ n \in Nat
      <4>1. peerGot' \in Seq(Frames) /\ hs \in Seq(Frames) /\ accepted = peerGot' \o hs
        BY <1>6
      <4>2. peerGot' = SubSeq(accepted, 1, Len(peerGot')) /\ Len(accepted) = Len(peerGot') + Len(hs)
        BY <4>1, PrefixOf
      <4>3. Len(peerGot') = n /\ Len(hs) \in Nat /\ n \in Nat
        BY <1>6, Joined DEF Buffers
      <4> QED BY <4>2, <4>3
    <3>2. n >= Len(peerGot) + 1 /\ Len(peerGot) \in Nat /\ Len(accepted) \in Nat
      BY <2>2 DEF Buffers, Typed
    <3> HIDE DEF n
    <3>3. n \in (Len(peerGot) + 1)..Len(accepted)
      BY <3>1, <3>2
    <3>4. ToPeer!Deliver
      BY <3>1, <3>3 DEF ToPeer!Deliver
    <3> QED BY <3>4 DEF ToPeer!Next
  <2> QED BY <2>1, <2>2
<1> QED BY <1>7, <1>8 DEF DownStep

-----------------------------------------------------------------------------
(* The order of the frames that carry a message.                           *)

IsData(f) == f.op \in {"text", "cont"}

\* The place a frame has: its message, and which of its fragments it is; and the
\* place of the one behind it.
Behind(f) == IF f.fin THEN <<f.val[1] + 1, 1>> ELSE <<f.val[1], f.val[2] + 1>>

\* The data frames of fs stand one behind the other, from the place due to the one
\* before end: i and j are neighbours, 0 is before and Len(fs) + 1 behind them all.
InTurn(fs, due, end) ==
  \A i \in 0..Len(fs) : \A j \in 1..(Len(fs) + 1) :
    /\ i < j /\ (i = 0 \/ IsData(fs[i])) /\ (j = Len(fs) + 1 \/ IsData(fs[j]))
    /\ \A h \in (i + 1)..(j - 1) : ~IsData(fs[h])
    => (IF i = 0 THEN due ELSE Behind(fs[i])) = (IF j = Len(fs) + 1 THEN end ELSE fs[j].val)

\* Without frames, what is due is what the peer sends next.
LEMMA TurnNothing == ASSUME NEW due PROVE InTurn(<<>>, due, due)
  BY DEF InTurn

\* A frame more.
LEMMA TurnAdds ==
  ASSUME NEW fs \in Seq(Frames), NEW f \in Frames, NEW due, NEW end, InTurn(fs, due, end),
         IsData(f) => f.val = end
  PROVE  InTurn(Append(fs, f), due, IF IsData(f) THEN Behind(f) ELSE end)
<1> DEFINE gs == Append(fs, f)
           m == Len(fs)
           end2 == IF IsData(f) THEN Behind(f) ELSE end
<1>1. m \in Nat /\ Len(gs) = m + 1 /\ gs[m + 1] = f /\ \A i \in 1..m : gs[i] = fs[i]
  OBVIOUS
<1>2. \A i \in 0..m : \A j \in 1..(m + 1) :
        /\ i < j /\ (i = 0 \/ IsData(fs[i])) /\ (j = m + 1 \/ IsData(fs[j]))
        /\ \A h \in (i + 1)..(j - 1) : ~IsData(fs[h])
        => (IF i = 0 THEN due ELSE Behind(fs[i])) = (IF j = m + 1 THEN end ELSE fs[j].val)
  BY DEF InTurn
<1> HIDE DEF gs, m
<1> SUFFICES ASSUME NEW i \in 0..(m + 1), NEW j \in 1..(m + 2),
                    i < j, i = 0 \/ IsData(gs[i]), j = m + 2 \/ IsData(gs[j]),
                    \A h \in (i + 1)..(j - 1) : ~IsData(gs[h])
             PROVE  (IF i = 0 THEN due ELSE Behind(gs[i])) = (IF j = m + 2 THEN end2 ELSE gs[j].val)
  <2>1. Len(gs) + 1 = m + 2
    BY <1>1
  <2> QED BY <1>1, <2>1 DEF InTurn, gs
<1> HIDE DEF end2
<1>3. CASE i = m + 1
  <2>1. j = m + 2 /\ gs[i] = f /\ IsData(f) /\ i # 0
    BY <1>1, <1>3
  <2> QED BY <2>1 DEF end2
<1>4. CASE i # m + 1
  <2>0. i \in 0..m /\ (i # 0 => gs[i] = fs[i])
    BY <1>1, <1>4
  <2>1. CASE j \in 1..m
    <3>1. /\ gs[j] = fs[j] /\ IsData(fs[j]) /\ j \in 1..(m + 1) /\ j # m + 1 /\ j # m + 2
      BY <1>1, <2>1
    <3>2. ASSUME NEW h \in (i + 1)..(j - 1) PROVE ~IsData(fs[h])
      <4>1. h \in 1..m
        BY <1>1, <2>0, <2>1
      <4> QED BY <1>1, <4>1
    <3>3. i = 0 \/ IsData(fs[i])
      BY <2>0
    <3> QED BY <1>2, <2>0, <3>1, <3>2, <3>3
  <2>2. CASE j \notin 1..m
    <3>1. ASSUME NEW h \in (i + 1)..m PROVE ~IsData(fs[h])
      <4>1. h \in (i + 1)..(j - 1) /\ h \in 1..m
        BY <1>1, <2>0, <2>2
      <4> QED BY <1>1, <4>1
    <3>2. (IF i = 0 THEN due ELSE Behind(fs[i])) = end
      <4>1. m + 1 \in 1..(m + 1) /\ i < m + 1 /\ (m + 1) - 1 = m
        BY <1>1, <2>0
      <4>2. \A h \in (i + 1)..((m + 1) - 1) : ~IsData(fs[h])
        BY <3>1, <4>1
      <4>3. i = 0 \/ IsData(fs[i])
        BY <2>0
      <4> QED BY <1>2, <2>0, <4>1, <4>2, <4>3
    <3>3. CASE j = m + 1
      <4>1. gs[j] = f /\ IsData(f) /\ j # m + 2
        BY <1>1, <3>3
      <4> QED BY <2>0, <3>2, <4>1
    <3>4. CASE j = m + 2
      <4>1. m + 1 \in (i + 1)..(j - 1)
        BY <1>1, <2>0, <3>4
      <4>2. ~IsData(f)
        BY <1>1, <4>1
      <4> QED BY <2>0, <3>2, <3>4, <4>2 DEF end2
    <3> QED BY <1>1, <2>2, <3>3, <3>4
  <2> QED BY <2>1, <2>2
<1> QED BY <1>3, <1>4

\* The first frame taken off.
LEMMA TurnTakes ==
  ASSUME NEW fs \in Seq(Frames), fs # <<>>, NEW due, NEW end, InTurn(fs, due, end)
  PROVE  /\ IsData(Head(fs)) => Head(fs).val = due
         /\ InTurn(Tail(fs), IF IsData(Head(fs)) THEN Behind(Head(fs)) ELSE due, end)
<1> DEFINE f == Head(fs)
           gs == Tail(fs)
           m == Len(fs) - 1
           due2 == IF IsData(f) THEN Behind(f) ELSE due
<1>1. /\ m \in Nat /\ Len(fs) = m + 1 /\ Len(gs) = m /\ f = fs[1]
      /\ \A i \in 1..m : gs[i] = fs[i + 1]
  OBVIOUS
<1>2. \A i \in 0..(m + 1) : \A j \in 1..(m + 2) :
        /\ i < j /\ (i = 0 \/ IsData(fs[i])) /\ (j = m + 2 \/ IsData(fs[j]))
        /\ \A h \in (i + 1)..(j - 1) : ~IsData(fs[h])
        => (IF i = 0 THEN due ELSE Behind(fs[i])) = (IF j = m + 2 THEN end ELSE fs[j].val)
  <2>1. Len(fs) = m + 1 /\ Len(fs) + 1 = m + 2
    BY <1>1
  <2> HIDE DEF m
  <2> QED BY <2>1 DEF InTurn
<1> HIDE DEF f, gs, m
<1>3. IsData(f) => f.val = due
  <2>1. 0 \in 0..(m + 1) /\ 1 \in 1..(m + 2) /\ 0 < 1 /\ 1 # m + 2 /\ \A h \in (0 + 1)..(1 - 1) : ~IsData(fs[h])
    BY <1>1
  <2> QED BY <1>1, <1>2, <2>1
<1>4. ASSUME NEW i \in 0..m, NEW j \in 1..(m + 1),
             i < j, i = 0 \/ IsData(gs[i]), j = m + 1 \/ IsData(gs[j]),
             \A h \in (i + 1)..(j - 1) : ~IsData(gs[h])
      PROVE  (IF i = 0 THEN due2 ELSE Behind(gs[i])) = (IF j = m + 1 THEN end ELSE gs[j].val)
  <2> HIDE DEF due2
  <2>1. /\ j + 1 \in 1..(m + 2) /\ (j + 1 = m + 2 <=> j = m + 1)
        /\ j # m + 1 => gs[j] = fs[j + 1]
    BY <1>1
  <2>2. j + 1 = m + 2 \/ IsData(fs[j + 1])
    BY <1>4, <2>1
  <2>3. ASSUME NEW h \in (i + 2)..j PROVE ~IsData(fs[h])
    <3>1. h - 1 \in (i + 1)..(j - 1) /\ h - 1 \in 1..m /\ (h - 1) + 1 = h
      BY <1>1
    <3>2. gs[h - 1] = fs[(h - 1) + 1]
      BY <1>1, <3>1
    <3> QED BY <1>4, <3>1, <3>2
  <2>4. CASE i # 0 \/ IsData(f)
    <3>1. /\ i + 1 \in 0..(m + 1) /\ i + 1 < j + 1 /\ i + 1 # 0 /\ j + 1 \in 1..(m + 2)
          /\ (j + 1) - 1 = j /\ (i + 1) + 1 = i + 2
      BY <1>1, <1>4
    <3>2. IsData(fs[i + 1]) /\ Behind(fs[i + 1]) = (IF i = 0 THEN due2 ELSE Behind(gs[i]))
      <4>1. CASE i = 0
        BY <1>1, <2>4, <4>1 DEF due2
      <4>2. CASE i # 0
        <5>1. gs[i] = fs[i + 1]
          BY <1>1, <4>2
        <5> QED BY <1>4, <4>2, <5>1
      <4> QED BY <4>1, <4>2
    <3>3. \A h \in ((i + 1) + 1)..((j + 1) - 1) : ~IsData(fs[h])
      BY <2>3, <3>1
    <3>4. (IF i + 1 = 0 THEN due ELSE Behind(fs[i + 1]))
            = (IF j + 1 = m + 2 THEN end ELSE fs[j + 1].val)
      BY <1>2, <2>2, <3>1, <3>2, <3>3
    <3> QED BY <2>1, <3>1, <3>2, <3>4
  <2>5. CASE i = 0 /\ ~IsData(f)
    <3>1. 0 \in 0..(m + 1) /\ 0 < j + 1 /\ j + 1 \in 1..(m + 2) /\ (j + 1) - 1 = j /\ 0 + 1 = 1
      BY <1>1
    <3>2. \A h \in (0 + 1)..((j + 1) - 1) : ~IsData(fs[h])
      <4>1. ASSUME NEW h \in 1..j PROVE ~IsData(fs[h])
        <5>1. h = 1 \/ h \in (i + 2)..j
          BY <2>5
        <5> QED BY <1>1, <2>3, <2>5, <5>1
      <4> QED BY <3>1, <4>1
    <3>3. due = (IF j + 1 = m + 2 THEN end ELSE fs[j + 1].val)
      BY <1>2, <2>2, <3>1, <3>2
    <3>4. due2 = due
      BY <2>5 DEF due2
    <3> QED BY <2>1, <2>5, <3>3, <3>4
  <2> QED BY <2>4, <2>5
<1>5. InTurn(gs, due2, end)
  <2> HIDE DEF due2
  <2> QED BY <1>1, <1>4 DEF InTurn
<1> QED BY <1>3, <1>5 DEF f, gs

-----------------------------------------------------------------------------
(* Towards the program.                                                    *)

\* The place of the frame that is handled next, and of the one the peer sends next.
Due == <<Len(delivered) + 1, Len(receivedData) + 1>>
End == <<Len(peerSent) + 1, fragments + 1>>

\* A frame that carries the end of a message carries the end of one that was sent.
Complete(f) ==
  IsData(f) => /\ f.size = 1
               /\ f.fin => /\ f.val[1] \in DOMAIN peerSent
                           /\ f.val[2] = Len(peerSent[f.val[1]])

\* What is on its way and in rxbuf is cut into frames, and those that carry
\* messages are the ones from Due to End, in turn.
Up ==
  \E fs \in Seq(Frames) :
    /\ Cut(rxbuf \o toUs, fs, FALSE) /\ InTurn(fs, Due, End)
    /\ \A i \in DOMAIN fs : Complete(fs[i])

\* The handler was given the first messages of the peer; receivedData is the
\* beginning of the next.
Handed ==
  /\ delivered \in Seq(Seq(Values)) /\ receivedData \in Seq(Values)
  /\ \A n \in DOMAIN peerSent : peerSent[n] = [i \in 1..Len(peerSent[n]) |-> <<n, i>>]
  /\ Len(delivered) <= Len(peerSent) /\ delivered = SubSeq(peerSent, 1, Len(delivered))
  /\ \A i \in DOMAIN receivedData : receivedData[i] = <<Len(delivered) + 1, i>>

UpStep == Handed' /\ Up' /\ [FromPeer!Next]_<<peerSent, delivered>>

\* Bytes only move.
LEMMA MovesUp ==
  ASSUME Handed, Up, rxbuf' \o toUs' = rxbuf \o toUs,
         UNCHANGED <<peerSent, fragments, delivered, receivedData>>
  PROVE  UpStep
<1>1. Handed'
  BY DEF Handed
<1>2. Due' = Due /\ End' = End /\ \A f : Complete(f)' <=> Complete(f)
  BY DEF Due, End, Complete
<1>3. Up'
  BY <1>2 DEF Up, Complete
<1> QED BY <1>1, <1>3 DEF UpStep

\* Receiving only moves bytes.
LEMMA PollUp ==
  ASSUME Typed, Handed, Up, NEW k \in Arrived, NEW j \in 0..Len(txbuf), Moves(k, j),
         UNCHANGED <<peerSent, fragments, delivered, receivedData>>
  PROVE  UpStep
<1>1. k \in 0..Len(toUs) /\ toUs \in Seq(ByteType) /\ rxbuf \in Seq(ByteType)
  BY DEF Arrived, Typed
<1> DEFINE a == First(toUs, k)
           b == Without(toUs, k)
<1>2. a \in Seq(ByteType) /\ b \in Seq(ByteType) /\ toUs = a \o b
  BY <1>1, FirstSome, WithoutSome, FirstAndOthers
<1>3. rxbuf' = rxbuf \o a /\ toUs' = b
  BY DEF Moves
<1> HIDE DEF a, b
<1>4. rxbuf \o (a \o b) = (rxbuf \o a) \o b
  <2>1. rxbuf \in Seq(ByteType) /\ a \in Seq(ByteType) /\ b \in Seq(ByteType)
    BY <1>1, <1>2
  <2> QED BY <2>1, Regroup
<1>5. rxbuf' \o toUs' = rxbuf \o toUs
  BY <1>2, <1>3, <1>4
<1> QED BY <1>5, MovesUp

\* The bytes of a frame are behind those on their way.
LEMMA SendsCut ==
  ASSUME Typed, NEW f \in Frames, PeerSends(f), UNCHANGED rxbuf,
         NEW fs \in Seq(Frames), Cut(rxbuf \o toUs, fs, FALSE)
  PROVE  Cut(rxbuf' \o toUs', Append(fs, f), FALSE)
<1> DEFINE w == Bytes(f)
<1>1. BytesOf(w, f, FALSE)
  <2>1. w \in Seq(ByteType)
    BY BytesType
  <2>2. f.size \in {0, 1} /\ 1 + f.size \in Nat
    BY DEF Frames
  <2>3. \A k : Byte(f, k, FALSE) = [frame |-> f, at |-> k, masked |-> FALSE]
    <3>1. \A k : (FALSE /\ k > 1) = FALSE
      OBVIOUS
    <3> QED BY <3>1 DEF Byte
  <2>4. w = [k \in 1..(1 + f.size) |-> Byte(f, k, FALSE)]
    BY <2>3 DEF Bytes
  <2>5. Len(w) = 1 + f.size
    <3> HIDE DEF w
    <3> QED BY <2>2, <2>4
  <2>6. \A k \in 1..(1 + f.size) : w[k] = Byte(f, k, FALSE)
    <3> HIDE DEF w
    <3> QED BY <2>4
  <2> QED BY <2>1, <2>5, <2>6 DEF BytesOf
<1>2. toUs' = toUs \o w
  BY DEF PeerSends
<1> HIDE DEF w
<1>3. rxbuf \in Seq(ByteType) /\ toUs \in Seq(ByteType) /\ w \in Seq(ByteType)
  BY <1>1 DEF Typed, BytesOf
<1>4. rxbuf \o (toUs \o w) = (rxbuf \o toUs) \o w
  BY <1>3, Regroup
<1>5. rxbuf \o toUs \in Seq(ByteType)
  BY <1>3, Joined
<1>6. Cut((rxbuf \o toUs) \o w, Append(fs, f), FALSE)
  BY <1>1, <1>5, CutJoins
<1> QED BY <1>2, <1>4, <1>6

\* The peer sends a frame that carries nothing of a message.
LEMMA OtherUp ==
  ASSUME Typed, Handed, Up, NEW f \in Frames, ~IsData(f), PeerSends(f),
         UNCHANGED <<rxbuf, peerSent, fragments, delivered, receivedData>>
  PROVE  UpStep
<1>1. PICK fs \in Seq(Frames) :
        /\ Cut(rxbuf \o toUs, fs, FALSE) /\ InTurn(fs, Due, End)
        /\ \A i \in DOMAIN fs : Complete(fs[i])
  BY DEF Up
<1> DEFINE gs == Append(fs, f)
<1>2. gs \in Seq(Frames) /\ DOMAIN gs = 1..(Len(fs) + 1) /\ gs[Len(fs) + 1] = f
      /\ DOMAIN fs = 1..Len(fs) /\ \A i \in 1..Len(fs) : gs[i] = fs[i]
  OBVIOUS
<1>3. Cut(rxbuf' \o toUs', gs, FALSE)
  BY <1>1, SendsCut
<1>4. InTurn(gs, Due, End)
  BY <1>1, TurnAdds
<1> HIDE DEF gs
<1>5. Due' = Due /\ End' = End
  BY DEF Due, End
<1>6. \A i \in DOMAIN gs : Complete(gs[i])
  <2>1. Complete(f)
    BY DEF Complete
  <2>2. \A i \in DOMAIN gs : i \in DOMAIN fs \/ i = Len(fs) + 1
    BY <1>2
  <2> QED BY <1>1, <1>2, <2>1, <2>2
<1>7. Up'
  BY <1>2, <1>3, <1>4, <1>5, <1>6 DEF Up, Complete
<1>8. Handed'
  BY DEF Handed
<1> QED BY <1>7, <1>8 DEF UpStep

\* The peer sends the next frame of a message.
LEMMA FragmentUp ==
  ASSUME Typed, Handed, Up, NEW fin \in BOOLEAN, PeerFragment(fin)
  PROVE  UpStep
<1> USE BoundsAssumption
<1> DEFINE n == Len(peerSent) + 1
           k == fragments + 1
           message == [i \in 1..k |-> <<n, i>>]
<1>0. PICK f : f = Frame(IF fragments = 0 THEN "text" ELSE "cont", fin, 1, <<n, k>>)
  OBVIOUS
<1>1. /\ PeerSends(f) /\ UNCHANGED <<rxbuf, delivered, receivedData>>
      /\ fragments' = IF fin THEN 0 ELSE k
      /\ peerSent' = IF fin THEN Append(peerSent, message) ELSE peerSent
  BY <1>0 DEF PeerFragment, bufVars, downVars
<1>2. n \in 1..MaxUp /\ k \in 1..MaxFragments /\ peerSent \in Seq(Seq(Values))
  BY DEF PeerFragment, Typed
<1>3. <<n, k>> \in Values /\ \A i \in 1..k : <<n, i>> \in Values
  BY <1>2 DEF Values
<1>4. f \in Frames /\ IsData(f) /\ f.size = 1 /\ f.val = <<n, k>> /\ f.fin = fin
  BY <1>0, <1>3 DEF Frame, Frames, IsData
<1>5. message \in Seq(Values) /\ Len(message) = k
  BY <1>2, <1>3
<1>6. PICK fs \in Seq(Frames) :
        /\ Cut(rxbuf \o toUs, fs, FALSE) /\ InTurn(fs, Due, End)
        /\ \A i \in DOMAIN fs : Complete(fs[i])
  BY DEF Up
<1> DEFINE gs == Append(fs, f)
<1>7. gs \in Seq(Frames) /\ DOMAIN gs = 1..(Len(fs) + 1) /\ gs[Len(fs) + 1] = f
      /\ DOMAIN fs = 1..Len(fs) /\ \A i \in 1..Len(fs) : gs[i] = fs[i]
  BY <1>4
<1>8. Cut(rxbuf' \o toUs', gs, FALSE)
  BY <1>1, <1>4, <1>6, SendsCut
<1>9. InTurn(gs, Due, Behind(f))
  <2>1. f.val = End
    BY <1>4 DEF End
  <2> QED BY <1>4, <1>6, <2>1, TurnAdds
<1> HIDE DEF gs
<1>10. /\ Len(peerSent) <= Len(peerSent') /\ DOMAIN peerSent \subseteq DOMAIN peerSent'
       /\ \A i \in DOMAIN peerSent : peerSent'[i] = peerSent[i]
       /\ fin => Len(peerSent') = n /\ peerSent'[n] = message /\ n \in DOMAIN peerSent'
       /\ peerSent' \in Seq(Seq(Values))
       /\ \A i \in DOMAIN peerSent' : i \in DOMAIN peerSent \/ (fin /\ i = n)
  <2> HIDE DEF message, n
  <2>0. n = Len(peerSent) + 1
    BY DEF n
  <2>1. CASE fin
    BY <1>1, <1>2, <1>5, <2>0, <2>1
  <2>2. CASE ~fin
    BY <1>1, <1>2, <2>2
  <2> QED BY <2>1, <2>2
<1>11. Due' = Due /\ End' = Behind(f)
  <2>1. Due' = Due
    BY <1>1 DEF Due
  <2>2. f.val[1] = n /\ f.val[2] = k
    BY <1>4
  <2>3. CASE fin
    <3>1. Len(peerSent') = n /\ fragments' = 0 /\ f.fin
      BY <1>1, <1>4, <1>10, <2>3
    <3>2. End' = <<n + 1, 1>>
      BY <3>1 DEF End
    <3>3. Behind(f) = <<n + 1, 1>>
      BY <2>2, <3>1 DEF Behind
    <3> QED BY <2>1, <3>2, <3>3
  <2>4. CASE ~fin
    <3>1. peerSent' = peerSent /\ fragments' = k /\ ~f.fin
      BY <1>1, <1>4, <2>4
    <3>2. End' = <<n, k + 1>>
      BY <3>1 DEF End
    <3>3. Behind(f) = <<n, k + 1>>
      BY <2>2, <3>1 DEF Behind
    <3> QED BY <2>1, <3>2, <3>3
  <2> QED BY <2>3, <2>4
<1>12. ASSUME NEW i \in DOMAIN gs PROVE Complete(gs[i])'
  <2>1. CASE i = Len(fs) + 1
    <3>1. gs[i] = f /\ f.val[1] = n /\ f.val[2] = k
      BY <1>4, <1>7, <2>1
    <3>2. fin => n \in DOMAIN peerSent' /\ k = Len(peerSent'[n])
      BY <1>5, <1>10
    <3> QED BY <1>4, <3>1, <3>2 DEF Complete
  <2>2. CASE i \in DOMAIN fs
    <3>1. gs[i] = fs[i] /\ Complete(fs[i])
      BY <1>6, <1>7, <2>2
    <3> QED BY <1>10, <3>1 DEF Complete
  <2> QED BY <1>7, <2>1, <2>2
<1>13. Up'
  <2>1. InTurn(gs, Due', End')
    BY <1>9, <1>11
  <2> QED BY <1>7, <1>8, <1>12, <2>1 DEF Up
<1>14. Handed'
  <2>1. ASSUME NEW i \in DOMAIN peerSent' PROVE peerSent'[i] = [h \in 1..Len(peerSent'[i]) |-> <<i, h>>]
    <3>1. CASE i \in DOMAIN peerSent
      BY <1>10, <3>1 DEF Handed
    <3>2. CASE fin /\ i = n
      BY <1>5, <1>10, <3>2
    <3> QED BY <1>10, <3>1, <3>2
  <2>2. Len(delivered) <= Len(peerSent') /\ delivered = SubSeq(peerSent', 1, Len(delivered))
    <3> DEFINE d == Len(delivered)
    <3>1. d \in Nat /\ d <= Len(peerSent) /\ delivered = SubSeq(peerSent, 1, d)
      BY DEF Handed
    <3>2. /\ Len(peerSent) \in Nat /\ Len(peerSent') \in Nat
          /\ DOMAIN peerSent = 1..Len(peerSent) /\ DOMAIN peerSent' = 1..Len(peerSent')
      BY <1>2, <1>10
    <3> HIDE DEF d
    <3>3. \A i \in 1..d : peerSent'[i] = peerSent[i]
      <4>1. \A i \in 1..d : i \in DOMAIN peerSent
        BY <3>1, <3>2
      <4> QED BY <1>10, <4>1
    <3>4. SubSeq(peerSent, 1, d) = [i \in 1..d |-> peerSent[i]]
      BY <1>2, <3>1, <3>2
    <3>5. SubSeq(peerSent', 1, d) = [i \in 1..d |-> peerSent'[i]]
      <4>1. peerSent' \in Seq(Seq(Values)) /\ d \in Nat /\ d <= Len(peerSent')
        <5>1. peerSent' \in Seq(Seq(Values)) /\ Len(peerSent) <= Len(peerSent')
          BY <1>10
        <5> QED BY <3>1, <3>2, <5>1
      <4> QED BY <4>1
    <3>6. SubSeq(peerSent', 1, d) = SubSeq(peerSent, 1, d)
      BY <3>3, <3>4, <3>5
    <3>7. delivered = SubSeq(peerSent', 1, d) /\ d <= Len(peerSent')
      <4>1. Len(peerSent) <= Len(peerSent')
        BY <1>10
      <4>2. d <= Len(peerSent')
        BY <3>1, <3>2, <4>1
      <4> QED BY <3>1, <3>6, <4>2
    <3> QED BY <3>7 DEF d
  <2> QED BY <1>1, <2>1, <2>2 DEF Handed
<1>15. [FromPeer!Next]_<<peerSent, delivered>>
  <2>1. CASE fin
    <3>1. message \in PeerMessages
      BY <1>2 DEF PeerMessages
    <3>2. FromPeer!Send(message)
      BY <1>1, <2>1 DEF FromPeer!Send
    <3> QED BY <3>1, <3>2 DEF FromPeer!Next
  <2>2. CASE ~fin
    BY <1>1, <2>2
  <2> QED BY <2>1, <2>2
<1> QED BY <1>13, <1>14, <1>15 DEF UpStep

\* The frame that dispatch handles is the first, and the others are left.
LEMMA FrontHandled ==
  ASSUME Typed, Dispatching, Op # "huge", Consume,
         NEW fs \in Seq(Frames), Cut(rxbuf \o toUs, fs, FALSE)
  PROVE  /\ fs # <<>> /\ Head(fs) \in Frames /\ Head(rxbuf).frame = Head(fs)
         /\ \A k \in 1..(1 + Head(fs).size) : rxbuf[k].frame = Head(fs)
         /\ Cut(rxbuf' \o toUs, Tail(fs), FALSE)
<1> DEFINE w == rxbuf \o toUs
           f == Head(fs)
<1>1. rxbuf \in Seq(ByteType) /\ toUs \in Seq(ByteType) /\ rxbuf # <<>> /\ Len(rxbuf) >= Total
  BY DEF Typed, Dispatching, FrameThere
<1>2. /\ w \in Seq(ByteType) /\ Len(w) = Len(rxbuf) + Len(toUs)
      /\ \A i \in 1..Len(rxbuf) : w[i] = rxbuf[i]
  BY <1>1, Joined
<1>3. Cut(w, fs, FALSE)
  OBVIOUS
<1> HIDE DEF w
<1>4. w # <<>> /\ Head(w) = Head(rxbuf) /\ Len(rxbuf) \in Nat
  BY <1>1, <1>2
<1>5. /\ fs # <<>> /\ Head(w).frame = f
      /\ \A k \in 1..(1 + f.size) : w[k] = Byte(f, k, FALSE)
  BY <1>2, <1>3, <1>4, CutHas
<1>6. f \in Frames
  BY <1>5, HeadBack
<1>7. Head(rxbuf).frame = f /\ Total = 1 + f.size /\ f.size \in {0, 1}
  BY <1>4, <1>5, <1>6 DEF Total, Frames
<1>8. \A k \in 1..(1 + f.size) : rxbuf[k].frame = f
  <2>1. \A k \in 1..(1 + f.size) : k \in 1..Len(rxbuf)
    BY <1>1, <1>4, <1>7
  <2>2. \A k \in 1..(1 + f.size) : Byte(f, k, FALSE).frame = f
    BY DEF Byte
  <2> QED BY <1>2, <1>5, <2>1, <2>2
<1>9. Cut(rxbuf' \o toUs, Tail(fs), FALSE)
  <2> DEFINE n == 1 + f.size
             v == Without(rxbuf, n) \o toUs
  <2>1. n \in 0..Len(rxbuf)
    BY <1>1, <1>4, <1>7
  <2>2. rxbuf' = Without(rxbuf, n)
    BY <1>7 DEF Consume
  <2>3. /\ v \in Seq(ByteType) /\ Len(v) = Len(w) - n
        /\ \A i \in 1..Len(v) : v[i] = w[n + i]
    <3> HIDE DEF n
    <3> QED BY <1>1, <2>1, FrontOfBoth DEF w
  <2> HIDE DEF v
  <2>4. Cut(v, Tail(fs), FALSE)
    BY <1>2, <1>3, <1>4, <2>3, CutTakes
  <2> QED BY <2>2, <2>4 DEF v
<1> QED BY <1>5, <1>6, <1>7, <1>8, <1>9

\* What is known of the frames is known of the others.
LEMMA OthersComplete ==
  ASSUME NEW fs \in Seq(Frames), fs # <<>>, \A i \in DOMAIN fs : Complete(fs[i])
  PROVE  Tail(fs) \in Seq(Frames) /\ Complete(Head(fs))
         /\ \A i \in DOMAIN Tail(fs) : Complete(Tail(fs)[i])
<1>1. /\ Tail(fs) \in Seq(Frames) /\ Head(fs) = fs[1] /\ 1 \in DOMAIN fs
      /\ \A i \in DOMAIN Tail(fs) : i + 1 \in DOMAIN fs /\ Tail(fs)[i] = fs[i + 1]
  OBVIOUS
<1> QED BY <1>1

\* A frame that carries nothing of a message is consumed.
LEMMA ConsumeOtherUp ==
  ASSUME Typed, Handed, Up, Dispatching, Op \notin {"text", "cont", "huge"}, Consume,
         UNCHANGED <<toUs, peerSent, fragments, delivered, receivedData>>
  PROVE  UpStep
<1>1. PICK fs \in Seq(Frames) :
        /\ Cut(rxbuf \o toUs, fs, FALSE) /\ InTurn(fs, Due, End)
        /\ \A i \in DOMAIN fs : Complete(fs[i])
  BY DEF Up
<1> DEFINE gs == Tail(fs)
<1>2. /\ fs # <<>> /\ Head(rxbuf).frame = Head(fs) /\ Cut(rxbuf' \o toUs, gs, FALSE)
  BY <1>1, FrontHandled
<1>3. ~IsData(Head(fs))
  BY <1>2 DEF IsData, Op
<1>4. InTurn(gs, Due, End)
  BY <1>1, <1>2, <1>3, TurnTakes
<1>5. gs \in Seq(Frames) /\ \A i \in DOMAIN gs : Complete(gs[i])
  BY <1>1, <1>2, OthersComplete
<1> HIDE DEF gs
<1>6. Due' = Due /\ End' = End /\ rxbuf' \o toUs' = rxbuf' \o toUs
  BY DEF Due, End
<1>7. Up'
  BY <1>2, <1>4, <1>5, <1>6 DEF Up, Complete
<1>8. Handed'
  BY DEF Handed
<1> QED BY <1>7, <1>8 DEF UpStep

\* A data frame feeds receivedData, and the last of a message hands it over.
LEMMA DataUp ==
  ASSUME Typed, Handed, Up, HandleData
  PROVE  UpStep
<1> DEFINE d == Len(delivered)
           r == Len(receivedData)
<1>0. /\ Dispatching /\ Op \in {"text", "cont"} /\ Consume
      /\ UNCHANGED <<toUs, peerSent, fragments>>
  BY DEF HandleData, peerVars
<1>1. PICK fs \in Seq(Frames) :
        /\ Cut(rxbuf \o toUs, fs, FALSE) /\ InTurn(fs, Due, End)
        /\ \A i \in DOMAIN fs : Complete(fs[i])
  BY DEF Up
<1>2. PICK f : f = Head(fs)
  OBVIOUS
<1>3. /\ fs # <<>> /\ f \in Frames /\ Head(rxbuf).frame = f
      /\ \A k \in 1..(1 + f.size) : rxbuf[k].frame = f
      /\ Cut(rxbuf' \o toUs, Tail(fs), FALSE)
  BY <1>0, <1>1, <1>2, FrontHandled
<1>4. IsData(f) /\ Complete(f) /\ f.size = 1 /\ f.val = Due
  <2>1. IsData(f)
    BY <1>0, <1>3 DEF IsData, Op
  <2>2. Complete(f)
    BY <1>1, <1>2, <1>3, OthersComplete
  <2>3. f.val = Due
    BY <1>1, <1>2, <1>3, <2>1, TurnTakes
  <2> QED BY <2>1, <2>2, <2>3 DEF Complete
<1>5. InTurn(Tail(fs), Behind(f), End)
  BY <1>1, <1>2, <1>3, <1>4, TurnTakes
<1>6. Tail(fs) \in Seq(Frames) /\ \A i \in DOMAIN Tail(fs) : Complete(Tail(fs)[i])
  BY <1>1, <1>3, OthersComplete
<1>7. Payload = <<Due>>
  <2>1. Total = 2 /\ rxbuf[2].frame = f
    BY <1>3, <1>4 DEF Total
  <2>2. Payload = [i \in 1..1 |-> rxbuf[1 + i].frame.val]
    BY <2>1 DEF Payload
  <2>3. \A i \in 1..1 : rxbuf[1 + i].frame.val = Due
    BY <1>4, <2>1
  <2>4. Payload = [i \in 1..1 |-> Due]
    BY <2>2, <2>3
  <2> QED BY <2>4
<1>8. Due = <<d + 1, r + 1>> /\ d \in Nat /\ r \in Nat /\ receivedData \in Seq(Values)
      /\ peerSent \in Seq(Seq(Values)) /\ delivered \in Seq(Seq(Values)) /\ f.val \in Values
  BY <1>3 DEF Due, Handed, Typed, Frames
<1> DEFINE more == receivedData \o <<Due>>
<1>9. /\ more \in Seq(Values) /\ Len(more) = r + 1
      /\ \A i \in 1..(r + 1) : more[i] = <<d + 1, i>>
  <2>1. Due \in Values
    BY <1>4, <1>8
  <2>2. more \in Seq(Values) /\ Len(more) = r + 1 /\ more[r + 1] = Due
        /\ \A i \in 1..r : more[i] = receivedData[i]
    BY <1>8, <2>1
  <2>3. \A i \in 1..r : receivedData[i] = <<d + 1, i>>
    BY <1>8 DEF Handed
  <2> HIDE DEF more, d, r
  <2>4. \A i \in 1..(r + 1) : i \in 1..r \/ i = r + 1
    BY <1>8
  <2> QED BY <1>8, <2>2, <2>3, <2>4
<1> HIDE DEF more
<1>10. End' = End
  BY <1>0 DEF End
<1>11. ASSUME Due' = Behind(f) PROVE Up'
  <2>1. PICK gs : gs = Tail(fs)
    OBVIOUS
  <2>2. /\ gs \in Seq(Frames) /\ Cut(rxbuf' \o toUs', gs, FALSE) /\ InTurn(gs, Due', End')
        /\ \A i \in DOMAIN gs : Complete(gs[i])
    BY <1>0, <1>3, <1>5, <1>6, <1>10, <1>11, <2>1
  <2>3. \A i \in DOMAIN gs : Complete(gs[i])'
    BY <1>0, <2>2 DEF Complete
  <2> QED BY <2>2, <2>3 DEF Up
<1>12. CASE ~f.fin
  <2>1. receivedData' = more /\ UNCHANGED delivered
    BY <1>3, <1>7, <1>12 DEF HandleData, more
  <2>2. Due' = Behind(f)
    <3>1. Due' = <<d + 1, (r + 1) + 1>>
      BY <1>9, <2>1 DEF Due
    <3>2. f.val[1] = d + 1 /\ f.val[2] = r + 1
      BY <1>4, <1>8
    <3> QED BY <1>12, <3>1, <3>2 DEF Behind
  <2>3. Handed'
    <3>1. DOMAIN more = 1..(r + 1)
      BY <1>9
    <3> QED BY <1>0, <1>9, <2>1, <3>1 DEF Handed
  <2> QED BY <1>0, <1>11, <2>1, <2>2, <2>3 DEF UpStep
<1>13. CASE f.fin
  <2>1. delivered' = Append(delivered, more) /\ receivedData' = <<>>
    BY <1>3, <1>7, <1>13 DEF HandleData, more
  <2>2. Len(delivered') = d + 1 /\ delivered' \in Seq(Seq(Values)) /\ receivedData' \in Seq(Values)
    BY <1>8, <1>9, <2>1
  <2>3. Due' = Behind(f)
    <3>1. Due' = <<(d + 1) + 1, 1>>
      BY <2>1, <2>2 DEF Due
    <3>2. f.val[1] = d + 1
      BY <1>4, <1>8
    <3> QED BY <1>13, <3>1, <3>2 DEF Behind
  <2>4. d + 1 \in DOMAIN peerSent /\ Len(peerSent[d + 1]) = r + 1
    <3>1. f.val[1] = d + 1 /\ f.val[2] = r + 1
      BY <1>4, <1>8
    <3> QED BY <1>4, <1>13, <3>1 DEF Complete
  <2>5. more = peerSent[d + 1]
    <3>1. peerSent[d + 1] = [i \in 1..(r + 1) |-> <<d + 1, i>>]
      BY <2>4 DEF Handed
    <3>2. more = [i \in 1..(r + 1) |-> more[i]]
      BY <1>9
    <3> QED BY <1>9, <3>1, <3>2
  <2>6. d + 1 <= Len(peerSent) /\ Len(peerSent) \in Nat
    BY <1>8, <2>4
  <2>7. delivered' = SubSeq(peerSent, 1, d + 1)
    <3>1. delivered = SubSeq(peerSent, 1, d)
      BY DEF Handed
    <3> HIDE DEF d, more
    <3>2. Append(SubSeq(peerSent, 1, d), peerSent[d + 1]) = SubSeq(peerSent, 1, d + 1)
      BY <1>8, <2>6
    <3> QED BY <2>1, <2>5, <3>1, <3>2
  <2>8. Handed'
    <3> HIDE DEF d
    <3>1. \A i \in DOMAIN <<>> : FALSE
      OBVIOUS
    <3> QED BY <1>0, <2>1, <2>2, <2>6, <2>7, <3>1 DEF Handed
  <2>9. FromPeer!Next
    <3>1. d + 1 \in (Len(delivered) + 1)..Len(peerSent)
      BY <1>8, <2>6
    <3>2. FromPeer!Deliver
      BY <1>0, <2>7, <3>1 DEF FromPeer!Deliver
    <3> QED BY <3>2 DEF FromPeer!Next
  <2> QED BY <1>11, <2>3, <2>8, <2>9 DEF UpStep
<1> QED BY <1>12, <1>13

-----------------------------------------------------------------------------
(* The two channels.                                                       *)

ChannelsInv == IInv /\ Buffers /\ Down /\ Handed /\ Up

\* The initial states are initial states of the channels, and satisfy the invariant.
LEMMA InitChannels == Init => Buffers /\ Down /\ Handed /\ Up /\ FromPeer!Init /\ ToPeer!Init
<1> SUFFICES ASSUME Init PROVE Buffers /\ Down /\ Handed /\ Up /\ FromPeer!Init /\ ToPeer!Init
  OBVIOUS
<1>1. /\ rxbuf = <<>> /\ txbuf = <<>> /\ receivedData = <<>> /\ toUs = <<>> /\ toPeer = <<>>
      /\ fragments = 0 /\ peerSent = <<>> /\ delivered = <<>> /\ accepted = <<>> /\ peerGot = <<>>
  BY DEF Init
<1>2. Buffers /\ FromPeer!Init /\ ToPeer!Init
  BY <1>1 DEF Buffers, FromPeer!Init, ToPeer!Init
<1>3. <<>> \in Seq(Frames) /\ <<>> \o <<>> = <<>> /\ \A i \in DOMAIN <<>> : FALSE
  OBVIOUS
<1>4. Down
  BY <1>1, <1>3, CutNothing DEF Down
<1>5. Handed
  BY <1>1, <1>3 DEF Handed
<1>6. InTurn(<<>>, Due, End)
  <2>1. Due = End
    BY <1>1 DEF Due, End
  <2> QED BY <2>1, TurnNothing
<1>7. Up
  BY <1>1, <1>3, <1>6, CutNothing DEF Up
<1> QED BY <1>2, <1>4, <1>5, <1>7

\* What leaves a direction alone.
LEMMA StillDown ==
  ASSUME Buffers, Down, UNCHANGED <<txbuf, toPeer, accepted, peerGot>> PROVE DownStep
  BY DEF DownStep, Buffers, Down

\* The same towards the program.
LEMMA StillUp ==
  ASSUME Handed, Up, UNCHANGED <<rxbuf, toUs, peerSent, fragments, delivered, receivedData>>
  PROVE  UpStep
  BY MovesUp

\* The calls of commsFn are steps of the channels.
LEMMA CallChannels == ASSUME ChannelsInv, Send \/ Close PROVE DownStep /\ UpStep
<1> USE DEF ChannelsInv, IInv
<1>1. CASE Send
  <2> DEFINE text == Frame("text", TRUE, 1, <<0, sends'>>)
             ping == Frame("ping", TRUE, 0, <<0, sends'>>)
  <2>1. /\ SendData(text) \/ SendData(ping)
        /\ UNCHANGED <<toPeer, peerGot, rxbuf, toUs, peerSent, fragments, delivered, receivedData>>
    BY <1>1 DEF Send, peerVars, upVars
  <2>2. <<0, sends'>> \in Values
    BY <1>1, BoundsAssumption DEF Send, Typed, Values
  <2>3. text \in OurFrames /\ ping \in OurFrames
    BY <2>2 DEF Frame, Frames, OurFrames
  <2> HIDE DEF text, ping
  <2>4. DownStep
    BY <2>1, <2>3, SendDataDown
  <2> QED BY <2>1, <2>4, StillUp
<1>2. CASE Close
  <2>1. /\ DoClose
        /\ UNCHANGED <<toPeer, peerGot, rxbuf, toUs, peerSent, fragments, delivered, receivedData>>
    BY <1>2 DEF Close, peerVars, upVars
  <2> QED BY <2>1, DoCloseDown, StillUp
<1> QED BY <1>1, <1>2

\* So is polling.
LEMMA PollChannels ==
  ASSUME ChannelsInv, Poll \/ PollFails \/ PollSelectError PROVE DownStep /\ UpStep
<1> USE DEF ChannelsInv, IInv
<1>1. CASE Poll \/ PollFails
  <2>1. PICK k \in Arrived, j \in 0..Len(txbuf) : Moves(k, j)
    BY <1>1 DEF Poll, PollFails
  <2>2. UNCHANGED <<accepted, peerSent, fragments, delivered, receivedData>>
    BY <1>1 DEF Poll, PollFails, peerVars, upVars
  <2>3. DownStep
    BY <2>1, <2>2, MovesDown
  <2> QED BY <2>1, <2>2, <2>3, PollUp
<1>2. CASE PollSelectError
  <2>1. /\ DoClose
        /\ UNCHANGED <<toPeer, peerGot, rxbuf, toUs, peerSent, fragments, delivered, receivedData>>
    BY <1>2 DEF PollSelectError, peerVars, upVars
  <2> QED BY <2>1, DoCloseDown, StillUp
<1> QED BY <1>1, <1>2

\* So is what dispatch does.
LEMMA DispatchChannels == ASSUME ChannelsInv, Dispatch PROVE DownStep /\ UpStep
<1> USE DEF ChannelsInv, IInv
<1>1. CASE HandleData
  <2>1. UNCHANGED <<txbuf, toPeer, accepted, peerGot>>
    BY <1>1 DEF HandleData, downVars
  <2> QED BY <1>1, <2>1, StillDown, DataUp
<1>2. CASE HandlePing
  <2> DEFINE pong == Frame("pong", TRUE, 0, Head(rxbuf).frame.val)
  <2>1. /\ Dispatching /\ Op \in {"ping", "pong"} /\ Consume
        /\ SendData(pong) \/ UNCHANGED <<txbuf, accepted>>
        /\ UNCHANGED <<toPeer, peerGot, toUs, peerSent, fragments, delivered, receivedData>>
    BY <1>2 DEF HandlePing, peerVars, upVars
  <2>2. Head(rxbuf) \in ByteType
    BY <2>1 DEF Typed, Dispatching, FrameThere
  <2>3. pong \in OurFrames
    BY <2>2 DEF ByteType, Frame, Frames, OurFrames
  <2> HIDE DEF pong
  <2>4. DownStep
    <3>1. CASE SendData(pong)
      BY <2>1, <2>3, <3>1, SendDataDown
    <3>2. CASE UNCHANGED <<txbuf, accepted>>
      BY <2>1, <3>2, StillDown
    <3> QED BY <2>1, <3>1, <3>2
  <2>5. Op \notin {"text", "cont", "huge"}
    BY <2>1
  <2> QED BY <2>1, <2>4, <2>5, ConsumeOtherUp
<1>3. CASE HandleClose
  <2>1. /\ Dispatching /\ Op \in {"close", "bad"} /\ Consume /\ DoClose
        /\ UNCHANGED <<toPeer, peerGot, toUs, peerSent, fragments, delivered, receivedData>>
    BY <1>3 DEF HandleClose, peerVars, upVars
  <2>2. Op \notin {"text", "cont", "huge"}
    BY <2>1
  <2> QED BY <2>1, <2>2, DoCloseDown, ConsumeOtherUp
<1>4. CASE HandleHuge
  <2>1. /\ DoClose
        /\ UNCHANGED <<toPeer, peerGot, rxbuf, toUs, peerSent, fragments, delivered, receivedData>>
    BY <1>4 DEF HandleHuge, peerVars, upVars
  <2> QED BY <2>1, DoCloseDown, StillUp
<1>5. CASE CallbackReturns \/ DispatchEnds
  <2>1. UNCHANGED <<txbuf, toPeer, accepted, peerGot, rxbuf, toUs, peerSent, fragments, delivered,
                    receivedData>>
    BY <1>5 DEF CallbackReturns, DispatchEnds, bufVars, peerVars, upVars, downVars
  <2> QED BY <2>1, StillDown, StillUp
<1> QED BY <1>1, <1>2, <1>3, <1>4, <1>5 DEF Dispatch

\* So is what the peer does.
LEMMA PeerChannels == ASSUME ChannelsInv, Peer PROVE DownStep /\ UpStep
<1> USE DEF ChannelsInv, IInv
<1>1. ASSUME NEW fin \in BOOLEAN, PeerFragment(fin) PROVE DownStep /\ UpStep
  <2>1. UNCHANGED <<txbuf, toPeer, accepted, peerGot>>
    BY <1>1 DEF PeerFragment, bufVars, downVars
  <2> QED BY <1>1, <2>1, StillDown, FragmentUp
<1>2. ASSUME NEW f \in Frames, ~IsData(f), PeerSends(f),
             UNCHANGED <<txbuf, toPeer, accepted, peerGot, rxbuf, peerSent, fragments, delivered,
                         receivedData>>
      PROVE  DownStep /\ UpStep
  BY <1>2, StillDown, OtherUp
<1>3. ASSUME NEW op \in {"ping", "pong"}, PeerControl(op) PROVE DownStep /\ UpStep
  <2> DEFINE f == Frame(op, TRUE, 0, <<0, controls'>>)
  <2>1. /\ PeerSends(f)
        /\ UNCHANGED <<txbuf, toPeer, accepted, peerGot, rxbuf, peerSent, fragments, delivered,
                       receivedData>>
    BY <1>3 DEF PeerControl, bufVars, upVars, downVars
  <2>2. controls' \in 0..MaxControls
    BY <1>3, BoundsAssumption DEF PeerControl, Typed
  <2>3. f \in Frames /\ ~IsData(f)
    BY <2>2, BoundsAssumption DEF Frame, Frames, Values, IsData
  <2> HIDE DEF f
  <2> QED BY <1>2, <2>1, <2>3
<1>4. ASSUME NEW op \in {"bad", "huge", "close"}, PeerSends(Frame(op, TRUE, 1, NoValue)),
             UNCHANGED <<txbuf, toPeer, accepted, peerGot, rxbuf, peerSent, fragments, delivered,
                         receivedData>>
      PROVE  DownStep /\ UpStep
  <2> DEFINE f == Frame(op, TRUE, 1, NoValue)
  <2>1. f \in Frames /\ ~IsData(f)
    BY BoundsAssumption DEF Frame, Frames, Values, NoValue, IsData
  <2> HIDE DEF f
  <2>2. PeerSends(f)
    BY <1>4 DEF f
  <2> QED BY <1>2, <1>4, <2>1, <2>2
<1>5. CASE PeerCloses
  BY <1>4, <1>5 DEF PeerCloses, bufVars, upVars, downVars
<1>6. ASSUME NEW op \in {"bad", "huge"}, PeerErrs(op) PROVE DownStep /\ UpStep
  BY <1>4, <1>6 DEF PeerErrs, bufVars, peerVars, upVars, downVars
<1> QED BY <1>1, <1>3, <1>5, <1>6 DEF Peer

\* Every step of the client is one of each channel, or leaves it alone.
LEMMA StepChannels ==
  ChannelsInv /\ [Next]_vars =>
    /\ Buffers' /\ Down' /\ Handed' /\ Up'
    /\ [FromPeer!Next]_<<peerSent, delivered>> /\ [ToPeer!Next]_<<accepted, peerGot>>
<1> SUFFICES ASSUME ChannelsInv, [Next]_vars PROVE DownStep /\ UpStep
  BY DEF DownStep, UpStep
<1>1. CASE UNCHANGED vars
  BY <1>1, StillDown, StillUp DEF ChannelsInv, vars, bufVars, upVars, downVars, peerVars
<1> QED BY <1>1, CallChannels, PollChannels, DispatchChannels, PeerChannels DEF Next

\* The client implements both channels: the handler is given the peer's messages,
\* whole and in order, and the peer gets the frames accepted, each masked once, in
\* order, wherever the socket cuts the bytes.
THEOREM ChannelsImplemented == Spec => ImplementsChannels
<1>1. Init => FromPeer!Init /\ ToPeer!Init /\ Buffers /\ Down /\ Handed /\ Up
  BY InitChannels
<1>2. Spec => []ChannelsInv
  BY <1>1, Invariant, StepChannels, PTL DEF Spec, ChannelsInv
<1>3. Spec => [][FromPeer!Next]_<<peerSent, delivered>> /\ [][ToPeer!Next]_<<accepted, peerGot>>
  BY <1>2, StepChannels, PTL DEF Spec
<1>4. Spec => FromPeer!Spec /\ ToPeer!Spec
  BY <1>1, <1>3, PTL DEF Spec, FromPeer!Spec, ToPeer!Spec
<1> QED BY <1>4 DEF ImplementsChannels

=============================================================================
