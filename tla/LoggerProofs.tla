----------------------------- MODULE LoggerProofs -----------------------------
(***************************************************************************)
(* Proofs about Logger, for any set of threads and any bounds.             *)
(***************************************************************************)
EXTENDS Logger, TLAPS

\* What DrainedAtExit needs to be inductive: from its last look at an empty queue
\* on, all the thread leaves in it is unseen.
Unseen ==
  worker \in {"none", "check", "wait"} => \A i \in DOMAIN dq : dq[i] \in unseen

\* A thread in the middle of LogEvent has counted its message.
Counted ==
  \A t \in Threads : pc[t] \notin {"idle", "join"} => sent[t] # 0

\* The thread dumps what it popped.
Held == worker = "dump" => md \in Messages

IInv == TypeOK /\ Counted /\ Held /\ WakeupPending /\ Unseen

\* The initial states satisfy the invariant.
LEMMA InitIInv == Init => IInv
<1> SUFFICES ASSUME Init PROVE IInv
  OBVIOUS
<1>1. /\ pc \in [Threads -> Steps] /\ sent \in [Threads -> 0..MaxMsgs]
      /\ switches \in 0..MaxSwitches
  BY ConstantsAssumption DEF Init, Steps
<1>2. dq \in Seq(Messages) /\ out \in Seq(Messages) /\ DOMAIN dq = {}
  BY DEF Init
<1>3. TypeOK
  BY <1>1, <1>2 DEF Init, TypeOK
<1>4. Counted /\ Held /\ WakeupPending /\ Unseen
  BY <1>2 DEF Init, Counted, Held, WakeupPending, Unseen
<1> QED BY <1>3, <1>4 DEF IInv

\* What Append and Tail do to a queue.
LEMMA Appended ==
  ASSUME NEW S, NEW q \in Seq(S), NEW e \in S
  PROVE  /\ Append(q, e) \in Seq(S)
         /\ \A i \in DOMAIN Append(q, e) :
              Append(q, e)[i] = e \/ (i \in DOMAIN q /\ Append(q, e)[i] = q[i])
  OBVIOUS

\* The message a thread is logging has a number.
LEMMA Numbered ==
  ASSUME TypeOK, Counted, NEW t \in Threads, pc[t] \notin {"idle", "join"}
  PROVE  <<t, sent[t]>> \in Messages
  BY ConstantsAssumption DEF TypeOK, Counted, Messages

\* The types are kept by every step.
LEMMA TypeStep == TypeOK /\ Counted /\ Held /\ [Next]_vars => TypeOK'
<1> SUFFICES ASSUME TypeOK, Counted, Held, [Next]_vars PROVE TypeOK'
  OBVIOUS
<1> USE ConstantsAssumption DEF TypeOK
<1>1. CASE UNCHANGED vars
  BY <1>1 DEF vars, clientVars, workerVars, setVars, histories
<1>2. ASSUME NEW t \in Threads, Call(t) \/ Step(t) PROVE TypeOK'
  <2> USE DEF clientVars, workerVars, setVars, histories, Goto, Steps, LogToFile, Switch
  <2>1. CASE LogEvent(t)
    <3>1. sent' \in [Threads -> 0..MaxMsgs]
      BY <2>1 DEF LogEvent
    <3> QED BY <2>1, <3>1 DEF LogEvent
  <2>2. CASE EnableAsync(t)
    <3>1. {dq[i] : i \in DOMAIN dq} \subseteq Messages
      OBVIOUS
    <3>2. unseen' \cup left' \subseteq Messages
      BY <2>2, <3>1 DEF EnableAsync
    <3>3. pc' \in [Threads -> Steps] /\ switches' \in 0..MaxSwitches
      BY <2>2 DEF EnableAsync
    <3>4. worker' \in {"none", "pop", "dump", "file", "check", "wait"}
          /\ mode' \in BOOLEAN /\ exit' \in BOOLEAN
      BY <2>2 DEF EnableAsync
    <3> QED BY <2>2, <3>2, <3>3, <3>4 DEF EnableAsync
  <2>3. CASE DisableAsync(t)
    BY <2>3 DEF DisableAsync
  <2>4. ASSUME NEW b \in FileSwitches, SetFileLogging(t, b) PROVE TypeOK'
    BY <2>4 DEF SetFileLogging
  <2>5. CASE GetInstanceId(t)
    BY <2>5 DEF GetInstanceId
  <2>6. CASE ReadMode(t)
    BY <2>6 DEF ReadMode
  <2>7. CASE Push(t)
    <3>1. <<t, sent[t]>> \in Messages
      BY <2>7, Numbered DEF Push
    <3>2. dq' \in Seq(Messages) /\ unseen' \subseteq Messages
      BY <2>7, <3>1 DEF Push
    <3> QED BY <2>7, <3>2 DEF Push
  <2>8. CASE Signal(t)
    BY <2>8 DEF Signal
  <2>9. CASE Dump(t)
    <3>1. <<t, sent[t]>> \in Messages
      BY <2>9, Numbered DEF Dump
    <3>2. out' \in Seq(Messages)
      BY <2>9, <3>1 DEF Dump
    <3> QED BY <2>9, <3>2 DEF Dump
  <2>10. CASE ToFile(t)
    BY <2>10 DEF ToFile
  <2>11. CASE Joined(t)
    BY <2>11 DEF Joined
  <2> QED BY <1>2, <2>1, <2>2, <2>3, <2>4, <2>5, <2>6, <2>7, <2>8, <2>9, <2>10, <2>11 DEF Call, Step
<1>3. CASE Transmit
  <2> USE DEF clientVars, workerVars, setVars, histories, LogToFile
  <2>1. CASE TryPop
    <3>1. dq # <<>> => Head(dq) \in Messages /\ Tail(dq) \in Seq(Messages)
      OBVIOUS
    <3>2. dq' \in Seq(Messages) /\ md' \in Messages \cup {<<>>}
      BY <2>1, <3>1 DEF TryPop
    <3> QED BY <2>1, <3>2 DEF TryPop
  <2>2. CASE DumpMd
    <3>1. md \in Messages
      BY <2>2 DEF DumpMd, Held
    <3>2. out' \in Seq(Messages)
      BY <2>2, <3>1 DEF DumpMd
    <3> QED BY <2>2, <3>2 DEF DumpMd
  <2>3. CASE FileMd
    BY <2>3 DEF FileMd
  <2>4. CASE CheckExit
    BY <2>4 DEF CheckExit
  <2>5. CASE Wait
    BY <2>5 DEF Wait
  <2> QED BY <1>3, <2>1, <2>2, <2>3, <2>4, <2>5 DEF Transmit
<1>4. CASE Destructor
  BY <1>4 DEF Destructor, clientVars, workerVars, setVars, histories
<1>5. CASE Destroyed
  BY <1>5 DEF Destroyed, clientVars, workerVars, setVars, histories
<1> QED BY <1>1, <1>2, <1>3, <1>4, <1>5 DEF Next

\* Counted and Held are kept.
LEMMA CountedStep == TypeOK /\ Counted /\ Held /\ [Next]_vars => Counted' /\ Held'
<1> SUFFICES ASSUME TypeOK, Counted, Held, [Next]_vars PROVE Counted' /\ Held'
  OBVIOUS
<1> USE DEF Counted, Held, clientVars, workerVars, Goto
<1>1. CASE UNCHANGED vars
  BY <1>1 DEF vars
<1>2. ASSUME NEW t \in Threads, Call(t) \/ Step(t) PROVE Counted' /\ Held'
  <2>1. CASE LogEvent(t)
    <3>1. sent'[t] # 0
      BY <2>1 DEF LogEvent, TypeOK
    <3> QED BY <2>1, <3>1 DEF LogEvent, TypeOK
  <2>2. CASE Call(t) /\ ~LogEvent(t)
    BY <2>2 DEF Call, EnableAsync, DisableAsync, SetFileLogging, TypeOK
  <2>3. CASE GetInstanceId(t) \/ ReadMode(t) \/ Push(t) \/ Signal(t)
    BY <2>3 DEF GetInstanceId, ReadMode, Push, Signal, TypeOK
  <2>4. CASE Dump(t) \/ ToFile(t) \/ Joined(t)
    BY <2>4 DEF Dump, ToFile, Joined, TypeOK
  <2> QED BY <1>2, <2>1, <2>2, <2>3, <2>4 DEF Step
<1>3. CASE Transmit
  <2>1. CASE TryPop
    <3>1. dq # <<>> => Head(dq) \in Messages
      BY DEF TypeOK
    <3> QED BY <2>1, <3>1 DEF TryPop
  <2>2. CASE DumpMd \/ FileMd \/ CheckExit \/ Wait
    BY <2>2 DEF DumpMd, FileMd, CheckExit, Wait
  <2> QED BY <1>3, <2>1, <2>2 DEF Transmit
<1>4. CASE Destructor \/ Destroyed
  BY <1>4 DEF Destructor, Destroyed
<1> QED BY <1>1, <1>2, <1>3, <1>4 DEF Next

\* WakeupPending: the queue grows only by a thread that signals next, and only
\* the wait resets the event.
LEMMA WakeupStep == TypeOK /\ WakeupPending /\ [Next]_vars => WakeupPending'
<1> SUFFICES ASSUME TypeOK, WakeupPending, [Next]_vars PROVE WakeupPending'
  OBVIOUS
<1> USE DEF WakeupPending, clientVars, workerVars, Goto
<1>1. CASE UNCHANGED vars
  BY <1>1 DEF vars
<1>2. ASSUME NEW t \in Threads, Call(t) \/ Step(t) PROVE WakeupPending'
  <2>1. CASE Call(t)
    BY <2>1 DEF Call, LogEvent, EnableAsync, DisableAsync, SetFileLogging, TypeOK
  <2>2. CASE Push(t)
    <3>1. pc'[t] = "signal"
      BY <2>2 DEF Push, TypeOK
    <3> QED BY <3>1
  <2>3. CASE Signal(t)
    BY <2>3 DEF Signal
  <2>4. CASE GetInstanceId(t) \/ ReadMode(t)
    BY <2>4 DEF GetInstanceId, ReadMode, TypeOK
  <2>5. CASE Dump(t) \/ ToFile(t) \/ Joined(t)
    BY <2>5 DEF Dump, ToFile, Joined, TypeOK
  <2> QED BY <1>2, <2>1, <2>2, <2>3, <2>4, <2>5 DEF Step
<1>3. CASE Transmit
  BY <1>3 DEF Transmit, TryPop, DumpMd, FileMd, CheckExit, Wait
<1>4. CASE Destructor \/ Destroyed
  BY <1>4 DEF Destructor, Destroyed
<1> QED BY <1>1, <1>2, <1>3, <1>4 DEF Next

\* Unseen: the queue grows only by what Push also makes unseen, and what is
\* unseen is forgotten only by a look at the queue, which must find it empty to
\* bring the thread near its exit.
LEMMA UnseenStep == TypeOK /\ Counted /\ Unseen /\ [Next]_vars => Unseen'
<1> SUFFICES ASSUME TypeOK, Counted, Unseen, [Next]_vars PROVE Unseen'
  OBVIOUS
<1> USE DEF Unseen, clientVars, workerVars, setVars, histories, Goto
<1>1. CASE UNCHANGED vars
  BY <1>1 DEF vars
<1>2. ASSUME NEW t \in Threads, Call(t) \/ Step(t) PROVE Unseen'
  <2>1. CASE Push(t)
    <3>1. <<t, sent[t]>> \in Messages
      BY <2>1, Numbered DEF Push
    <3>2. \A i \in DOMAIN dq' :
            dq'[i] = <<t, sent[t]>> \/ (i \in DOMAIN dq /\ dq'[i] = dq[i])
      BY <2>1, <3>1, Appended DEF Push, TypeOK
    <3> QED BY <2>1, <3>2 DEF Push
  <2>2. CASE Call(t)
    BY <2>2 DEF Call, LogEvent, EnableAsync, DisableAsync, SetFileLogging
  <2>3. CASE Step(t) /\ ~Push(t)
    BY <2>3 DEF Step, GetInstanceId, ReadMode, Signal, Dump, ToFile, Joined
  <2> QED BY <1>2, <2>1, <2>2, <2>3
<1>3. CASE TryPop
  <2>1. dq' = <<>> \/ worker' = "dump"
    BY <1>3 DEF TryPop
  <2> QED BY <2>1
<1>4. CASE DumpMd \/ FileMd \/ CheckExit \/ Wait
  BY <1>4 DEF DumpMd, FileMd, CheckExit, Wait
<1>5. CASE Destructor \/ Destroyed
  BY <1>5 DEF Destructor, Destroyed
<1> QED BY <1>1, <1>2, <1>3, <1>4, <1>5 DEF Next, Transmit

\* The invariant holds of every behaviour.
THEOREM Invariant == Spec => []IInv
<1>1. IInv /\ [Next]_vars => IInv'
  BY TypeStep, CountedStep, WakeupStep, UnseenStep DEF IInv
<1> QED BY InitIInv, <1>1, PTL DEF Spec

\* The logger's state keeps its types: LoggingClass.h's members, whoever calls.
THEOREM TypeCorrect == Spec => []TypeOK
<1>1. IInv => TypeOK
  BY DEF IInv
<1> QED BY Invariant, <1>1, PTL

\* No wake-up is lost between concurrent_queue::push, Event::set_all and
\* Event::wait, with any number of threads logging and switching.
THEOREM NoLostWakeup == Spec => []WakeupPending
<1>1. IInv => WakeupPending
  BY DEF IInv
<1> QED BY Invariant, <1>1, PTL

\* What async_transmit_func leaves in the queue when it returns was pushed after
\* it had last found the queue empty.
THEOREM DrainedAtExitHolds == Spec => []DrainedAtExit
<1>1. IInv => DrainedAtExit
  BY DEF IInv, Unseen, DrainedAtExit
<1> QED BY Invariant, <1>1, PTL

-----------------------------------------------------------------------------
(* The order of the messages.                                              *)

\* A thread in the middle of a call has a message that is nowhere yet.
Busy == {"id", "mode", "push", "dump", "file"}

\* The messages that are on their way or out.
InHand ==
  {out[i] : i \in DOMAIN out} \cup {dq[i] : i \in DOMAIN dq}
    \cup (IF worker = "dump" THEN {md} ELSE {})

Numbers ==
  \A m \in InHand : m[2] <= sent[m[1]] /\ (pc[m[1]] \in Busy => m[2] < sent[m[1]])

\* There is no thread, and none is to be joined.
Off == ~mode /\ worker = "none"

\* A message that is behind others of its thread on the way out.
Behind(a, b) == a[1] = b[1] => a[2] < b[2]

\* The queue, and what was popped before it, are in order.
QueueInOrder ==
  /\ \A i, j \in DOMAIN dq : i < j => Behind(dq[i], dq[j])
  /\ worker = "dump" => \A i \in DOMAIN dq : Behind(md, dq[i])

\* What is out may be later than something queued only while there is no thread,
\* or if an earlier one left that behind.
OutBefore ==
  /\ \A i \in DOMAIN out, j \in DOMAIN dq : Behind(out[i], dq[j]) \/ dq[j] \in left \/ Off
  /\ worker = "dump" => \A i \in DOMAIN out : Behind(out[i], md) \/ md \in left

\* A thread that dumps itself has nothing on its way but what was left behind.
DumpsAlone ==
  \A t \in Threads :
    pc[t] = "dump" =>
      \/ Off
      \/ /\ \A i \in DOMAIN dq : dq[i][1] = t => dq[i] \in left
         /\ worker = "dump" /\ md[1] = t => md \in left

Ordered == /\ ~mode => worker = "none"
           /\ Numbers /\ QueueInOrder /\ OutBefore /\ DumpsAlone /\ InOrder

LEMMA InitOrdered == Init => Ordered
<1> SUFFICES ASSUME Init PROVE Ordered
  OBVIOUS
<1>1. DOMAIN dq = {} /\ DOMAIN out = {} /\ worker = "none" /\ mode = FALSE
      /\ pc = [t \in Threads |-> "idle"]
  BY DEF Init
<1> QED BY <1>1 DEF Ordered, Numbers, InHand, QueueInOrder, OutBefore, DumpsAlone, InOrder

\* A message is of a thread and has a number.
LEMMA MessageIs == \A m \in Messages : m[1] \in Threads /\ m[2] \in 1..MaxMsgs /\ m[2] \in Nat
  BY ConstantsAssumption DEF Messages

\* Steps that move no message.
LEMMA NothingMoves ==
  ASSUME IInv, Ordered, UNCHANGED <<dq, out, left>>,
         ~mode' => worker' = "none", Off => Off',
         worker' = "dump" => worker = "dump" /\ md' = md,
         \A t \in Threads : pc'[t] = "dump" => pc[t] = "dump" \/ Off',
         \A t \in Threads : sent[t] <= sent'[t]
                            /\ (pc'[t] \in Busy => pc[t] \in Busy \/ sent[t] < sent'[t]),
         sent' \in [Threads -> 0..MaxMsgs]
  PROVE  Ordered'
<1>1. InHand' \subseteq InHand /\ InHand \subseteq Messages
  BY DEF InHand, IInv, TypeOK, Held
<1>2. \A t \in Threads : sent[t] \in Nat /\ sent'[t] \in Nat
  BY ConstantsAssumption DEF IInv, TypeOK
<1>3. Numbers'
  <2> SUFFICES ASSUME NEW m \in InHand'
               PROVE  m[2] <= sent'[m[1]] /\ (pc'[m[1]] \in Busy => m[2] < sent'[m[1]])
    BY DEF Numbers
  <2>1. m \in InHand /\ m[1] \in Threads /\ m[2] \in Nat
    BY <1>1, MessageIs
  <2>2. m[2] <= sent[m[1]] /\ (pc[m[1]] \in Busy => m[2] < sent[m[1]])
    BY <2>1 DEF Ordered, Numbers
  <2>3. sent[m[1]] <= sent'[m[1]] /\ (pc'[m[1]] \in Busy => pc[m[1]] \in Busy \/ sent[m[1]] < sent'[m[1]])
    BY <2>1
  <2>4. sent[m[1]] \in Nat /\ sent'[m[1]] \in Nat
    BY <2>1, <1>2
  <2> QED BY <2>1, <2>2, <2>3, <2>4
<1>4. QueueInOrder' /\ OutBefore' /\ InOrder'
  BY DEF Ordered, QueueInOrder, OutBefore, InOrder, Behind
<1>5. DumpsAlone'
  BY DEF Ordered, DumpsAlone
<1> QED BY <1>3, <1>4, <1>5 DEF Ordered

LEMMA PushOrdered ==
  ASSUME IInv, Ordered, NEW t \in Threads, Push(t)
  PROVE  Ordered'
<1> DEFINE e == <<t, sent[t]>>
<1>1. /\ pc[t] = "push" /\ pc' = [pc EXCEPT ![t] = "signal"] /\ dq' = Append(dq, e)
      /\ UNCHANGED <<sent, worker, md, mode, out, left>>
  BY DEF Push, Goto, workerVars, setVars
<1>2. /\ e \in Messages /\ e[1] = t /\ e[2] = sent[t] /\ dq \in Seq(Messages)
      /\ out \in Seq(Messages) /\ sent[t] \in Nat /\ pc \in [Threads -> Steps]
  <2>1. e \in Messages
    BY <1>1, Numbered DEF IInv
  <2>2. dq \in Seq(Messages) /\ out \in Seq(Messages) /\ pc \in [Threads -> Steps]
    BY DEF IInv, TypeOK
  <2>3. sent[t] \in Nat
    BY ConstantsAssumption DEF IInv, TypeOK
  <2> QED BY <2>1, <2>2, <2>3
<1> HIDE DEF e
<1>3. /\ Len(dq') = Len(dq) + 1 /\ DOMAIN dq' = 1..(Len(dq) + 1) /\ DOMAIN dq = 1..Len(dq)
      /\ Len(dq) \in Nat /\ dq'[Len(dq) + 1] = e
      /\ \A i \in DOMAIN dq : dq'[i] = dq[i]
  BY <1>1, <1>2
<1>4. InHand' = InHand \cup {e} /\ InHand \subseteq Messages
  <2>1. {dq'[i] : i \in DOMAIN dq'} = {dq[i] : i \in DOMAIN dq} \cup {e}
    BY <1>3
  <2>2. InHand \subseteq Messages
    BY DEF InHand, IInv, TypeOK, Held
  <2> QED BY <1>1, <2>1, <2>2 DEF InHand
<1>5. \A m \in InHand : m[1] = t => m[2] < sent[t]
  BY <1>1 DEF Ordered, Numbers, Busy
<1>6. \A i \in DOMAIN dq : dq[i] \in InHand
  BY DEF InHand
<1>7. \A i \in DOMAIN out : out[i] \in InHand
  BY DEF InHand
<1>8. worker = "dump" => md \in InHand
  BY DEF InHand
<1>9. Numbers'
  <2> SUFFICES ASSUME NEW m \in InHand'
               PROVE  m[2] <= sent[m[1]] /\ (pc'[m[1]] \in Busy => m[2] < sent[m[1]])
    BY <1>1 DEF Numbers
  <2>1. CASE m = e
    BY <1>1, <1>2, <2>1 DEF Busy
  <2>2. CASE m \in InHand
    <3>1. m[2] <= sent[m[1]] /\ (pc[m[1]] \in Busy => m[2] < sent[m[1]])
      BY <2>2 DEF Ordered, Numbers
    <3>2. pc'[m[1]] \in Busy => pc[m[1]] \in Busy
      BY <1>1, <1>2 DEF Busy
    <3> QED BY <3>1, <3>2
  <2> QED BY <1>4, <2>1, <2>2
<1>10. \A j \in DOMAIN dq' : (j \in DOMAIN dq /\ dq'[j] = dq[j]) \/ (j = Len(dq) + 1 /\ dq'[j] = e)
  BY <1>3
<1>11. QueueInOrder'
  <2>1. ASSUME NEW i \in DOMAIN dq', NEW j \in DOMAIN dq', i < j PROVE Behind(dq'[i], dq'[j])
    <3>1. i \in DOMAIN dq /\ dq'[i] = dq[i]
      BY <1>3, <1>10, <2>1
    <3>2. CASE j \in DOMAIN dq /\ dq'[j] = dq[j]
      BY <2>1, <3>1, <3>2 DEF Ordered, QueueInOrder
    <3>3. CASE dq'[j] = e
      BY <1>2, <1>5, <1>6, <3>1, <3>3 DEF Behind
    <3> QED BY <1>10, <3>2, <3>3
  <2>2. ASSUME worker = "dump", NEW i \in DOMAIN dq' PROVE Behind(md, dq'[i])
    <3>1. CASE i \in DOMAIN dq /\ dq'[i] = dq[i]
      BY <2>2, <3>1 DEF Ordered, QueueInOrder
    <3>2. CASE dq'[i] = e
      BY <1>2, <1>5, <1>8, <2>2, <3>2 DEF Behind
    <3> QED BY <1>10, <3>1, <3>2
  <2> QED BY <1>1, <2>1, <2>2 DEF QueueInOrder
<1>12. OutBefore'
  <2>1. ASSUME NEW i \in DOMAIN out, NEW j \in DOMAIN dq'
        PROVE  Behind(out[i], dq'[j]) \/ dq'[j] \in left \/ Off
    <3>1. CASE j \in DOMAIN dq /\ dq'[j] = dq[j]
      BY <3>1 DEF Ordered, OutBefore
    <3>2. CASE dq'[j] = e
      BY <1>2, <1>5, <1>7, <3>2 DEF Behind
    <3> QED BY <1>10, <3>1, <3>2
  <2> QED BY <1>1, <2>1 DEF OutBefore, Ordered, Off
<1>13. DumpsAlone'
  <2> SUFFICES ASSUME NEW s \in Threads, pc'[s] = "dump"
               PROVE  \/ Off
                      \/ /\ \A i \in DOMAIN dq' : dq'[i][1] = s => dq'[i] \in left
                         /\ worker = "dump" /\ md[1] = s => md \in left
    BY <1>1 DEF DumpsAlone, Off
  <2>1. s # t /\ pc[s] = "dump"
    BY <1>1, <1>2
  <2> QED BY <1>2, <1>10, <2>1 DEF Ordered, DumpsAlone
<1> QED BY <1>1, <1>9, <1>11, <1>12, <1>13 DEF Ordered, InOrder

LEMMA DumpOrdered ==
  ASSUME IInv, Ordered, NEW t \in Threads, Dump(t)
  PROVE  Ordered'
<1> DEFINE e == <<t, sent[t]>>
<1>1. /\ pc[t] = "dump" /\ pc' = [pc EXCEPT ![t] = "idle"] /\ out' = Append(out, e)
      /\ UNCHANGED <<sent, worker, md, mode, dq, left>>
  BY DEF Dump, Goto, workerVars, histories
<1>2. /\ e \in Messages /\ e[1] = t /\ e[2] = sent[t] /\ dq \in Seq(Messages)
      /\ out \in Seq(Messages) /\ sent[t] \in Nat /\ pc \in [Threads -> Steps]
  <2>1. e \in Messages
    BY <1>1, Numbered DEF IInv
  <2>2. dq \in Seq(Messages) /\ out \in Seq(Messages) /\ pc \in [Threads -> Steps]
    BY DEF IInv, TypeOK
  <2>3. sent[t] \in Nat
    BY ConstantsAssumption DEF IInv, TypeOK
  <2> QED BY <2>1, <2>2, <2>3
<1> HIDE DEF e
<1>3. /\ Len(out) \in Nat /\ DOMAIN out' = 1..(Len(out) + 1) /\ DOMAIN out = 1..Len(out)
      /\ out'[Len(out) + 1] = e
      /\ \A i \in DOMAIN out : out'[i] = out[i]
  BY <1>1, <1>2
<1>4. InHand' = InHand \cup {e}
  <2>1. {out'[i] : i \in DOMAIN out'} = {out[i] : i \in DOMAIN out} \cup {e}
    BY <1>3
  <2> QED BY <1>1, <2>1 DEF InHand
<1>5. \A i \in DOMAIN out : Behind(out[i], e)
  <2>1. \A i \in DOMAIN out : out[i] \in InHand
    BY DEF InHand
  <2> QED BY <1>1, <1>2, <2>1 DEF Ordered, Numbers, Busy, Behind
<1>6. Numbers'
  <2> SUFFICES ASSUME NEW m \in InHand'
               PROVE  m[2] <= sent[m[1]] /\ (pc'[m[1]] \in Busy => m[2] < sent[m[1]])
    BY <1>1 DEF Numbers
  <2>1. CASE m = e
    BY <1>1, <1>2, <2>1 DEF Busy
  <2>2. CASE m \in InHand
    <3>1. m[2] <= sent[m[1]] /\ (pc[m[1]] \in Busy => m[2] < sent[m[1]])
      BY <2>2 DEF Ordered, Numbers
    <3>2. pc'[m[1]] \in Busy => pc[m[1]] \in Busy
      BY <1>1, <1>2 DEF Busy
    <3> QED BY <3>1, <3>2
  <2> QED BY <1>4, <2>1, <2>2
<1>7. \A j \in DOMAIN out' : (j \in DOMAIN out /\ out'[j] = out[j]) \/ (j = Len(out) + 1 /\ out'[j] = e)
  BY <1>3
<1>8. InOrder'
  <2> SUFFICES ASSUME NEW i \in DOMAIN out', NEW j \in DOMAIN out', i < j
               PROVE  Behind(out'[i], out'[j]) \/ out'[j] \in left
    BY <1>1 DEF InOrder, Behind
  <2>1. i \in DOMAIN out /\ out'[i] = out[i]
    BY <1>3, <1>7
  <2>2. CASE j \in DOMAIN out /\ out'[j] = out[j]
    BY <2>1, <2>2 DEF Ordered, InOrder, Behind
  <2>3. CASE out'[j] = e
    BY <1>5, <2>1, <2>3
  <2> QED BY <1>7, <2>2, <2>3
<1>9. OutBefore'
  <2>1. \/ Off
        \/ /\ \A i \in DOMAIN dq : dq[i][1] = t => dq[i] \in left
           /\ worker = "dump" /\ md[1] = t => md \in left
    BY <1>1 DEF Ordered, DumpsAlone
  <2>2. ASSUME NEW i \in DOMAIN out', NEW j \in DOMAIN dq
        PROVE  Behind(out'[i], dq[j]) \/ dq[j] \in left \/ Off
    <3>1. CASE i \in DOMAIN out /\ out'[i] = out[i]
      BY <3>1 DEF Ordered, OutBefore
    <3>2. CASE out'[i] = e
      BY <1>2, <2>1, <3>2 DEF Behind
    <3> QED BY <1>7, <3>1, <3>2
  <2>3. ASSUME worker = "dump", NEW i \in DOMAIN out' PROVE Behind(out'[i], md) \/ md \in left
    <3>1. CASE i \in DOMAIN out /\ out'[i] = out[i]
      BY <2>3, <3>1 DEF Ordered, OutBefore
    <3>2. CASE out'[i] = e
      BY <1>2, <2>1, <2>3, <3>2 DEF Behind, Off
    <3> QED BY <1>7, <3>1, <3>2
  <2> QED BY <1>1, <2>2, <2>3 DEF OutBefore, Off
<1>10. DumpsAlone'
  BY <1>1, <1>2 DEF Ordered, DumpsAlone, Off
<1> QED BY <1>1, <1>6, <1>8, <1>9, <1>10 DEF Ordered, QueueInOrder

LEMMA TryPopOrdered == IInv /\ Ordered /\ TryPop => Ordered'
<1> SUFFICES ASSUME IInv, Ordered, TryPop PROVE Ordered'
  OBVIOUS
<1>0. worker = "pop" /\ UNCHANGED <<pc, sent, mode, out, left>> /\ dq \in Seq(Messages) /\ mode
  BY DEF TryPop, clientVars, setVars, IInv, TypeOK, Ordered
<1>1. CASE dq = <<>>
  <2>1. worker' = "check" /\ UNCHANGED <<dq, md>>
    BY <1>1 DEF TryPop
  <2> QED BY <1>0, <2>1 DEF Ordered, Numbers, InHand, QueueInOrder, OutBefore, DumpsAlone,
                            InOrder, Off
<1>2. CASE dq # <<>>
  <2>1. worker' = "dump" /\ md' = Head(dq) /\ dq' = Tail(dq)
    BY <1>2 DEF TryPop
  <2>2. /\ 1 \in DOMAIN dq /\ md' = dq[1] /\ DOMAIN dq' \subseteq Nat
        /\ \A i \in DOMAIN dq' : i + 1 \in DOMAIN dq /\ dq'[i] = dq[i + 1] /\ 1 < i + 1
    BY <1>0, <1>2, <2>1
  <2>3. InHand' \subseteq InHand
    <3>1. {dq'[i] : i \in DOMAIN dq'} \subseteq {dq[i] : i \in DOMAIN dq}
      BY <2>2
    <3> QED BY <1>0, <2>1, <2>2, <3>1 DEF InHand
  <2>4. Numbers'
    BY <1>0, <2>3 DEF Ordered, Numbers
  <2>5. QueueInOrder'
    <3>1. \A i, j \in DOMAIN dq' : i < j => i + 1 < j + 1
      BY <2>2
    <3> QED BY <2>1, <2>2, <3>1 DEF Ordered, QueueInOrder
  <2>6. OutBefore' /\ DumpsAlone'
    BY <1>0, <2>1, <2>2 DEF Ordered, OutBefore, DumpsAlone, Off
  <2> QED BY <1>0, <2>4, <2>5, <2>6 DEF Ordered, InOrder
<1> QED BY <1>1, <1>2

LEMMA DumpMdOrdered == IInv /\ Ordered /\ DumpMd => Ordered'
<1> SUFFICES ASSUME IInv, Ordered, DumpMd PROVE Ordered'
  OBVIOUS
<1>1. /\ worker = "dump" /\ worker' \in {"file", "pop"} /\ out' = Append(out, md) /\ mode
      /\ UNCHANGED <<pc, sent, mode, dq, left>>
      /\ md \in Messages /\ out \in Seq(Messages) /\ dq \in Seq(Messages)
  BY DEF DumpMd, clientVars, setVars, histories, IInv, TypeOK, Held, Ordered
<1>2. /\ Len(out) \in Nat /\ DOMAIN out' = 1..(Len(out) + 1) /\ DOMAIN out = 1..Len(out)
      /\ out'[Len(out) + 1] = md
      /\ \A i \in DOMAIN out : out'[i] = out[i]
  BY <1>1
<1>3. InHand' = InHand
  <2>1. {out'[i] : i \in DOMAIN out'} = {out[i] : i \in DOMAIN out} \cup {md}
    BY <1>2
  <2> QED BY <1>1, <2>1 DEF InHand
<1>4. \A j \in DOMAIN out' : (j \in DOMAIN out /\ out'[j] = out[j]) \/ (j = Len(out) + 1 /\ out'[j] = md)
  BY <1>2
<1>5. InOrder'
  <2> SUFFICES ASSUME NEW i \in DOMAIN out', NEW j \in DOMAIN out', i < j
               PROVE  Behind(out'[i], out'[j]) \/ out'[j] \in left
    BY <1>1 DEF InOrder, Behind
  <2>1. i \in DOMAIN out /\ out'[i] = out[i]
    BY <1>2, <1>4
  <2>2. CASE j \in DOMAIN out /\ out'[j] = out[j]
    BY <2>1, <2>2 DEF Ordered, InOrder, Behind
  <2>3. CASE out'[j] = md
    BY <1>1, <2>1, <2>3 DEF Ordered, OutBefore
  <2> QED BY <1>4, <2>2, <2>3
<1>6. OutBefore'
  <2>1. ASSUME NEW i \in DOMAIN out', NEW j \in DOMAIN dq
        PROVE  Behind(out'[i], dq[j]) \/ dq[j] \in left
    <3>1. CASE i \in DOMAIN out /\ out'[i] = out[i]
      BY <1>1, <3>1 DEF Ordered, OutBefore, Off
    <3>2. CASE out'[i] = md
      BY <1>1, <3>2 DEF Ordered, QueueInOrder
    <3> QED BY <1>4, <3>1, <3>2
  <2> QED BY <1>1, <2>1 DEF OutBefore
<1>7. Numbers' /\ QueueInOrder' /\ DumpsAlone'
  BY <1>1, <1>3 DEF Ordered, Numbers, QueueInOrder, DumpsAlone, Off
<1> QED BY <1>1, <1>5, <1>6, <1>7 DEF Ordered

LEMMA EnableOrdered ==
  ASSUME IInv, Ordered, NEW t \in Threads, EnableAsync(t)
  PROVE  Ordered'
<1>1. /\ worker' = "pop" /\ mode' = TRUE /\ UNCHANGED <<pc, sent, dq, out>>
      /\ worker = "none"
      /\ left \subseteq left' /\ \A i \in DOMAIN dq : dq[i] \in left'
  BY DEF EnableAsync, clientVars, Ordered
<1>2. InHand' = InHand
  BY <1>1 DEF InHand
<1> QED BY <1>1, <1>2 DEF Ordered, Numbers, QueueInOrder, OutBefore, DumpsAlone, InOrder

LEMMA OrderedStep == IInv /\ Ordered /\ [Next]_vars => Ordered'
<1> SUFFICES ASSUME IInv, Ordered, [Next]_vars PROVE Ordered'
  OBVIOUS
<1> USE DEF clientVars, workerVars, setVars, histories, Goto, Busy, Off
<1>0. /\ sent \in [Threads -> 0..MaxMsgs] /\ (\A t \in Threads : sent[t] \in Nat)
      /\ pc \in [Threads -> Steps] /\ (~mode => worker = "none")
  BY ConstantsAssumption DEF IInv, TypeOK, Ordered
<1>1. CASE UNCHANGED vars
  BY <1>0, <1>1, NothingMoves DEF vars
<1>2. ASSUME NEW t \in Threads, Call(t) \/ Step(t) PROVE Ordered'
  <2>1. CASE LogEvent(t)
    <3>1. /\ sent' \in [Threads -> 0..MaxMsgs] /\ sent' = [sent EXCEPT ![t] = @ + 1]
          /\ pc' = [pc EXCEPT ![t] = "id"]
          /\ UNCHANGED <<dq, worker, md, mode, out, left>>
      BY <1>0, <2>1, TypeStep DEF LogEvent, IInv, TypeOK, Call, Next
    <3> QED BY <1>0, <3>1, NothingMoves
  <2>2. CASE EnableAsync(t)
    BY <2>2, EnableOrdered
  <2>3. CASE DisableAsync(t) \/ \E b \in FileSwitches : SetFileLogging(t, b)
    BY <1>0, <2>3, NothingMoves DEF DisableAsync, SetFileLogging
  <2>4. CASE Push(t)
    BY <2>4, PushOrdered
  <2>5. CASE Dump(t)
    BY <2>5, DumpOrdered
  <2>6. CASE GetInstanceId(t) \/ ToFile(t) \/ Signal(t)
    BY <1>0, <2>6, NothingMoves DEF GetInstanceId, ToFile, Signal
  <2>7. CASE ReadMode(t) \/ Joined(t)
    BY <1>0, <2>7, NothingMoves DEF ReadMode, Joined
  <2> QED BY <1>2, <2>1, <2>2, <2>3, <2>4, <2>5, <2>6, <2>7 DEF Call, Step
<1>3. CASE TryPop \/ DumpMd
  BY <1>3, TryPopOrdered, DumpMdOrdered
<1>4. CASE FileMd \/ CheckExit \/ Wait
  BY <1>0, <1>4, NothingMoves DEF FileMd, CheckExit, Wait, Ordered
<1>5. CASE Destructor \/ Destroyed
  BY <1>0, <1>5, NothingMoves DEF Destructor, Destroyed
<1> QED BY <1>1, <1>2, <1>3, <1>4, <1>5 DEF Next, Transmit

\* Each thread's messages come out in its order, across the changes between dumping
\* and queueing, but for those an earlier async_transmit_func left behind.
THEOREM InOrderHolds == Spec => []InOrder
<1>1. IInv /\ Ordered => InOrder
  BY DEF Ordered
<1> QED BY Invariant, InitOrdered, OrderedStep, <1>1, PTL DEF Spec

=============================================================================
