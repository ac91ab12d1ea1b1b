--------------------------- MODULE PluginHostProofs ---------------------------
(***************************************************************************)
(* Proofs about PluginHost, for any settings and bounds.                   *)
(***************************************************************************)
EXTENDS PluginHost, TLAPS

\* What the host's end and the thread's must agree on: a plugin that was finished
\* has a thread that is gone or was told to go, and what is still queued is gone
\* with it.
Ended ==
  /\ finished => thread = "gone"
  /\ thread = "gone" => ~bRunning

\* WakeupPending from the thread's last look at the queue, and at bRunning, on.
Woken ==
  /\ thread \in {"poll", "wait"} /\ cmdQueue # <<>> => event \/ host = "setEvent"
  /\ thread \in {"pop", "poll", "wait"} /\ ~bRunning => event

IInv == Woken /\ Ended

\* The initial states satisfy the invariant.
LEMMA InitIInv == Init => IInv
  BY DEF Init, IInv, Woken, Ended

\* Every step keeps it.
LEMMA Step == IInv /\ [Next]_vars => IInv'
<1> SUFFICES ASSUME IInv, [Next]_vars PROVE IInv'
  OBVIOUS
<1> USE DEF IInv, Woken, Ended, hostVars, threadVars
<1>1. CASE UNCHANGED vars
  BY <1>1 DEF vars
<1>2. CASE InitCall \/ Activate \/ Deactivate
  BY <1>2 DEF InitCall, Activate, Deactivate, Called
<1>3. ASSUME NEW s \in Settings, Config(s) PROVE IInv'
  BY <1>3 DEF Config, Called
<1>4. CASE Execute
  BY <1>4 DEF Execute
<1>5. CASE SetEvent
  BY <1>5 DEF SetEvent
<1>6. ASSUME NEW how \in {"done", "delete"}, Finish(how) PROVE IInv'
  BY <1>6 DEF Finish
<1>7. CASE Finished
  BY <1>7 DEF Finished
<1>8. CASE LoopTop
  BY <1>8 DEF LoopTop
<1>9. CASE TryPop
  <2>1. /\ thread = "pop" /\ thread' \in {"poll", "send", "top"}
        /\ thread' = "poll" => cmdQueue' = <<>>
    BY <1>9 DEF TryPop
  <2>2. UNCHANGED <<finished, bRunning, event>>
    BY <1>9 DEF TryPop
  <2> QED BY <2>1, <2>2
<1>10. CASE Send \/ GetBoards \/ Wait
  BY <1>10 DEF Send, GetBoards, Wait
<1> QED BY <1>1, <1>2, <1>3, <1>4, <1>5, <1>6, <1>7, <1>8, <1>9, <1>10 DEF Next, Host, Executing

\* The invariant holds of every behaviour.
THEOREM Invariant == Spec => []IInv
  BY InitIInv, Step, PTL DEF Spec

\* No wake-up of ExecutionThreadFn is lost between try_pop, SetEvent and
\* WaitForSingleObject.
THEOREM NoLostWakeup == Spec => []WakeupPending
<1>1. IInv => WakeupPending
  BY DEF IInv, Woken, WakeupPending
<1> QED BY Invariant, <1>1, PTL

\* Once Done or the last Release has returned, the plugin makes no request.
THEOREM QuietWhenFinishedHolds == Spec => QuietWhenFinished
<1>1. IInv /\ [Next]_vars => [finished => requests' = requests]_vars
  <2> SUFFICES ASSUME IInv, [Next]_vars, finished PROVE requests' = requests
    OBVIOUS
  <2> USE DEF hostVars, threadVars
  <2>1. thread = "gone"
    BY DEF IInv, Ended
  <2>2. CASE UNCHANGED vars
    BY <2>2 DEF vars
  <2>3. CASE Executing
    BY <2>1, <2>3 DEF Executing, LoopTop, TryPop, Send, GetBoards, Wait
  <2>4. CASE Host
    BY <2>4 DEF Host, InitCall, Activate, Deactivate, Config, Execute, SetEvent, Finish, Finished
  <2> QED BY <2>2, <2>3, <2>4 DEF Next
<1> QED BY Invariant, <1>1, PTL DEF Spec, QuietWhenFinished

-----------------------------------------------------------------------------
(* The commands and their settings.                                        *)

\* The thread has a command exactly while it sends it; what it sends, and what
\* waits, was given before; the commands of a plugin's history have settings.
Numbered ==
  /\ thread = "send" => cmd \in 1..executed /\ local \in Sendable
  /\ thread # "send" => cmd = 0
  /\ \A i \in DOMAIN cmdQueue : cmdQueue[i] \in 1..executed
  /\ \A r \in requests : r[1] \in 1..executed

\* The settings of the moment serve every command given so far; the thread's
\* copy serves the command it pops with it.
Current ==
  /\ \A n \in 1..executed : plg_settings \in inForce[n]
  /\ thread = "pop" /\ cmdQueue # <<>> => local \in inForce[Head(cmdQueue)]
  /\ thread = "send" => local \in inForce[cmd]
  /\ SettingsInForce

CInv == IInv /\ TypeOK /\ Numbered /\ Current

LEMMA InitCInv == Init => CInv
<1> SUFFICES ASSUME Init PROVE TypeOK /\ Numbered /\ Current
  BY InitIInv DEF CInv
<1> USE ConstantsAssumption DEF Init
<1>1. TypeOK
  <2>1. /\ cmdQueue \in Seq(1..MaxCommands) /\ cmd \in 0..MaxCommands /\ executed \in 0..MaxCommands
        /\ inForce \in [1..MaxCommands -> SUBSET Settings]
    OBVIOUS
  <2>2. calls \in 0..MaxCalls /\ inited \in Int
    OBVIOUS
  <2> QED BY <2>1, <2>2 DEF TypeOK
<1>2. Numbered
  BY DEF Numbered
<1>3. Current
  BY DEF Current, SettingsInForce
<1> QED BY <1>1, <1>2, <1>3

\* The history of the settings only grows, for the commands given.
LEMMA Grows ==
  ASSUME TypeOK, Numbered, Current, NEW s \in Settings, Changes(s),
         UNCHANGED <<executed, thread, cmdQueue, local, cmd, requests>>
  PROVE  Current' /\ inForce' \in [1..MaxCommands -> SUBSET Settings]
<1> USE DEF Changes
<1>1. /\ \A n \in 1..executed : n \in 1..MaxCommands /\ inForce'[n] = inForce[n] \cup {s}
      /\ inForce' \in [1..MaxCommands -> SUBSET Settings]
  BY ConstantsAssumption DEF TypeOK
<1>2. cmdQueue # <<>> => Head(cmdQueue) \in 1..executed
  <2>1. cmdQueue # <<>> => 1 \in DOMAIN cmdQueue /\ Head(cmdQueue) = cmdQueue[1]
    BY DEF TypeOK
  <2> QED BY <2>1 DEF Numbered
<1> QED BY <1>1, <1>2 DEF Current, Numbered, SettingsInForce

\* A command more.
LEMMA ExecuteKeeps == CInv /\ Execute => (TypeOK /\ Numbered /\ Current)'
<1> SUFFICES ASSUME CInv, Execute PROVE (TypeOK /\ Numbered /\ Current)'
  OBVIOUS
<1> DEFINE n == executed + 1
<1>1. /\ executed' = n /\ n \in 1..MaxCommands /\ executed \in Nat /\ n > executed
      /\ cmdQueue' = Append(cmdQueue, n)
      /\ UNCHANGED <<inited, bRunning, config, plg_settings, finished, calls, event,
                     thread, local, cmd, requests, dropped>>
      /\ host' = "setEvent"
  BY ConstantsAssumption DEF CInv, TypeOK, Execute, threadVars
<1>2. inForce' = [inForce EXCEPT ![n] =
        {plg_settings} \cup (IF thread = "pop" /\ cmdQueue = <<>> THEN {local} ELSE {})]
  BY DEF Execute, Given
<1>3. /\ inForce' \in [1..MaxCommands -> SUBSET Settings]
      /\ plg_settings \in inForce'[n]
      /\ \A k \in 1..executed : k \in 1..MaxCommands /\ k # n /\ inForce'[k] = inForce[k]
      /\ thread = "pop" /\ cmdQueue = <<>> => local \in inForce'[n]
  <2>1. inForce \in [1..MaxCommands -> SUBSET Settings] /\ plg_settings \in Settings
        /\ local \in Settings /\ executed \in Nat /\ executed < n /\ n \in 1..MaxCommands
    BY <1>1 DEF CInv, TypeOK
  <2> HIDE DEF n
  <2>2. {plg_settings} \cup (IF thread = "pop" /\ cmdQueue = <<>> THEN {local} ELSE {})
          \in SUBSET Settings
    BY <2>1
  <2>3. \A k \in 1..executed : k \in 1..MaxCommands /\ k # n
    BY <2>1, ConstantsAssumption
  <2> QED BY <1>2, <2>1, <2>2, <2>3
<1> HIDE DEF n
<1>4. /\ cmdQueue' \in Seq(1..MaxCommands)
      /\ cmdQueue # <<>> => Head(cmdQueue') = Head(cmdQueue) /\ Head(cmdQueue) \in 1..executed
      /\ cmdQueue = <<>> => Head(cmdQueue') = n
      /\ \A i \in DOMAIN cmdQueue' : cmdQueue'[i] \in 1..executed \cup {n}
  BY <1>1 DEF CInv, TypeOK, Numbered
<1>5. 1..executed' = 1..executed \cup {n}
  BY <1>1 DEF n
<1>6. TypeOK'
  BY <1>1, <1>3, <1>4 DEF CInv, TypeOK
<1>7. Numbered'
  BY <1>1, <1>4, <1>5 DEF CInv, Numbered
<1>8. Current'
  <2>1. \A k \in 1..executed' : plg_settings' \in inForce'[k]
    BY <1>1, <1>3, <1>5 DEF CInv, Current
  <2>2. thread' = "pop" => local' \in inForce'[Head(cmdQueue')]
    BY <1>1, <1>3, <1>4 DEF CInv, Current
  <2>3. thread' = "send" => local' \in inForce'[cmd']
    BY <1>1, <1>3 DEF CInv, Current, Numbered
  <2>4. SettingsInForce'
    BY <1>1, <1>3 DEF CInv, Current, Numbered, SettingsInForce
  <2> QED BY <2>1, <2>2, <2>3, <2>4 DEF Current
<1> QED BY <1>6, <1>7, <1>8

\* The thread takes up a command.
LEMMA TryPopKeeps == CInv /\ TryPop => (TypeOK /\ Numbered /\ Current)'
<1> SUFFICES ASSUME CInv, TryPop PROVE (TypeOK /\ Numbered /\ Current)'
  OBVIOUS
<1> USE DEF CInv, hostVars, settingsVars
<1>0. /\ thread = "pop"
      /\ UNCHANGED <<host, inited, config, plg_settings, inForce, finished, executed,
                     calls, bRunning, event, local, requests>>
  BY DEF TryPop
<1>1. CASE cmdQueue = <<>>
  <2>1. thread' = "poll" /\ UNCHANGED <<cmdQueue, cmd, dropped>>
    BY <1>1 DEF TryPop
  <2> QED BY <1>0, <2>1 DEF TypeOK, Numbered, Current, SettingsInForce
<1>2. CASE cmdQueue # <<>>
  <2> DEFINE h == Head(cmdQueue)
  <2>1. /\ h \in 1..executed /\ h \in 1..MaxCommands
        /\ Tail(cmdQueue) \in Seq(1..MaxCommands)
        /\ \A i \in DOMAIN Tail(cmdQueue) : Tail(cmdQueue)[i] \in 1..executed
    <3>1. h = cmdQueue[1] /\ 1 \in DOMAIN cmdQueue /\ Tail(cmdQueue) \in Seq(1..MaxCommands)
          /\ \A i \in DOMAIN Tail(cmdQueue) : i + 1 \in DOMAIN cmdQueue
                                             /\ Tail(cmdQueue)[i] = cmdQueue[i + 1]
      BY <1>2 DEF TypeOK
    <3>2. \A i \in DOMAIN cmdQueue : cmdQueue[i] \in 1..executed
      BY DEF Numbered
    <3>3. \A k \in 1..executed : k \in 1..MaxCommands
      BY ConstantsAssumption DEF TypeOK
    <3> HIDE DEF h
    <3>4. h \in 1..executed
      BY <3>1, <3>2
    <3> QED BY <3>1, <3>2, <3>3, <3>4
  <2>2. /\ cmdQueue' = Tail(cmdQueue)
        /\ \/ local \in Sendable /\ thread' = "send" /\ cmd' = h /\ dropped' = dropped
           \/ thread' = "top" /\ dropped' = dropped \cup {h} /\ cmd' = cmd
    BY <1>2 DEF TryPop
  <2>3. local \in inForce[h]
    BY <1>0, <1>2 DEF Current
  <2> HIDE DEF h
  <2>4. TypeOK'
    <3>1. cmdQueue' \in Seq(1..MaxCommands)
      BY <2>1, <2>2
    <3>2. cmd' \in 0..MaxCommands /\ dropped' \subseteq 1..MaxCommands
          /\ thread' \in {"send", "top"}
      <4>1. h \in 0..MaxCommands /\ cmd \in 0..MaxCommands /\ dropped \subseteq 1..MaxCommands
        BY <2>1, ConstantsAssumption DEF TypeOK
      <4> QED BY <2>1, <2>2, <4>1
    <3> QED BY <1>0, <3>1, <3>2 DEF TypeOK
  <2>5. Numbered'
    BY <1>0, <2>1, <2>2 DEF Numbered
  <2>6. Current'
    BY <1>0, <2>2, <2>3 DEF Current, SettingsInForce
  <2> QED BY <2>4, <2>5, <2>6
<1> QED BY <1>1, <1>2

LEMMA CStep == CInv /\ [Next]_vars => CInv'
<1> SUFFICES ASSUME CInv, [Next]_vars PROVE (TypeOK /\ Numbered /\ Current)'
  BY Step DEF CInv
<1> USE ConstantsAssumption DEF CInv, hostVars, settingsVars, threadVars
<1>1. CASE UNCHANGED vars
  BY <1>1 DEF vars, TypeOK, Numbered, Current, SettingsInForce
<1>2. CASE InitCall
  <2>1. PICK s \in {config} \cup Unread : Changes(s)
    BY <1>2 DEF InitCall
  <2>2. s \in Settings /\ UNCHANGED <<executed, thread, cmdQueue, local, cmd, requests>>
    BY <1>2 DEF InitCall, TypeOK, Unread
  <2>3. Current' /\ inForce' \in [1..MaxCommands -> SUBSET Settings]
    BY <2>1, <2>2, Grows
  <2>4. Numbered'
    BY <2>2 DEF Numbered
  <2>5. plg_settings' \in Settings
    BY <2>1, <2>2 DEF Changes
  <2>6. TypeOK'
    BY <1>2, <2>3, <2>5 DEF InitCall, Called, Reinited, TypeOK
  <2> QED BY <2>3, <2>4, <2>6
<1>3. CASE Activate \/ Deactivate
  <2>1. /\ inited' \in Int /\ calls' \in 0..MaxCalls
        /\ UNCHANGED <<host, bRunning, settingsVars, finished, executed, cmdQueue, event,
                       thread, threadVars>>
    BY <1>3 DEF Activate, Deactivate, Called, TypeOK
  <2>2. TypeOK'
    BY <2>1 DEF TypeOK
  <2>3. Numbered' /\ Current'
    BY <2>1 DEF Numbered, Current, SettingsInForce
  <2> QED BY <2>2, <2>3
<1>4. ASSUME NEW s \in Settings, Config(s) PROVE (TypeOK /\ Numbered /\ Current)'
  <2>1. Changes(s) /\ UNCHANGED <<executed, thread, cmdQueue, local, cmd, requests>>
    BY <1>4 DEF Config
  <2>2. Current' /\ inForce' \in [1..MaxCommands -> SUBSET Settings]
    BY <2>1, Grows
  <2>3. TypeOK'
    BY <1>4, <2>2 DEF Config, Called, Changes, Unread, TypeOK
  <2>4. Numbered'
    BY <2>1 DEF Numbered
  <2> QED BY <2>2, <2>3, <2>4
<1>5. CASE Execute
  BY <1>5, ExecuteKeeps
<1>6. CASE SetEvent
  BY <1>6 DEF SetEvent, TypeOK, Numbered, Current, SettingsInForce
<1>7. ASSUME NEW how \in {"done", "delete"}, Finish(how) PROVE (TypeOK /\ Numbered /\ Current)'
  BY <1>7 DEF Finish, TypeOK, Numbered, Current, SettingsInForce
<1>8. CASE Finished
  BY <1>8 DEF Finished, TypeOK, Numbered, Current, SettingsInForce
<1>9. CASE LoopTop
  <2>1. cmdQueue # <<>> => Head(cmdQueue) \in 1..executed
    <3>1. cmdQueue # <<>> => 1 \in DOMAIN cmdQueue /\ Head(cmdQueue) = cmdQueue[1]
      BY DEF TypeOK
    <3> QED BY <3>1 DEF Numbered
  <2> QED BY <1>9, <2>1 DEF LoopTop, TypeOK, Numbered, Current, SettingsInForce
<1>10. CASE TryPop
  BY <1>10, TryPopKeeps
<1>11. CASE Send
  <2>1. requests' = requests \cup {<<cmd, local>>} /\ cmd' = 0 /\ thread' = "top"
        /\ UNCHANGED <<host, hostVars, bRunning, cmdQueue, event, local, dropped>>
    BY <1>11 DEF Send
  <2>2. cmd \in 1..executed /\ cmd \in 1..MaxCommands /\ local \in Sendable
        /\ local \in inForce[cmd]
    BY <1>11 DEF Send, Numbered, Current, TypeOK
  <2>3. TypeOK'
    BY <2>1, <2>2 DEF TypeOK
  <2>4. Numbered' /\ Current'
    BY <2>1, <2>2 DEF Numbered, Current, SettingsInForce
  <2> QED BY <2>3, <2>4
<1>12. CASE GetBoards \/ Wait
  BY <1>12 DEF GetBoards, Wait, TypeOK, Numbered, Current, SettingsInForce
<1> QED BY <1>1, <1>2, <1>3, <1>4, <1>5, <1>6, <1>7, <1>8, <1>9, <1>10, <1>11, <1>12
        DEF Next, Host, Executing

\* The variables keep their types.
THEOREM TypeCorrect == Spec => []TypeOK
<1>1. CInv => TypeOK
  BY DEF CInv
<1> QED BY InitCInv, CStep, <1>1, PTL DEF Spec

\* No command goes out with settings that were replaced before it was given,
\* whatever the interleaving of Config or Init with ExecutionThreadFn's copy.
THEOREM SettingsInForceHolds == Spec => []SettingsInForce
<1>1. CInv => SettingsInForce
  BY DEF CInv, Current
<1> QED BY InitCInv, CStep, <1>1, PTL DEF Spec

-----------------------------------------------------------------------------
(* The refinement.                                                         *)

\* Each step of the plugin is one of CommandSender, or none.
LEMMA Refines ==
  CInv /\ CInv' /\ [Next]_vars => [Promise!SenderNext]_(Promise!senderVars)
<1> SUFFICES ASSUME CInv, CInv', [Next]_vars
             PROVE  Promise!SenderNext \/ UNCHANGED Promise!senderVars
  OBVIOUS
<1> USE DEF CInv, hostVars, settingsVars, threadVars, Promise!senderVars
<1>1. CASE UNCHANGED vars
  BY <1>1 DEF vars
<1>2. CASE \/ InitCall \/ Activate \/ Deactivate \/ SetEvent \/ LoopTop \/ GetBoards \/ Wait
           \/ (\E s \in Settings : Config(s)) \/ \E how \in {"done", "delete"} : Finish(how)
  BY <1>2 DEF InitCall, Activate, Deactivate, SetEvent, LoopTop, GetBoards, Wait, Config, Finish
<1>3. CASE Execute
  <2>1. Promise!Give
    BY <1>3 DEF Execute, Promise!Give
  <2> QED BY <2>1 DEF Promise!SenderNext
<1>4. CASE Finished
  <2>1. thread = "gone" /\ cmd = 0 /\ finished' = TRUE /\ UNCHANGED <<executed, cmdQueue, cmd>>
    BY <1>4 DEF Finished, Numbered
  <2>2. finished \in BOOLEAN
    BY DEF TypeOK
  <2>3. CASE finished
    BY <2>1, <2>2, <2>3
  <2>4. CASE ~finished
    BY <2>1, <2>4 DEF Promise!End, Promise!SenderNext
  <2> QED BY <2>3, <2>4
<1>5. CASE TryPop
  <2>1. cmd = 0 /\ ~finished /\ UNCHANGED <<executed, finished>>
    BY <1>5 DEF TryPop, Numbered, IInv, Ended
  <2>2. CASE cmdQueue = <<>>
    BY <1>5, <2>1, <2>2 DEF TryPop
  <2>3. CASE cmdQueue # <<>>
    BY <1>5, <2>1, <2>3 DEF TryPop, Promise!Free, Promise!TakeUp, Promise!Drop,
                            Promise!SenderNext
  <2> QED BY <2>2, <2>3
<1>6. CASE Send
  <2>1. cmd # 0 /\ cmd' = 0 /\ UNCHANGED <<executed, cmdQueue, finished>>
    BY <1>6 DEF Send, Numbered, TypeOK
  <2> QED BY <2>1 DEF Promise!Sent, Promise!SenderNext
<1> QED BY <1>1, <1>2, <1>3, <1>4, <1>5, <1>6 DEF Next, Host, Executing

\* The plugin implements CommandSender: the commands are taken up in their order,
\* one at a time, and none after the end.
THEOREM SenderImplemented == Spec => ImplementsSender
<1>1. Init => Promise!SenderInit
  BY DEF Init, Promise!SenderInit
<1> QED BY InitCInv, CStep, Refines, <1>1, PTL DEF Spec, ImplementsSender, Promise!SenderSpec

=============================================================================
